--------------------------- MODULE GuiFormsProofs ---------------------------
(***************************************************************************)
(* Proofs about the forms of the GUI: types, that the monitor rows are     *)
(* distinct, that an update loses no monitor, and that the button tells    *)
(* whether the form can be sent, for any groups, monitors, openings and    *)
(* number of steps.                                                        *)
(***************************************************************************)
EXTENDS GuiForms, FiniteSetTheorems, TLAPS

(***************************************************************************)
(* The openings                                                            *)
(***************************************************************************)
\* A form that waits for its content is as it was made, but for an earlier
\* dialog that has set its button; what is asked for and the timers are of
\* forms with content; there is a monitor selector as soon as one of them is
\* loaded.
Untouched(f) == f = [NewForm EXCEPT !.quiet = f.quiet] /\ f.quiet \subseteq {"stale"}
OpenInv ==
    /\ \A g \in DOMAIN dlg : ~dlg[g].loaded => Untouched(dlg[g])
    /\ \A q \in req : IF q.what = "content" THEN ~dlg[q.form].loaded
                      ELSE dlg[q.form].loaded /\ q.what \in Asked
    /\ \A t \in timers : dlg[t.form].loaded /\ t.field \in Fields
    /\ sel # 0 => Monitored /\ dlg[sel].loaded
    /\ Monitored => \A g \in DOMAIN dlg : dlg[g].loaded => sel # 0

\* What has come is not asked for any more.
GotInv == \A q \in req : q.what \notin dlg[q.form].got

\* The button, until the content comes.
ClosedInv ==
    dlg # <<>> /\ ~Form.loaded /\ "stale" \notin Form.quiet => btn = (kind \in EnabledAtOpen)

(***************************************************************************)
(* The monitor rows                                                        *)
(***************************************************************************)
\* The rows have different keys, each of them offers its own and those that are
\* left, and the plus button is enabled when one is left.
Fresh(rows) == \A n \in DOMAIN rows : rows[n].opts = {rows[n].key} \cup (Monitor \ UsedKeys(rows))
Distinct(rows) == \A n, m \in DOMAIN rows : rows[n].key = rows[m].key => n = m
RowsOk(g, rows, plus) ==
    /\ Fresh(rows) /\ Distinct(rows)
    /\ \A n \in DOMAIN rows : rows[n].stored[1] \in {0, g}
    /\ plus <=> UsedKeys(rows) # Monitor
RowsInv == sel # 0 /\ hist \cap {"foreign", "added_early"} = {} => RowsOk(sel, dlg[sel].rows, dlg[sel].plus)

\* Once the stored monitors have come, each of them has a row in the selector
\* or had one that the user deleted.
Covered(g, f, S) == \A k \in S : <<g, k>> \in SentIds(f.rows) \cup f.removed
StoredInv ==
    sel # 0 /\ "monitoring_form" \in dlg[sel].flags => Covered(sel, dlg[sel], srv[sel])

(***************************************************************************)
(* The form f opened last, with button b and timers for the fields T       *)
(***************************************************************************)
\* A list has its flag when it came.
ListsOk(f) ==
    /\ f.got \subseteq Asked
    /\ \A x \in (Required \cap Asked) \ {"groups"} : x \in f.flags <=> x \in f.got

\* The groups on the right are not empty; in the edit dialog that is taken for
\* granted until they came, and until some are moved when none came.
GroupsOk(f) ==
    /\ "groups" \notin f.got => f.right = {}
    /\ "groups" \in Required =>
         ("groups" \in f.flags <=> \/ f.right # {}
                                  \/ "no_groups" \in f.odd
                                  \/ (kind = "edit" /\ "groups" \notin f.got))

MonitoringFlag(f) ==
    Monitored /\ f.quiet = {} => ("monitoring" \in f.flags <=> MonitoringOk(f, f.rows))

\* A field has its flag when it is filled or disabled, but for the exceptions
\* of ButtonTellsTheTruth.
Excused(f, x, T) ==
    \/ x \in T
    \/ "late" \in f.odd \/ "unbound" \in f.odd \/ "blank" \in f.odd
    \/ "one_key" \in f.odd /\ x \in Keys
TextFlag(f, x) == x \in f.flags <=> (Editable(f, x) => x \in f.text)
TextsOk(f, T) == \A x \in Fields : TextFlag(f, x) \/ Excused(f, x, T)
OddOk(f) == /\ "unbound" \in f.odd => kind \in {"network", "network_edit", "attach"}
            /\ f.odd \cap {"one_key", "late"} # {} => kind = "load_balancer"
            /\ "blank" \in f.odd => kind \in Filled

\* The button is what ready() made of the flags, unless something has changed
\* them since; only launching has lists that do so.
ButtonOk(f, b) ==
    f.quiet \cap {"unset", "stale"} = {} /\ (kind = "launch" => "select" \notin f.quiet)
      => (b <=> Required \subseteq f.flags)

\* Two dialogs come with the stored name and enabled, and ready() has not been
\* called yet.
Prefilled(f, b, T) ==
    /\ kind \in {"name_edit", "network_edit"}
    /\ f.flags = {}
    /\ "display_name" \in f.text \/ Excused(f, "display_name", T)
    /\ "stale" \notin f.quiet => b

FormOk(f, b, T) ==
    /\ ListsOk(f) /\ GroupsOk(f) /\ MonitoringFlag(f) /\ OddOk(f)
    /\ (TextsOk(f, T) /\ ButtonOk(f, b)) \/ Prefilled(f, b, T)

Timed(S, g) == {x \in AnyField : [form |-> g, field |-> x] \in S}
ButtonInv ==
    dlg # <<>> /\ Form.loaded /\ (Monitored => sel = Now) => FormOk(Form, btn, Timed(timers, Now))

FormsInv == TypeOK /\ OpenInv /\ GotInv /\ ClosedInv /\ RowsInv /\ StoredInv /\ ButtonInv

(***************************************************************************)
(* Types                                                                   *)
(***************************************************************************)
LEMMA Constants ==
  /\ IsFiniteSet(Group) /\ Group # {}
  /\ Monitor \subseteq Nat /\ IsFiniteSet(Monitor) /\ Monitor # {}
  /\ InitStored \subseteq SUBSET Monitor
  /\ MaxOpens \in Nat /\ MaxLeft \in Nat /\ MaxSteps \in Nat /\ MaxOnceSteps \in Nat /\ MaxOpens > 0
  BY FormsAssumption

LEMMA StoredConstants == InitMails \subseteq Mails /\ InitOn \subseteq BOOLEAN
  BY FormsAssumption DEF Mails

LEMMA Tables ==
  /\ Fields \subseteq AnyField /\ Required \subseteq AnyFlag /\ SetAtStart \subseteq AnyFlag
  /\ Asked \subseteq AnyList
  BY DEF Fields, Required, SetAtStart, Asked, AnyField, AnyFlag, AnyList, LoadBalancerFields,
         LaunchFlags, EditFlags, RegisterFlags, VolumeFlags, NetworkFlags

LEMMA NewTypes == NewForm \in FormType
  BY DEF NewForm, FormType, Mails

LEMMA Typing ==
  ASSUME NEW f \in FormType
  PROVE  /\ f.loaded \in BOOLEAN /\ f.flags \subseteq AnyFlag /\ f.text \subseteq AnyField
         /\ f.mail \in {"empty", "valid", "invalid"} /\ f.on \in BOOLEAN /\ f.got \subseteq AnyList
         /\ f.right \subseteq Group /\ f.rows \in Seq(Row) /\ f.plus \in BOOLEAN
         /\ f.removed \subseteq Nat \X Nat /\ f.leastconn \in BOOLEAN /\ f.sticky \in BOOLEAN
         /\ f.protocol \in {"http", "https", "tcp", "ssl"}
         /\ f.quiet \subseteq {"stale", "unset", "select", "rows"}
         /\ f.odd \subseteq {"unbound", "late", "one_key", "blank", "no_groups"}
  BY DEF FormType, Mails

\* A flag set or reset, and nothing else.
LEMMA FlagTypes ==
  ASSUME NEW f \in FormType, NEW k \in AnyFlag, NEW b \in BOOLEAN
  PROVE  /\ SetFlag(f, k, b) \in FormType
         /\ SetFlag(f, k, b).flags = IF b THEN f.flags \cup {k} ELSE f.flags \ {k}
         /\ SetFlag(f, k, b) = [f EXCEPT !.flags = SetFlag(f, k, b).flags]
  BY DEF SetFlag, FormType

\* One field of a form replaced.
LEMMA PartTypes ==
  ASSUME NEW f \in FormType
  PROVE  /\ \A S \in SUBSET AnyFlag : [f EXCEPT !.flags = S] \in FormType
         /\ \A S \in SUBSET AnyField : [f EXCEPT !.text = S] \in FormType
         /\ \A S \in SUBSET {"stale", "unset", "select", "rows"} : [f EXCEPT !.quiet = S] \in FormType
         /\ \A S \in SUBSET {"unbound", "late", "one_key", "blank", "no_groups"} : [f EXCEPT !.odd = S] \in FormType
         /\ \A S \in SUBSET AnyList : [f EXCEPT !.got = S] \in FormType
         /\ \A S \in SUBSET Group : [f EXCEPT !.right = S] \in FormType
         /\ \A m \in {"empty", "valid", "invalid"} : [f EXCEPT !.mail = m] \in FormType
         /\ \A b \in BOOLEAN : [f EXCEPT !.on = b] \in FormType
  BY DEF FormType, Mails

(***************************************************************************)
(* What ready() and the handlers that do not call it change                *)
(***************************************************************************)
Marked(f) == [f EXCEPT !.quiet = @ \cup {"stale"}]
Readied(g, f) == [Recomputed(g, f) EXCEPT !.quiet = {}]

\* Form g becomes r; if it is not the one opened last, that one is marked or is
\* left alone with its button.
Changed(g, r) ==
    /\ dlg' \in Seq(FormType) /\ Len(dlg') = Len(dlg) /\ btn' \in BOOLEAN
    /\ DOMAIN dlg' = DOMAIN dlg /\ DOMAIN dlg = 1 .. Len(dlg) /\ Len(dlg) \in DOMAIN dlg
    /\ dlg'[g] = r /\ r \in FormType
    /\ \A h \in DOMAIN dlg : h # g /\ h # Len(dlg) => dlg'[h] = dlg[h]
    /\ g # Len(dlg) => \/ dlg'[Len(dlg)] = Marked(dlg[Len(dlg)])
                       \/ dlg'[Len(dlg)] = dlg[Len(dlg)] /\ btn' = btn

LEMMA MarkedTypes ==
  ASSUME NEW f \in FormType
  PROVE  Marked(f) \in FormType /\ Marked(f).quiet = f.quiet \cup {"stale"}
  BY DEF Marked, FormType

\* ready() sets the flag "monitoring" by the rows of the monitor selector.
LEMMA ReadiedForm ==
  ASSUME NEW f \in FormType, NEW g
  PROVE  /\ Readied(g, f) \in FormType
         /\ Readied(g, f) = [f EXCEPT !.flags = Readied(g, f).flags, !.quiet = {}]
         /\ \A x \in AnyFlag \ {"monitoring"} : x \in Readied(g, f).flags <=> x \in f.flags
         /\ Monitored => ("monitoring" \in Readied(g, f).flags <=> MonitoringOk(f, SelRows(g, f)))
         /\ ~Monitored => Readied(g, f).flags = f.flags
<1>1. "monitoring" \in AnyFlag
  BY DEF AnyFlag
<1>2. CASE Monitored
  <2> DEFINE b == MonitoringOk(f, SelRows(g, f))
  <2>1. b \in BOOLEAN
    BY DEF MonitoringOk, LaunchMail, EditMail, RowsValid
  <2>2. Readied(g, f) = [SetFlag(f, "monitoring", b) EXCEPT !.quiet = {}]
    BY <1>2 DEF Readied, Recomputed
  <2> HIDE DEF b
  <2>3. /\ Readied(g, f) \in FormType
        /\ Readied(g, f) = [f EXCEPT !.flags = Readied(g, f).flags, !.quiet = {}]
        /\ Readied(g, f).flags = IF b THEN f.flags \cup {"monitoring"} ELSE f.flags \ {"monitoring"}
    <3> DEFINE S == IF b THEN f.flags \cup {"monitoring"} ELSE f.flags \ {"monitoring"}
    <3>1. S \subseteq AnyFlag
      BY <1>1, Typing
    <3>2. Readied(g, f) = [f EXCEPT !.flags = S, !.quiet = {}]
      BY <2>2 DEF SetFlag, FormType
    <3> HIDE DEF S
    <3>3. [f EXCEPT !.flags = S, !.quiet = {}] \in FormType
      BY <3>1 DEF FormType
    <3>4. [f EXCEPT !.flags = S, !.quiet = {}].flags = S
      BY DEF FormType
    <3>5. Readied(g, f).flags = S
      BY <3>2, <3>4
    <3> QED
      BY <3>2, <3>3, <3>5 DEF S
  <2> QED
    BY <1>2, <2>1, <2>3 DEF b
<1>3. CASE ~Monitored
  BY <1>3 DEF Readied, Recomputed, FormType
<1> QED
  BY <1>2, <1>3

LEMMA ReadiedSame ==
  ASSUME NEW f \in FormType, NEW g
  PROVE  LET r == Readied(g, f)
         IN  /\ r.loaded = f.loaded /\ r.got = f.got /\ r.right = f.right /\ r.odd = f.odd
             /\ r.text = f.text /\ r.mail = f.mail /\ r.on = f.on /\ r.rows = f.rows /\ r.plus = f.plus
             /\ r.removed = f.removed /\ r.sticky = f.sticky /\ r.protocol = f.protocol /\ r.quiet = {}
<1>1. PICK S : Readied(g, f) = [f EXCEPT !.flags = S, !.quiet = {}]
  BY ReadiedForm
<1> QED
  BY <1>1 DEF FormType

LEMMA Ready ==
  ASSUME TypeOK, NEW g \in DOMAIN dlg, NEW f \in FormType, CallReady(g, f)
  PROVE  /\ Changed(g, Readied(g, f))
         /\ btn' = (Required \subseteq Readied(g, f).flags)
<1>1. Readied(g, f) \in FormType
  BY ReadiedForm
<1>2. dlg \in Seq(FormType) /\ DOMAIN dlg = 1 .. Len(dlg) /\ Len(dlg) \in DOMAIN dlg
  BY DEF TypeOK
<1>3. dlg[Len(dlg)] \in FormType /\ Marked(dlg[Len(dlg)]) \in FormType
  BY <1>2, MarkedTypes
<1>4. dlg' = IF g = Len(dlg) THEN [dlg EXCEPT ![g] = Readied(g, f)]
             ELSE [dlg EXCEPT ![g] = Readied(g, f), ![Len(dlg)] = Marked(@)]
  BY <1>2 DEF CallReady, Readied, Marked
<1>5. btn' = (Required \subseteq Readied(g, f).flags)
  BY DEF CallReady, Readied
<1>6. dlg' \in Seq(FormType) /\ Len(dlg') = Len(dlg) /\ DOMAIN dlg' = DOMAIN dlg
  BY <1>1, <1>2, <1>3, <1>4
<1> QED
  BY <1>1, <1>2, <1>4, <1>5, <1>6 DEF Changed

LEMMA Quiet ==
  ASSUME TypeOK, NEW g \in DOMAIN dlg, NEW f \in FormType,
         NEW why \in SUBSET {"unset", "select", "rows"}, Quietly(g, f, why)
  PROVE  /\ Changed(g, [f EXCEPT !.quiet = @ \cup why])
         /\ btn' = btn
<1> DEFINE r == [f EXCEPT !.quiet = @ \cup why]
<1>1. r \in FormType
  BY DEF FormType
<1>2. dlg \in Seq(FormType) /\ DOMAIN dlg = 1 .. Len(dlg) /\ Len(dlg) \in DOMAIN dlg
  BY DEF TypeOK
<1>3. dlg' = [dlg EXCEPT ![g] = r] /\ btn' = btn
  BY DEF Quietly
<1> HIDE DEF r
<1>4. dlg' \in Seq(FormType) /\ Len(dlg') = Len(dlg) /\ DOMAIN dlg' = DOMAIN dlg
  BY <1>1, <1>2, <1>3
<1>5. btn' \in BOOLEAN
  BY <1>3 DEF TypeOK
<1>6. Changed(g, r)
  BY <1>1, <1>2, <1>3, <1>4, <1>5 DEF Changed
<1> QED
  BY <1>3, <1>6 DEF r

(***************************************************************************)
(* What a step that changes one loaded form leaves as it is                *)
(***************************************************************************)
Histories == {"foreign", "added_early", "failed", "pressed_early"}

\* The step changes form g, and of the rest the requests that are answered, the
\* timers of this form, the steps and the history.
Frame(g) ==
    /\ g \in DOMAIN dlg /\ dlg[g].loaded
    /\ kind' = kind /\ open' = open /\ sel' = sel /\ srv' = srv /\ lost' = lost
    /\ steps' \in Nat /\ req' \subseteq req
    /\ \A t \in timers' : t \in timers \/ \E x \in Fields : t = [form |-> g, field |-> x]
    /\ hist \subseteq hist' /\ hist' \subseteq Histories

\* The tables that depend on the kind of the dialog alone.
LEMMA SameKind ==
  ASSUME kind' = kind
  PROVE  /\ Fields' = Fields /\ Required' = Required /\ Asked' = Asked /\ SetAtStart' = SetAtStart
         /\ Monitored' = Monitored
  BY DEF Fields, Required, Asked, SetAtStart, Monitored

LEMMA TypeKept ==
  ASSUME TypeOK, NEW g, NEW r, Frame(g), Changed(g, r)
  PROVE  TypeOK'
<1>1. dlg' \in Seq(FormType) /\ Len(dlg') = Len(dlg) /\ btn' \in BOOLEAN /\ Len(dlg') <= MaxOpens
  BY DEF TypeOK, Changed
<1>2. open' \in BOOLEAN /\ (open' => dlg' # <<>>)
  BY <1>1 DEF TypeOK, Frame
<1>3. timers' \subseteq [form : 1 .. Len(dlg'), field : AnyField]
  BY <1>1, Tables DEF TypeOK, Frame, Changed
<1>4. req' \subseteq [form : 1 .. Len(dlg'), what : AnyList \cup {"content"}] /\ sel' \in 0 .. Len(dlg')
  BY <1>1 DEF TypeOK, Frame
<1> QED
  BY <1>1, <1>2, <1>3, <1>4 DEF TypeOK, Frame, Histories

LEMMA MarkedSame ==
  ASSUME NEW f \in FormType
  PROVE  /\ Marked(f).loaded = f.loaded /\ Marked(f).rows = f.rows /\ Marked(f).plus = f.plus
         /\ Marked(f).flags = f.flags /\ Marked(f).removed = f.removed /\ Marked(f).got = f.got
         /\ Untouched(f) => Untouched(Marked(f))
<1>1. /\ Marked(f).loaded = f.loaded /\ Marked(f).rows = f.rows /\ Marked(f).plus = f.plus
      /\ Marked(f).flags = f.flags /\ Marked(f).removed = f.removed /\ Marked(f).got = f.got
  BY DEF Marked, FormType
<1>2. ASSUME Untouched(f) PROVE Untouched(Marked(f))
  <2>1. Marked(f) = [NewForm EXCEPT !.quiet = Marked(f).quiet]
    BY <1>2 DEF Untouched, Marked, NewForm
  <2>2. Marked(f).quiet \subseteq {"stale"}
    BY <1>2, MarkedTypes DEF Untouched
  <2> QED
    BY <2>1, <2>2 DEF Untouched
<1> QED
  BY <1>1, <1>2

LEMMA Elsewhere ==
  ASSUME TypeOK, NEW g, NEW r, Changed(g, r), NEW h \in DOMAIN dlg, h # g
  PROVE  /\ dlg[h] \in FormType /\ dlg'[h] \in {dlg[h], Marked(dlg[h])}
         /\ dlg'[h].loaded = dlg[h].loaded /\ dlg'[h].rows = dlg[h].rows /\ dlg'[h].plus = dlg[h].plus
         /\ dlg'[h].flags = dlg[h].flags /\ dlg'[h].removed = dlg[h].removed /\ dlg'[h].got = dlg[h].got
         /\ Untouched(dlg[h]) => Untouched(dlg'[h])
<1>1. dlg[h] \in FormType
  BY DEF TypeOK
<1>2. dlg'[h] = dlg[h] \/ dlg'[h] = Marked(dlg[h])
  BY DEF Changed
<1> QED
  BY <1>1, <1>2, MarkedSame

\* The requests and timers are of loaded forms as long as no form is loaded or
\* unloaded.
LEMMA OpenNext ==
  ASSUME TypeOK, OpenInv, NEW g, Frame(g), DOMAIN dlg' = DOMAIN dlg,
         \A h \in DOMAIN dlg : /\ dlg'[h].loaded = dlg[h].loaded
                               /\ ~dlg[h].loaded => Untouched(dlg'[h])
  PROVE  OpenInv'
<1>1. \A h \in DOMAIN dlg' : ~dlg'[h].loaded => Untouched(dlg'[h])
  OBVIOUS
<1>2. \A q \in req' : IF q.what = "content" THEN ~dlg'[q.form].loaded
                      ELSE dlg'[q.form].loaded /\ q.what \in Asked'
  <2> TAKE q \in req'
  <2>1. q \in req /\ q.form \in DOMAIN dlg
    BY DEF Frame, TypeOK
  <2>2. Asked' = Asked
    BY SameKind DEF Frame
  <2>3. IF q.what = "content" THEN ~dlg[q.form].loaded
                      ELSE dlg[q.form].loaded /\ q.what \in Asked
    BY <2>1 DEF OpenInv
  <2> QED
    BY <2>1, <2>2, <2>3
<1>3. \A t \in timers' : dlg'[t.form].loaded /\ t.field \in Fields'
  <2> TAKE t \in timers'
  <2>1. Fields' = Fields
    BY SameKind DEF Frame
  <2>2. CASE t \in timers
    <3>1. t.form \in DOMAIN dlg
      BY <2>2 DEF TypeOK
    <3> QED
      BY <2>1, <2>2, <3>1 DEF OpenInv
  <2>3. ASSUME NEW x \in Fields, t = [form |-> g, field |-> x] PROVE dlg'[t.form].loaded /\ t.field \in Fields'
    BY <2>1, <2>3 DEF Frame
  <2> QED
    BY <2>2, <2>3 DEF Frame
<1>4. Monitored' = Monitored /\ sel' = sel
  BY SameKind DEF Frame
<1>5. sel' # 0 => Monitored' /\ dlg'[sel'].loaded
  <2> SUFFICES ASSUME sel # 0 PROVE Monitored /\ dlg'[sel].loaded
    BY <1>4
  <2>1. sel \in DOMAIN dlg
    BY DEF TypeOK
  <2> QED
    BY <2>1 DEF OpenInv
<1>6. Monitored' => \A h \in DOMAIN dlg' : dlg'[h].loaded => sel' # 0
  BY <1>4 DEF OpenInv
<1> QED
  BY <1>1, <1>2, <1>3, <1>5, <1>6 DEF OpenInv

LEMMA OpenKept ==
  ASSUME TypeOK, OpenInv, ClosedInv, NEW g, NEW r, Frame(g), Changed(g, r), r.loaded
  PROVE  OpenInv' /\ ClosedInv'
<1>1. DOMAIN dlg' = DOMAIN dlg /\ dlg'[g] = r /\ g \in DOMAIN dlg /\ Len(dlg') = Len(dlg)
  BY DEF Changed, Frame
<1>2. \A h \in DOMAIN dlg : /\ dlg'[h].loaded = dlg[h].loaded
                            /\ ~dlg[h].loaded => Untouched(dlg[h]) /\ Untouched(dlg'[h])
  <2> TAKE h \in DOMAIN dlg
  <2>1. CASE h = g
    <3>1. r \in FormType /\ dlg[g] \in FormType
      BY <1>1 DEF Changed, TypeOK
    <3>2. r.loaded \in BOOLEAN /\ dlg[g].loaded \in BOOLEAN /\ dlg[g].loaded
      BY <3>1, Typing DEF Frame
    <3> QED
      BY <2>1, <3>2, <1>1, Zenon
  <2>2. CASE h # g
    BY <2>2, Elsewhere DEF OpenInv
  <2> QED
    BY <2>1, <2>2
<1>3. OpenInv'
  BY <1>1, <1>2, OpenNext
<1>4. ClosedInv'
  <2> SUFFICES ASSUME dlg' # <<>>, ~dlg'[Len(dlg)].loaded, "stale" \notin dlg'[Len(dlg)].quiet
               PROVE  btn' = (kind' \in EnabledAtOpen)
    BY <1>1 DEF ClosedInv, Form, Now, EnabledAtOpen
  <2>1. g # Len(dlg)
    BY <1>1
  <2>2. dlg[Len(dlg)] \in FormType /\ Len(dlg) \in DOMAIN dlg
    BY DEF Changed, TypeOK
  <2>3. dlg'[Len(dlg)] # Marked(dlg[Len(dlg)])
    BY <2>2, MarkedTypes
  <2>4. dlg'[Len(dlg)] = dlg[Len(dlg)] /\ btn' = btn
    BY <2>1, <2>3 DEF Changed
  <2>5. dlg # <<>>
    BY <2>2
  <2> QED
    BY <2>4, <2>5 DEF ClosedInv, Form, Now, Frame
<1> QED
  BY <1>3, <1>4

LEMMA GotKept ==
  ASSUME TypeOK, GotInv, NEW g, NEW r, Frame(g), Changed(g, r),
         \A q \in req' : q.form = g => q.what \notin r.got \ dlg[g].got
  PROVE  GotInv'
<1> SUFFICES ASSUME NEW q \in req' PROVE q.what \notin dlg'[q.form].got
  BY DEF GotInv
<1>1. q \in req /\ q.form \in DOMAIN dlg
  BY DEF Frame, TypeOK
<1>2. q.what \notin dlg[q.form].got
  BY <1>1 DEF GotInv
<1>3. CASE q.form = g
  BY <1>2, <1>3 DEF Changed
<1>4. CASE q.form # g
  BY <1>1, <1>2, <1>4, Elsewhere
<1> QED
  BY <1>3, <1>4

\* The rows stay in order, if the step keeps those of the selector's form so.
LEMMA RowsKept ==
  ASSUME TypeOK, RowsInv, NEW g, NEW r, Frame(g), Changed(g, r),
         g = sel /\ hist' \cap {"foreign", "added_early"} = {} /\ RowsOk(sel, dlg[g].rows, dlg[g].plus)
           => RowsOk(sel, r.rows, r.plus)
  PROVE  RowsInv'
<1> SUFFICES ASSUME sel # 0, hist' \cap {"foreign", "added_early"} = {}
             PROVE  RowsOk(sel, dlg'[sel].rows, dlg'[sel].plus)
  BY DEF RowsInv, Frame, RowsOk, Fresh, Distinct, UsedKeys
<1>1. sel \in DOMAIN dlg
  BY DEF TypeOK
<1>2. RowsOk(sel, dlg[sel].rows, dlg[sel].plus)
  BY DEF RowsInv, Frame
<1>3. sel # g => dlg'[sel].rows = dlg[sel].rows /\ dlg'[sel].plus = dlg[sel].plus
  BY <1>1, Elsewhere
<1> QED
  BY <1>2, <1>3 DEF Changed

\* No row of a stored monitor goes, and the flag of the monitors is not set.
LEMMA StoredKept ==
  ASSUME TypeOK, StoredInv, NEW g, NEW r, Frame(g), Changed(g, r),
         g = sel => /\ SentIds(dlg[g].rows) \cup dlg[g].removed \subseteq SentIds(r.rows) \cup r.removed
                    /\ "monitoring_form" \in r.flags => "monitoring_form" \in dlg[g].flags
  PROVE  StoredInv'
<1> SUFFICES ASSUME sel # 0, "monitoring_form" \in dlg'[sel].flags
             PROVE  Covered(sel, dlg'[sel], srv[sel])
  BY DEF StoredInv, Frame, Covered, SentIds
<1>1. sel \in DOMAIN dlg
  BY DEF TypeOK
<1>2. SentIds(dlg[sel].rows) \cup dlg[sel].removed \subseteq SentIds(dlg'[sel].rows) \cup dlg'[sel].removed
  BY <1>1, Elsewhere DEF Changed
<1>3. "monitoring_form" \in dlg[sel].flags
  BY <1>1, Elsewhere DEF Changed
<1> QED
  BY <1>2, <1>3 DEF StoredInv, Covered

\* An earlier dialog that sets the button marks the form, which excuses it.
LEMMA FormMarked ==
  ASSUME NEW f \in FormType, NEW b, NEW c, NEW T, FormOk(f, b, T)
  PROVE  FormOk(Marked(f), c, T)
<1> DEFINE m == Marked(f)
<1>1. /\ m.flags = f.flags /\ m.got = f.got /\ m.right = f.right /\ m.odd = f.odd /\ m.text = f.text
      /\ m.sticky = f.sticky /\ m.protocol = f.protocol /\ "stale" \in m.quiet
  BY DEF Marked, FormType
<1> HIDE DEF m
<1>2. ListsOk(m) /\ GroupsOk(m) /\ OddOk(m)
  BY <1>1 DEF FormOk, ListsOk, GroupsOk, OddOk
<1>3. MonitoringFlag(m) /\ ButtonOk(m, c)
  BY <1>1 DEF MonitoringFlag, ButtonOk
<1>4. \A x : Excused(f, x, T) => Excused(m, x, T)
  BY <1>1 DEF Excused
<1>5. \A x : TextFlag(f, x) => TextFlag(m, x)
  BY <1>1 DEF TextFlag, Editable, Secure
<1>6. TextsOk(f, T) => TextsOk(m, T)
  BY <1>4, <1>5 DEF TextsOk
<1>7. Prefilled(f, b, T) => Prefilled(m, c, T)
  BY <1>1, <1>4 DEF Prefilled
<1> QED
  BY <1>2, <1>3, <1>6, <1>7 DEF FormOk, m

\* FormOk speaks of the kind of the dialog and of nothing else in the state.
LEMMA ButtonAfter ==
  ASSUME kind' = kind,
         dlg' # <<>> /\ dlg'[Len(dlg')].loaded /\ (Monitored => sel' = Len(dlg'))
           => FormOk(dlg'[Len(dlg')], btn', Timed(timers', Len(dlg')))
  PROVE  ButtonInv'
<1>1. /\ Fields' = Fields /\ Required' = Required /\ Asked' = Asked /\ Monitored' = Monitored
  BY SameKind
<1>2. ASSUME NEW f, NEW b, NEW T, FormOk(f, b, T) PROVE FormOk(f, b, T)'
  <2>1. ListsOk(f)' /\ GroupsOk(f)' /\ OddOk(f)' /\ MonitoringFlag(f)'
    BY <1>1, <1>2 DEF FormOk, ListsOk, GroupsOk, OddOk, MonitoringFlag, MonitoringOk, LaunchMail, EditMail, RowsValid
  <2>2. TextsOk(f, T) => TextsOk(f, T)'
    BY <1>1 DEF TextsOk, TextFlag, Excused, Editable, Secure, Keys
  <2>3. ButtonOk(f, b) => ButtonOk(f, b)'
    BY <1>1 DEF ButtonOk
  <2>4. Prefilled(f, b, T) => Prefilled(f, b, T)'
    BY <1>1 DEF Prefilled, Excused, Keys
  <2> QED
    BY <1>2, <2>1, <2>2, <2>3, <2>4 DEF FormOk
<1> QED
  BY <1>1, <1>2 DEF ButtonInv, Form, Now, Timed

LEMMA ButtonNext ==
  ASSUME kind' = kind, sel' = sel, Len(dlg') = Len(dlg),
         dlg' # <<>> /\ dlg'[Len(dlg)].loaded /\ (Monitored => sel = Len(dlg))
           => FormOk(dlg'[Len(dlg)], btn', Timed(timers', Len(dlg)))
  PROVE  ButtonInv'
  BY ButtonAfter

LEMMA ButtonElsewhere ==
  ASSUME TypeOK, ButtonInv, NEW g, NEW r, Frame(g), Changed(g, r), g # Len(dlg),
         Timed(timers', Len(dlg)) = Timed(timers, Len(dlg))
  PROVE  ButtonInv'
<1>1. kind' = kind /\ sel' = sel /\ Len(dlg') = Len(dlg) /\ Len(dlg) \in DOMAIN dlg
  BY DEF Frame, Changed
<1> SUFFICES ASSUME dlg'[Len(dlg)].loaded, Monitored => sel = Len(dlg)
             PROVE  FormOk(dlg'[Len(dlg)], btn', Timed(timers', Len(dlg)))
  BY <1>1, ButtonNext
<1>2. dlg[Len(dlg)] \in FormType /\ dlg[Len(dlg)].loaded /\ dlg # <<>>
  BY <1>1, Elsewhere
<1>3. FormOk(dlg[Len(dlg)], btn, Timed(timers, Len(dlg)))
  BY <1>2 DEF ButtonInv, Form, Now
<1> QED
  BY <1>2, <1>3, FormMarked DEF Changed

\* After ready() the button is what the flags say, and the flags of lists, groups
\* and fields are as they were before it.
LEMMA ReadyOk ==
  ASSUME NEW f \in FormType, NEW g, NEW T, Monitored => sel = g,
         ListsOk(f), GroupsOk(f), OddOk(f), TextsOk(f, T)
  PROVE  FormOk(Readied(g, f), Required \subseteq Readied(g, f).flags, T)
<1> DEFINE r == Readied(g, f)
<1>1. /\ r.got = f.got /\ r.right = f.right /\ r.odd = f.odd /\ r.text = f.text /\ r.mail = f.mail
      /\ r.on = f.on /\ r.rows = f.rows /\ r.sticky = f.sticky /\ r.protocol = f.protocol /\ r.quiet = {}
  BY ReadiedSame
<1>2. \A x \in AnyFlag \ {"monitoring"} : x \in r.flags <=> x \in f.flags
  BY ReadiedForm
<1>3. Monitored => ("monitoring" \in r.flags <=> MonitoringOk(f, f.rows))
  BY ReadiedForm DEF SelRows
<1> HIDE DEF r
<1>4. Asked \subseteq AnyFlag \ {"monitoring"} /\ Fields \subseteq AnyFlag \ {"monitoring"}
  BY Tables DEF AnyFlag, AnyList, AnyField, LoadBalancerFields
<1>5. ListsOk(r)
  BY <1>1, <1>2, <1>4 DEF ListsOk
<1>6. GroupsOk(r) /\ OddOk(r)
  BY <1>1, <1>2 DEF GroupsOk, OddOk, AnyFlag, AnyList
<1>7. MonitoringFlag(r)
  BY <1>1, <1>3 DEF MonitoringFlag, MonitoringOk, LaunchMail, EditMail
<1>8. TextsOk(r, T)
  BY <1>1, <1>2, <1>4 DEF TextsOk, TextFlag, Excused, Editable, Secure
<1>9. ButtonOk(r, Required \subseteq r.flags)
  BY DEF ButtonOk
<1> QED
  BY <1>5, <1>6, <1>7, <1>8, <1>9 DEF FormOk, r

LEMMA ReadyButton ==
  ASSUME TypeOK, Frame(Len(dlg)), NEW f \in FormType, CallReady(Len(dlg), f),
         (Monitored => sel = Len(dlg)) =>
           ListsOk(f) /\ GroupsOk(f) /\ OddOk(f) /\ TextsOk(f, Timed(timers', Len(dlg)))
  PROVE  ButtonInv'
<1>1. /\ Changed(Len(dlg), Readied(Len(dlg), f))
      /\ btn' = (Required \subseteq Readied(Len(dlg), f).flags)
  BY Ready DEF Frame
<1>2. kind' = kind /\ sel' = sel /\ Len(dlg') = Len(dlg) /\ dlg'[Len(dlg)] = Readied(Len(dlg), f)
  BY <1>1 DEF Frame, Changed
<1> SUFFICES ASSUME Monitored => sel = Len(dlg)
             PROVE  FormOk(dlg'[Len(dlg)], btn', Timed(timers', Len(dlg)))
  BY <1>2, ButtonNext
<1>3. FormOk(Readied(Len(dlg), f), Required \subseteq Readied(Len(dlg), f).flags, Timed(timers', Len(dlg)))
  BY ReadyOk
<1> QED
  BY <1>1, <1>2, <1>3

LEMMA QuietButton ==
  ASSUME Frame(Len(dlg)), NEW r, Changed(Len(dlg), r),
         (Monitored => sel = Len(dlg)) => FormOk(r, btn', Timed(timers', Len(dlg)))
  PROVE  ButtonInv'
  BY ButtonNext DEF Frame, Changed

\* What the button's invariant gives a handler of the form opened last.
LEMMA Current ==
  ASSUME FormsInv, Form.loaded, dlg # <<>>, Monitored => sel = Now
  PROVE  /\ FormOk(Form, btn, Timed(timers, Now))
         /\ ListsOk(Form) /\ GroupsOk(Form) /\ OddOk(Form) /\ MonitoringFlag(Form)
         /\ Asked # {} \/ kind \notin {"name_edit", "network_edit"} =>
              TextsOk(Form, Timed(timers, Now)) /\ ButtonOk(Form, btn)
<1>1. FormOk(Form, btn, Timed(timers, Now))
  BY DEF FormsInv, ButtonInv
<1>2. kind \in {"name_edit", "network_edit"} => Asked = {}
  BY DEF Asked
<1> QED
  BY <1>1, <1>2 DEF FormOk, Prefilled

(***************************************************************************)
(* The user's handlers                                                     *)
(***************************************************************************)
\* Form r for the form opened last: the rows of the selector stay in order, no
\* row of a stored monitor goes, the flag of the monitors is not set, and no list
\* comes.
Careful(r) ==
    /\ r.got = Form.got
    /\ sel = Now => /\ RowsOk(sel, Form.rows, Form.plus) => RowsOk(sel, r.rows, r.plus)
                    /\ SentIds(Form.rows) \cup Form.removed \subseteq SentIds(r.rows) \cup r.removed
                    /\ "monitoring_form" \in r.flags => "monitoring_form" \in Form.flags

LEMMA UserFrame ==
  ASSUME TypeOK, UserActs, lost' = lost, hist' = hist,
         \A t \in timers' : t \in timers \/ \E x \in Fields : t = [form |-> Now, field |-> x]
  PROVE  Frame(Now) /\ Now = Len(dlg) /\ Form = dlg[Len(dlg)] /\ Form \in FormType /\ dlg # <<>>
<1>1. dlg # <<>> /\ Len(dlg) \in DOMAIN dlg
  BY DEF TypeOK, UserActs
<1>2. Form \in FormType
  BY <1>1 DEF TypeOK, Form, Now
<1>3. steps' \in Nat
  BY DEF UserActs, TypeOK
<1> QED
  BY <1>1, <1>2, <1>3 DEF Frame, UserActs, Form, Now, TypeOK, Histories

LEMMA UserKeeps ==
  ASSUME FormsInv, UserActs, Frame(Now), NEW r, Changed(Now, r), r.loaded, Careful(r), ButtonInv'
  PROVE  FormsInv'
<1>1. TypeOK' /\ OpenInv' /\ GotInv' /\ ClosedInv'
  BY TypeKept, OpenKept, GotKept DEF FormsInv, Careful, Form
<1>2. RowsInv'
  BY RowsKept DEF FormsInv, Careful, Form
<1>3. StoredInv'
  BY StoredKept DEF FormsInv, Careful, Form
<1> QED
  BY <1>1, <1>2, <1>3 DEF FormsInv

\* A handler that ends with ready().
LEMMA UserReady ==
  ASSUME FormsInv, UserActs, Frame(Now), NEW f \in FormType, CallReady(Now, f), f.loaded, Careful(f),
         (Monitored => sel = Now) =>
           ListsOk(f) /\ GroupsOk(f) /\ OddOk(f) /\ TextsOk(f, Timed(timers', Now))
  PROVE  FormsInv'
<1>1. Changed(Now, Readied(Now, f))
  BY Ready DEF FormsInv, Frame
<1>2. ButtonInv'
  BY ReadyButton DEF FormsInv, Now
<1>3. Readied(Now, f).loaded
  BY ReadiedSame
<1>4. "monitoring_form" \in Readied(Now, f).flags <=> "monitoring_form" \in f.flags
  BY ReadiedForm DEF AnyFlag, AnyList
<1>5. Careful(Readied(Now, f))
  BY <1>4, ReadiedSame DEF Careful
<1> QED
  BY <1>1, <1>2, <1>3, <1>5, UserKeeps

\* The mail addresses and the monitoring box.
LEMMA MailStep ==
  ASSUME FormsInv, TypeMail \/ ToggleMonitoring
  PROVE  FormsInv'
<1>1. /\ UserActs /\ Monitored /\ lost' = lost /\ hist' = hist /\ timers' = timers
      /\ TypeOK /\ Form.loaded
  BY DEF TypeMail, ToggleMonitoring, FormsInv, UserActs
<1>2. Frame(Now) /\ Form \in FormType /\ dlg # <<>>
  BY <1>1, UserFrame
<1>3. ASSUME NEW f \in FormType, CallReady(Now, f),
             \/ \E m : f = [Form EXCEPT !.mail = m]
             \/ \E b : f = [Form EXCEPT !.on = b]
      PROVE  FormsInv'
  <2>1. /\ f.loaded = Form.loaded /\ f.rows = Form.rows /\ f.plus = Form.plus /\ f.removed = Form.removed
        /\ f.flags = Form.flags /\ f.got = Form.got /\ f.right = Form.right /\ f.odd = Form.odd
        /\ f.text = Form.text /\ f.sticky = Form.sticky /\ f.protocol = Form.protocol
    BY <1>2, <1>3 DEF FormType
  <2>2. Careful(f)
    BY <2>1 DEF Careful
  <2>3. ASSUME Monitored => sel = Now
        PROVE  ListsOk(f) /\ GroupsOk(f) /\ OddOk(f) /\ TextsOk(f, Timed(timers', Now))
    <3>1. /\ ListsOk(Form) /\ GroupsOk(Form) /\ OddOk(Form) /\ TextsOk(Form, Timed(timers, Now))
      BY <1>1, <1>2, <2>3, Current DEF Monitored
    <3> QED
      BY <1>1, <2>1, <3>1 DEF ListsOk, GroupsOk, OddOk, TextsOk, TextFlag, Excused, Editable, Secure
  <2> QED
    BY <1>1, <1>2, <1>3, <2>1, <2>2, <2>3, UserReady
<1>4. CASE TypeMail
  <2>1. PICK m \in {"empty", "valid", "invalid"} : CallReady(Now, [Form EXCEPT !.mail = m])
    BY <1>4 DEF TypeMail, Mails
  <2>2. [Form EXCEPT !.mail = m] \in FormType
    BY <1>2, PartTypes
  <2> QED
    BY <1>3, <2>1, <2>2
<1>5. CASE ToggleMonitoring
  <2>1. CallReady(Now, [Form EXCEPT !.on = ~Form.on])
    BY <1>5 DEF ToggleMonitoring
  <2>2. [Form EXCEPT !.on = ~Form.on] \in FormType
    BY <1>2, PartTypes
  <2> QED
    BY <1>3, <2>1, <2>2
<1> QED
  BY <1>4, <1>5

\* The two dialogs that come filled have the name as their only field, and so
\* have those where a mouse event may have no handler.
LEMMA OneField ==
  /\ kind \in Filled \cup {"network", "attach"} => Fields = {"display_name"}
  /\ kind # "load_balancer" => Fields \subseteq {"display_name", "volume_size"}
  BY DEF Fields, Filled

LEMMA ToggleForm ==
  ASSUME NEW f \in FormType, NEW x \in AnyField
  PROVE  /\ Toggle(f, x) \in FormType
         /\ Toggle(f, x) = [f EXCEPT !.text = Toggle(f, x).text]
         /\ \A y \in AnyField \ {x} : y \in Toggle(f, x).text <=> y \in f.text
<1> DEFINE S == IF x \in f.text THEN f.text \ {x} ELSE f.text \cup {x}
<1>1. S \subseteq AnyField
  BY Typing
<1>2. Toggle(f, x) = [f EXCEPT !.text = S]
  BY DEF Toggle
<1> HIDE DEF S
<1>3. [f EXCEPT !.text = S] \in FormType /\ [f EXCEPT !.text = S].text = S
  BY <1>1 DEF FormType
<1> QED
  BY <1>2, <1>3 DEF S

\* checkTextField: the field has its flag when it is not empty.
LEMMA LookedForm ==
  ASSUME NEW f \in FormType, NEW x \in AnyField
  PROVE  /\ Looked(f, x) \in FormType
         /\ x \in Looked(f, x).flags <=> x \in f.text
         /\ \A y : y # x => (y \in Looked(f, x).flags <=> y \in f.flags)
         /\ Looked(f, x).odd = f.odd \ {"unbound", "blank"}
         /\ \E S : Looked(f, x) = [f EXCEPT !.flags = S, !.odd = f.odd \ {"unbound", "blank"}]
<1> DEFINE S == IF x \in f.text THEN f.flags \cup {x} ELSE f.flags \ {x}
<1> DEFINE o == f.odd \ {"unbound", "blank"}
<1>1. S \subseteq AnyFlag /\ o \subseteq {"unbound", "late", "one_key", "blank", "no_groups"}
  BY Typing DEF AnyFlag
<1>2. Looked(f, x) = [f EXCEPT !.flags = S, !.odd = o]
  BY DEF Looked, SetFlag, FormType
<1> HIDE DEF S, o
<1>3. [f EXCEPT !.flags = S, !.odd = o] \in FormType
  BY <1>1 DEF FormType
<1>4. [f EXCEPT !.flags = S, !.odd = o].flags = S /\ [f EXCEPT !.flags = S, !.odd = o].odd = o
  BY DEF FormType
<1>5. \E R : Looked(f, x) = [f EXCEPT !.flags = R, !.odd = o]
  BY <1>2
<1>6. Looked(f, x).flags = S
  BY <1>2, <1>4
<1>7. Looked(f, x).odd = o /\ Looked(f, x) \in FormType
  BY <1>2, <1>3, <1>4
<1> QED
  BY <1>5, <1>6, <1>7 DEF S, o

\* Form f is p with field x looked at: whatever the field had been excused for,
\* it has its flag now, or its handler came too late.
LEMMA LookedTexts ==
  ASSUME NEW p, NEW f, NEW x \in Fields, NEW b, NEW T, NEW U, FormOk(p, b, T),
         \A y \in AnyField \ {x} : (y \in f.flags <=> y \in p.flags) /\ (y \in f.text <=> y \in p.text),
         f.sticky = p.sticky, f.protocol = p.protocol, p.odd \ {"unbound", "blank"} \subseteq f.odd,
         TextFlag(f, x) \/ "late" \in f.odd, T \ {x} \subseteq U
  PROVE  TextsOk(f, U)
<1> SUFFICES ASSUME NEW y \in Fields, y # x, "late" \notin f.odd
             PROVE  TextFlag(f, y) \/ Excused(f, y, U)
  BY DEF TextsOk, Excused
<1>1. kind \notin Filled \cup {"network", "attach"}
  BY OneField
<1>2. "unbound" \notin p.odd /\ "blank" \notin p.odd /\ TextsOk(p, T)
  BY <1>1 DEF FormOk, OddOk, Prefilled, Filled
<1>3. y \in AnyField \ {x}
  BY Tables
<1>4. TextFlag(p, y) => TextFlag(f, y)
  BY <1>3 DEF TextFlag, Editable, Secure
<1>5. Excused(p, y, T) => Excused(f, y, U)
  BY <1>2 DEF Excused
<1> QED
  BY <1>2, <1>4, <1>5 DEF TextsOk

\* The lists and groups do not depend on the flag of a field.
LEMMA LookedLists ==
  ASSUME NEW p, NEW f, NEW x \in AnyField, ListsOk(p), GroupsOk(p),
         \A y : y # x => (y \in f.flags <=> y \in p.flags), f.got = p.got, f.right = p.right,
         "no_groups" \in f.odd <=> "no_groups" \in p.odd
  PROVE  ListsOk(f) /\ GroupsOk(f)
<1>1. x \notin AnyList /\ "groups" \in AnyList
  BY DEF AnyField, AnyList, LoadBalancerFields
<1>2. ListsOk(f)
  BY <1>1, Tables DEF ListsOk
<1>3. GroupsOk(f)
  BY <1>1 DEF GroupsOk
<1> QED
  BY <1>2, <1>3

LEMMA TypeTextStep ==
  ASSUME FormsInv, NEW x \in Fields, TypeText(x)
  PROVE  FormsInv'
<1>1. /\ UserActs /\ lost' = lost /\ hist' = hist /\ timers' = timers /\ Editable(Form, x)
      /\ TypeOK /\ Form.loaded /\ x \in AnyField
  BY Tables DEF TypeText, FormsInv, UserActs
<1>2. Frame(Now) /\ Form \in FormType /\ dlg # <<>>
  BY <1>1, UserFrame
<1>3. PICK p \in {Form, Toggle(Form, x)} : CallReady(Now, Looked(p, x))
  BY DEF TypeText
<1>4. p \in FormType /\ \E S : p = [Form EXCEPT !.text = S]
  BY <1>1, <1>2, ToggleForm DEF FormType
<1>5. \A y \in AnyField \ {x} : y \in p.text <=> y \in Form.text
  BY <1>1, <1>2, <1>3, ToggleForm
<1> DEFINE f == Looked(p, x)
<1>6. /\ f \in FormType /\ (x \in f.flags <=> x \in p.text)
      /\ \A y : y # x => (y \in f.flags <=> y \in p.flags)
      /\ f.odd = p.odd \ {"unbound", "blank"}
  BY <1>1, <1>4, LookedForm
<1>7. \E S : f = [p EXCEPT !.flags = S, !.odd = p.odd \ {"unbound", "blank"}]
  BY <1>1, <1>4, LookedForm
<1> HIDE DEF f
<1>8. /\ f.loaded = p.loaded /\ f.rows = p.rows /\ f.plus = p.plus /\ f.removed = p.removed
      /\ f.got = p.got /\ f.right = p.right /\ f.text = p.text /\ f.sticky = p.sticky /\ f.protocol = p.protocol
  BY <1>4, <1>7 DEF FormType
<1>9. /\ p.loaded = Form.loaded /\ p.rows = Form.rows /\ p.plus = Form.plus /\ p.removed = Form.removed
      /\ p.got = Form.got /\ p.right = Form.right /\ p.sticky = Form.sticky /\ p.protocol = Form.protocol
      /\ p.flags = Form.flags /\ p.odd = Form.odd
  BY <1>2, <1>4 DEF FormType
<1>10. x # "monitoring_form"
  BY <1>1 DEF AnyField, LoadBalancerFields
<1>11. Careful(f)
  BY <1>6, <1>8, <1>9, <1>10 DEF Careful
<1>12. ASSUME Monitored => sel = Now
       PROVE  ListsOk(f) /\ GroupsOk(f) /\ OddOk(f) /\ TextsOk(f, Timed(timers', Now))
  <2>1. FormOk(Form, btn, Timed(timers, Now)) /\ ListsOk(Form) /\ GroupsOk(Form) /\ OddOk(Form)
    BY <1>1, <1>2, <1>12, Current
  <2>2. ListsOk(f) /\ GroupsOk(f)
    <3>1. "no_groups" \in f.odd <=> "no_groups" \in Form.odd
      BY <1>6, <1>9
    <3> QED
      BY <3>1, <2>1, <1>1, <1>6, <1>8, <1>9, LookedLists
  <2>3. OddOk(f)
    BY <2>1, <1>6, <1>9 DEF OddOk
  <2>4. TextFlag(f, x)
    BY <1>1, <1>6, <1>8, <1>9 DEF TextFlag, Editable, Secure
  <2>5. TextsOk(f, Timed(timers, Now))
    BY <2>1, <2>4, <1>5, <1>6, <1>8, <1>9, LookedTexts
  <2> QED
    BY <1>1, <2>2, <2>3, <2>5
<1>13. CallReady(Now, f) /\ f.loaded
  BY <1>1, <1>3, <1>8, <1>9 DEF f
<1> QED
  BY <1>1, <1>2, <1>6, <1>11, <1>12, <1>13, UserReady

\* The timer of a paste or cut may be of an earlier form, or come when the field
\* is disabled.
LEMMA TimerStep ==
  ASSUME FormsInv, NEW t \in timers, TimerFires(t)
  PROVE  FormsInv'
<1> DEFINE g == t.form
           x == t.field
           p == dlg[g]
<1>1. /\ TypeOK /\ g \in DOMAIN dlg /\ p \in FormType /\ p.loaded /\ x \in Fields /\ x \in AnyField
      /\ t = [form |-> g, field |-> x] /\ Len(dlg) \in DOMAIN dlg /\ dlg # <<>>
  BY DEF FormsInv, TypeOK, OpenInv
<1>2. Frame(g)
  BY <1>1 DEF TimerFires, Frame, TypeOK, Histories
<1> DEFINE l == Looked(p, x)
           o == IF ~Editable(p, x) THEN l.odd \cup {"late"} ELSE l.odd
           f == [l EXCEPT !.odd = o]
<1>3. /\ l \in FormType /\ (x \in l.flags <=> x \in p.text)
      /\ \A y : y # x => (y \in l.flags <=> y \in p.flags)
      /\ l.odd = p.odd \ {"unbound", "blank"}
  BY <1>1, LookedForm
<1>4. \E S : l = [p EXCEPT !.flags = S, !.odd = p.odd \ {"unbound", "blank"}]
  BY <1>1, LookedForm
<1>5. CallReady(g, f)
  BY DEF TimerFires
<1> HIDE DEF l, g, x, p
<1>6. o \subseteq {"unbound", "late", "one_key", "blank", "no_groups"}
  BY <1>3, Typing
<1>7. /\ l.loaded = p.loaded /\ l.rows = p.rows /\ l.plus = p.plus /\ l.removed = p.removed
      /\ l.got = p.got /\ l.right = p.right /\ l.text = p.text /\ l.sticky = p.sticky /\ l.protocol = p.protocol
  BY <1>1, <1>4 DEF FormType
<1> HIDE DEF o
<1>8. f \in FormType
  BY <1>3, <1>6, PartTypes
<1>9. /\ f.loaded = l.loaded /\ f.rows = l.rows /\ f.plus = l.plus /\ f.removed = l.removed
      /\ f.got = l.got /\ f.right = l.right /\ f.text = l.text /\ f.sticky = l.sticky /\ f.protocol = l.protocol
      /\ f.flags = l.flags /\ f.odd = o
  BY <1>3 DEF FormType
<1> HIDE DEF f
<1> DEFINE r == Readied(g, f)
<1>10. Changed(g, r)
  BY <1>1, <1>5, <1>8, Ready
<1>11. r.loaded /\ r.rows = p.rows /\ r.plus = p.plus /\ r.removed = p.removed /\ r.got = p.got
  BY <1>1, <1>7, <1>8, <1>9, ReadiedSame
<1>12. "monitoring_form" \in r.flags => "monitoring_form" \in p.flags
  <2>1. x # "monitoring_form"
    BY <1>1 DEF AnyField, LoadBalancerFields
  <2>2. "monitoring_form" \in r.flags => "monitoring_form" \in f.flags
    BY <1>8, ReadiedForm DEF AnyFlag, AnyList
  <2> QED
    BY <2>1, <2>2, <1>3, <1>9
<1> HIDE DEF r
<1>13. TypeOK' /\ OpenInv' /\ GotInv' /\ ClosedInv'
  BY <1>2, <1>10, <1>11, TypeKept, OpenKept, GotKept DEF FormsInv, p
<1>14. RowsInv'
  BY <1>2, <1>10, <1>11, RowsKept DEF FormsInv, p
<1>15. StoredInv'
  BY <1>2, <1>10, <1>11, <1>12, StoredKept DEF FormsInv, p
<1>16. timers' = timers \ {t}
  BY DEF TimerFires
<1>17. CASE g # Len(dlg)
  <2>1. Timed(timers', Len(dlg)) = Timed(timers, Len(dlg))
    BY <1>1, <1>16, <1>17 DEF Timed
  <2>2. ButtonInv'
    BY <2>1, <1>2, <1>10, <1>17, ButtonElsewhere DEF FormsInv
  <2> QED
    BY <2>2, <1>13, <1>14, <1>15 DEF FormsInv
<1>18. CASE g = Len(dlg)
  <2>1. p = Form /\ g = Now
    BY <1>18 DEF Form, Now, p
  <2>2. ASSUME Monitored => sel = Len(dlg)
        PROVE  ListsOk(f) /\ GroupsOk(f) /\ OddOk(f) /\ TextsOk(f, Timed(timers', Len(dlg)))
    <3>1. FormOk(p, btn, Timed(timers, Now)) /\ ListsOk(p) /\ GroupsOk(p) /\ OddOk(p)
      BY <1>1, <2>1, <2>2, Current DEF Now
    <3>2. ListsOk(f) /\ GroupsOk(f)
      <4>1. "no_groups" \in f.odd <=> "no_groups" \in p.odd
        BY <1>3, <1>9 DEF o
      <4> QED
        BY <4>1, <3>1, <1>1, <1>3, <1>7, <1>9, LookedLists
    <3>3. ~Editable(p, x) => kind = "load_balancer"
      BY <1>1, OneField DEF Editable
    <3>4. OddOk(f)
      BY <3>1, <3>3, <1>3, <1>9 DEF OddOk, o
    <3>5. TextFlag(f, x) \/ "late" \in f.odd
      BY <1>3, <1>7, <1>9 DEF TextFlag, Editable, Secure, o
    <3>6. Timed(timers, Now) \ {x} \subseteq Timed(timers', Now)
      BY <1>1, <1>16 DEF Timed
    <3>7. p.odd \ {"unbound", "blank"} \subseteq f.odd
      BY <1>3, <1>9 DEF o
    <3>8. TextsOk(f, Timed(timers', Now))
      <4>1. /\ \A y \in AnyField \ {x} : (y \in f.flags <=> y \in p.flags) /\ (y \in f.text <=> y \in p.text)
            /\ f.sticky = p.sticky /\ f.protocol = p.protocol
        BY <1>3, <1>7, <1>9
      <4> QED
        BY <4>1, <3>1, <3>5, <3>6, <3>7, <1>1, LookedTexts
    <3> QED
      BY <3>2, <3>4, <3>8 DEF Now
  <2>3. ButtonInv'
    BY <2>2, <1>1, <1>2, <1>5, <1>8, <1>18, ReadyButton
  <2> QED
    BY <2>3, <1>13, <1>14, <1>15 DEF FormsInv
<1> QED
  BY <1>17, <1>18

\* A paste or cut with the mouse changes the field and sets a timer, or has no
\* handler.
LEMMA MouseTextStep ==
  ASSUME FormsInv, NEW x \in Fields, MouseText(x)
  PROVE  FormsInv'
<1> DEFINE event == IF x \in Form.text THEN "cut" ELSE "paste"
           bound == event \in MouseEvents
           o == IF bound THEN Form.odd ELSE Form.odd \cup {"unbound"}
           p == Toggle(Form, x)
           f == [p EXCEPT !.odd = o]
           r == [f EXCEPT !.quiet = @ \cup {}]
<1>1. /\ UserActs /\ lost' = lost /\ hist' = hist /\ Editable(Form, x)
      /\ TypeOK /\ Form.loaded /\ x \in AnyField
      /\ timers' = IF bound THEN timers \cup {[form |-> Now, field |-> x]} ELSE timers
  BY Tables DEF MouseText, FormsInv, UserActs
<1>2. Frame(Now) /\ Form \in FormType /\ dlg # <<>> /\ Now = Len(dlg)
  BY <1>1, UserFrame
<1>3. /\ p \in FormType /\ \E S : p = [Form EXCEPT !.text = S]
      /\ \A y \in AnyField \ {x} : y \in p.text <=> y \in Form.text
  BY <1>1, <1>2, ToggleForm
<1>4. Quietly(Now, [p EXCEPT !.odd = IF bound THEN @ ELSE @ \cup {"unbound"}], {})
  BY DEF MouseText
<1> HIDE DEF p
<1>5. p.odd = Form.odd
  BY <1>2, <1>3 DEF FormType
<1>6. Quietly(Now, f, {})
  <2>1. f = [p EXCEPT !.odd = IF bound THEN @ ELSE @ \cup {"unbound"}]
    BY <1>5
  <2> QED
    BY <1>4, <2>1
<1>7. ~bound => kind \in {"network", "network_edit", "attach"}
  BY DEF MouseEvents
<1> HIDE DEF bound
<1>8. o \subseteq {"unbound", "late", "one_key", "blank", "no_groups"}
  BY <1>2, Typing
<1> HIDE DEF o
<1>9. f \in FormType
  BY <1>3, <1>8, PartTypes
<1>10. Changed(Now, r) /\ btn' = btn
  BY <1>1, <1>2, <1>6, <1>9, Quiet DEF Frame
<1>11. /\ p.loaded = Form.loaded /\ p.rows = Form.rows /\ p.plus = Form.plus /\ p.removed = Form.removed
       /\ p.got = Form.got /\ p.right = Form.right /\ p.sticky = Form.sticky /\ p.protocol = Form.protocol
       /\ p.flags = Form.flags /\ p.mail = Form.mail /\ p.on = Form.on /\ p.quiet = Form.quiet
  BY <1>2, <1>3 DEF FormType
<1>12. /\ r.loaded = p.loaded /\ r.rows = p.rows /\ r.plus = p.plus /\ r.removed = p.removed
       /\ r.got = p.got /\ r.right = p.right /\ r.sticky = p.sticky /\ r.protocol = p.protocol
       /\ r.flags = p.flags /\ r.mail = p.mail /\ r.on = p.on /\ r.quiet = p.quiet /\ r.text = p.text
       /\ r.odd = o
  BY <1>3 DEF FormType
<1> HIDE DEF r, f
<1>13. Careful(r)
  BY <1>11, <1>12 DEF Careful
<1>14. ASSUME Monitored => sel = Now PROVE FormOk(r, btn', Timed(timers', Now))
  <2> DEFINE T == Timed(timers, Now)
             U == Timed(timers', Now)
  <2>1. FormOk(Form, btn, T) /\ ListsOk(Form) /\ GroupsOk(Form) /\ OddOk(Form) /\ MonitoringFlag(Form)
    BY <1>1, <1>2, <1>14, Current
  <2>2. ListsOk(r) /\ GroupsOk(r)
    BY <2>1, <1>11, <1>12 DEF ListsOk, GroupsOk, o
  <2>3. OddOk(r)
    BY <2>1, <1>7, <1>12 DEF OddOk, o
  <2>4. MonitoringFlag(r)
    BY <2>1, <1>11, <1>12 DEF MonitoringFlag, MonitoringOk, LaunchMail, EditMail
  <2>5. Excused(r, x, U)
    BY <1>1, <1>12 DEF Excused, Timed, o
  <2>6. T \subseteq U
    BY <1>1 DEF Timed
  <2>7. \A y : Excused(Form, y, T) => Excused(r, y, U)
    BY <2>6, <1>12 DEF Excused, o
  <2>8. ASSUME TextsOk(Form, T) PROVE TextsOk(r, U)
    <3> SUFFICES ASSUME NEW y \in Fields, y # x PROVE TextFlag(r, y) \/ Excused(r, y, U)
      BY <2>5 DEF TextsOk
    <3>1. y \in AnyField
      BY Tables
    <3>2. TextFlag(Form, y) => TextFlag(r, y)
      BY <3>1, <1>3, <1>11, <1>12 DEF TextFlag, Editable, Secure
    <3> QED
      BY <3>2, <2>7, <2>8 DEF TextsOk
  <2>9. ButtonOk(Form, btn) => ButtonOk(r, btn')
    BY <1>10, <1>11, <1>12 DEF ButtonOk
  <2>10. ASSUME Prefilled(Form, btn, T) PROVE Prefilled(r, btn', U)
    <3>1. x = "display_name"
      BY <2>10, OneField DEF Prefilled, Filled
    <3> QED
      BY <3>1, <2>5, <2>10, <1>10, <1>11, <1>12 DEF Prefilled
  <2> QED
    BY <2>1, <2>2, <2>3, <2>4, <2>8, <2>9, <2>10 DEF FormOk
<1>15. ButtonInv'
  BY <1>2, <1>10, <1>14, QuietButton
<1> QED
  BY <1>1, <1>2, <1>10, <1>11, <1>12, <1>13, <1>15, UserKeeps

\* The groups moved between the two lists.
LEMMA GroupsStep ==
  ASSUME FormsInv, MoveGroups
  PROVE  FormsInv'
<1>1. /\ UserActs /\ lost' = lost /\ hist' = hist /\ timers' = timers
      /\ TypeOK /\ Form.loaded /\ "groups" \in Form.got
  BY DEF MoveGroups, FormsInv, UserActs
<1>2. Frame(Now) /\ Form \in FormType /\ dlg # <<>>
  BY <1>1, UserFrame
<1>3. PICK S \in SUBSET Group :
           CallReady(Now, SetFlag([Form EXCEPT !.right = S, !.odd = @ \ {"no_groups"}], "groups", S # {}))
  BY DEF MoveGroups
<1> DEFINE o == Form.odd \ {"no_groups"}
           p == [Form EXCEPT !.right = S, !.odd = o]
           D == IF S # {} THEN Form.flags \cup {"groups"} ELSE Form.flags \ {"groups"}
           f == [p EXCEPT !.flags = D]
<1>4. /\ p.right = S
      /\ p.loaded = Form.loaded /\ p.rows = Form.rows /\ p.plus = Form.plus /\ p.removed = Form.removed
      /\ p.flags = Form.flags /\ p.got = Form.got /\ p.odd = o
      /\ p.text = Form.text /\ p.sticky = Form.sticky /\ p.protocol = Form.protocol
  BY <1>2 DEF FormType
<1>5. p \in FormType
  <2>1. o \subseteq {"unbound", "late", "one_key", "blank", "no_groups"}
    BY <1>2, Typing
  <2> HIDE DEF o
  <2> QED
    BY <2>1, <1>2 DEF FormType
<1>6. D \subseteq AnyFlag
  BY <1>2, Typing DEF AnyFlag, AnyList
<1>7. CallReady(Now, f)
  <2>1. SetFlag(p, "groups", S # {}) = f
    BY <1>4 DEF SetFlag
  <2> QED
    BY <1>3, <2>1
<1> HIDE DEF p, D, o
<1>8. /\ f.flags = D /\ f \in FormType
      /\ f.loaded = p.loaded /\ f.rows = p.rows /\ f.plus = p.plus /\ f.removed = p.removed
      /\ f.got = p.got /\ f.odd = p.odd /\ f.text = p.text /\ f.sticky = p.sticky
      /\ f.protocol = p.protocol /\ f.right = p.right
  BY <1>5, <1>6 DEF FormType
<1> HIDE DEF f
<1>9. Careful(f)
  BY <1>4, <1>8 DEF Careful, D
<1>10. ASSUME Monitored => sel = Now
       PROVE  ListsOk(f) /\ GroupsOk(f) /\ OddOk(f) /\ TextsOk(f, Timed(timers', Now))
  <2>1. ListsOk(Form) /\ GroupsOk(Form) /\ OddOk(Form)
    BY <1>1, <1>2, <1>10, Current
  <2>2. Asked # {}
    BY <1>1, <2>1 DEF ListsOk
  <2>3. TextsOk(Form, Timed(timers, Now))
    BY <1>1, <1>2, <1>10, <2>2, Current
  <2>4. ListsOk(f)
    BY <2>1, <1>4, <1>8 DEF ListsOk, D
  <2>5. GroupsOk(f) /\ OddOk(f)
    BY <2>1, <1>1, <1>4, <1>8 DEF GroupsOk, OddOk, D, o
  <2>6. "groups" \notin Fields
    BY Tables DEF AnyField, LoadBalancerFields
  <2>7. TextsOk(f, Timed(timers', Now))
    BY <2>3, <2>6, <1>1, <1>4, <1>8 DEF TextsOk, TextFlag, Excused, Editable, Secure, D, o
  <2> QED
    BY <2>4, <2>5, <2>7
<1> QED
  BY <1>1, <1>2, <1>4, <1>7, <1>8, <1>9, <1>10, UserReady

(***************************************************************************)
(* The load balancer                                                       *)
(***************************************************************************)
LEMMA BalancerLists ==
  ASSUME NEW p, NEW f, kind = "load_balancer", ListsOk(p), GroupsOk(p), f.got = p.got, f.right = p.right
  PROVE  ListsOk(f) /\ GroupsOk(f)
  BY DEF ListsOk, GroupsOk, Asked, Required, LoadBalancerFields

\* The stickiness given up, or taken up: the cookie name has its flag.
LEMMA CookieTexts ==
  ASSUME NEW p, NEW f, NEW T, TextsOk(p, T), f.protocol = p.protocol, f.odd = p.odd,
         f.text \in {p.text, p.text \ {"cookie_name"}},
         f.flags \in {p.flags \ {"cookie_name"}, p.flags \cup {"cookie_name"}},
         "cookie_name" \in f.flags <=> (f.sticky => "cookie_name" \in f.text)
  PROVE  TextsOk(f, T)
<1>2. TextFlag(f, "cookie_name")
  BY DEF TextFlag, Editable
<1>3. ASSUME NEW y \in Fields, y # "cookie_name"
      PROVE  /\ (y \in f.flags <=> y \in p.flags) /\ (y \in f.text <=> y \in p.text)
             /\ Editable(f, y) <=> Editable(p, y)
             /\ Excused(p, y, T) => Excused(f, y, T)
  BY <1>3 DEF Editable, Secure, Excused
<1> QED
  BY <1>2, <1>3 DEF TextsOk, TextFlag

\* A handler of the load balancer that ends with ready().
LEMMA BalancerReady ==
  ASSUME FormsInv, UserActs, kind = "load_balancer", lost' = lost, hist' = hist, timers' = timers,
         NEW f \in FormType, CallReady(Now, f), f.loaded = Form.loaded, f.rows = Form.rows,
         f.plus = Form.plus, f.removed = Form.removed, f.got = Form.got, f.right = Form.right,
         "monitoring_form" \in f.flags => "monitoring_form" \in Form.flags,
         OddOk(Form) => OddOk(f),
         TextsOk(Form, Timed(timers, Now)) => TextsOk(f, Timed(timers, Now))
  PROVE  FormsInv'
<1>1. TypeOK /\ Form.loaded
  BY DEF FormsInv, UserActs
<1>2. Frame(Now) /\ Form \in FormType /\ dlg # <<>>
  BY <1>1, UserFrame
<1>3. Careful(f)
  BY DEF Careful
<1>4. ListsOk(Form) /\ GroupsOk(Form) /\ OddOk(Form) /\ TextsOk(Form, Timed(timers, Now))
  BY <1>1, <1>2, Current DEF Monitored
<1>5. ListsOk(f) /\ GroupsOk(f) /\ OddOk(f) /\ TextsOk(f, Timed(timers', Now))
  BY <1>4, BalancerLists
<1> QED
  BY <1>1, <1>2, <1>3, <1>5, UserReady

\* A change of stickiness or algorithm.
LEMMA CookieStep ==
  ASSUME FormsInv, UserActs, kind = "load_balancer", lost' = lost, hist' = hist, timers' = timers,
         NEW C, NEW D, NEW b \in BOOLEAN, NEW l \in BOOLEAN,
         C \in {Form.text, Form.text \ {"cookie_name"}},
         D \in {Form.flags \ {"cookie_name"}, Form.flags \cup {"cookie_name"}},
         "cookie_name" \in D <=> (b => "cookie_name" \in C),
         CallReady(Now, [Form EXCEPT !.flags = D, !.text = C, !.sticky = b, !.leastconn = l])
  PROVE  FormsInv'
<1> DEFINE f == [Form EXCEPT !.flags = D, !.text = C, !.sticky = b, !.leastconn = l]
<1>1. Form \in FormType
  BY UserFrame DEF FormsInv
<1>2. D \subseteq AnyFlag /\ C \subseteq AnyField
  BY <1>1, Typing DEF AnyFlag, AnyField, LoadBalancerFields
<1>3. /\ f \in FormType /\ f.flags = D /\ f.text = C /\ f.sticky = b /\ f.odd = Form.odd
      /\ f.protocol = Form.protocol
      /\ f.loaded = Form.loaded /\ f.rows = Form.rows /\ f.plus = Form.plus /\ f.removed = Form.removed
      /\ f.got = Form.got /\ f.right = Form.right
  BY <1>1, <1>2 DEF FormType
<1>4. TextsOk(Form, Timed(timers, Now)) => TextsOk(f, Timed(timers, Now))
  BY <1>3, CookieTexts
<1>5. OddOk(Form) => OddOk(f)
  BY <1>3 DEF OddOk
<1>6. "monitoring_form" \in f.flags => "monitoring_form" \in Form.flags
  BY <1>3
<1>7. CallReady(Now, f)
  OBVIOUS
<1> HIDE DEF f
<1> QED
  BY <1>3, <1>4, <1>5, <1>6, <1>7, BalancerReady

LEMMA AlgorithmStep ==
  ASSUME FormsInv, SelectAlgorithm
  PROVE  FormsInv'
<1>1. /\ UserActs /\ kind = "load_balancer" /\ lost' = lost /\ hist' = hist /\ timers' = timers
      /\ TypeOK /\ Form.loaded
  BY DEF SelectAlgorithm, FormsInv, UserActs
<1>2. Frame(Now) /\ Form \in FormType /\ dlg # <<>> /\ Now = Len(dlg)
  BY <1>1, UserFrame
<1>3. CASE Form.leastconn
  <2> DEFINE D == Form.flags \cup {"cookie_name"}
             C == Form.text \ {"cookie_name"}
             f == [Form EXCEPT !.flags = D, !.text = C, !.sticky = FALSE, !.leastconn = FALSE]
  <2>1. Algorithm(Form, ~Form.leastconn) = f
    BY <1>2, <1>3 DEF Algorithm, SetFlag, FormType
  <2>2. ~f.leastconn
    BY <1>2 DEF FormType
  <2>3. CallReady(Now, f)
    BY <2>1, <2>2 DEF SelectAlgorithm
  <2> QED
    BY <2>3, <1>1, CookieStep
<1>4. CASE ~Form.leastconn
  <2> DEFINE f == [Form EXCEPT !.leastconn = TRUE]
             r == [f EXCEPT !.quiet = @ \cup {}]
  <2>1. Algorithm(Form, ~Form.leastconn) = f
    BY <1>2, <1>4 DEF Algorithm
  <2>2. f.leastconn /\ f \in FormType
    BY <1>2 DEF FormType
  <2>3. Quietly(Now, f, {})
    BY <2>1, <2>2 DEF SelectAlgorithm
  <2>4. Changed(Now, r) /\ btn' = btn
    BY <1>1, <1>2, <2>2, <2>3, Quiet DEF Frame
  <2>5. /\ r.flags = Form.flags /\ r.text = Form.text /\ r.sticky = Form.sticky /\ r.quiet = Form.quiet
        /\ r.loaded = Form.loaded /\ r.rows = Form.rows /\ r.plus = Form.plus /\ r.removed = Form.removed
        /\ r.got = Form.got /\ r.right = Form.right /\ r.odd = Form.odd /\ r.protocol = Form.protocol
    BY <1>2 DEF FormType
  <2> HIDE DEF r
  <2>6. /\ ListsOk(Form) /\ GroupsOk(Form) /\ OddOk(Form) /\ TextsOk(Form, Timed(timers, Now))
        /\ ButtonOk(Form, btn)
    BY <1>1, <1>2, Current DEF Monitored
  <2>7. ListsOk(r) /\ GroupsOk(r) /\ OddOk(r) /\ MonitoringFlag(r)
    BY <1>1, <2>5, <2>6, BalancerLists DEF OddOk, MonitoringFlag, Monitored
  <2>8. TextsOk(r, Timed(timers', Now)) /\ ButtonOk(r, btn')
    BY <1>1, <2>4, <2>5, <2>6 DEF TextsOk, TextFlag, Excused, Editable, Secure, ButtonOk
  <2>9. ButtonInv'
    BY <1>2, <2>4, <2>7, <2>8, QuietButton DEF FormOk
  <2>10. Careful(r)
    BY <2>5 DEF Careful
  <2> QED
    BY <1>1, <1>2, <2>4, <2>5, <2>9, <2>10, UserKeeps
<1> QED
  BY <1>3, <1>4

LEMMA StickyStep ==
  ASSUME FormsInv, ToggleSticky
  PROVE  FormsInv'
<1>1. /\ UserActs /\ kind = "load_balancer" /\ lost' = lost /\ hist' = hist /\ timers' = timers
      /\ Form.leastconn /\ CallReady(Now, Sticky(Form, ~Form.sticky))
  BY DEF ToggleSticky
<1>2. Form \in FormType
  BY <1>1, UserFrame DEF FormsInv
<1>3. CASE Form.sticky
  <2> DEFINE D == Form.flags \cup {"cookie_name"}
             C == Form.text \ {"cookie_name"}
  <2>1. Sticky(Form, ~Form.sticky) = [Form EXCEPT !.flags = D, !.text = C, !.sticky = FALSE, !.leastconn = Form.leastconn]
    BY <1>2, <1>3 DEF Sticky, SetFlag, FormType
  <2>2. CallReady(Now, [Form EXCEPT !.flags = D, !.text = C, !.sticky = FALSE, !.leastconn = Form.leastconn])
    BY <2>1, <1>1
  <2>3. Form.leastconn \in BOOLEAN
    BY <1>2, Typing
  <2>4. "cookie_name" \in D <=> (FALSE => "cookie_name" \in C)
    OBVIOUS
  <2>5. D \in {Form.flags \ {"cookie_name"}, Form.flags \cup {"cookie_name"}}
    OBVIOUS
  <2> HIDE DEF D
  <2> QED
    BY <2>2, <2>3, <2>4, <2>5, <1>1, CookieStep
<1>4. CASE ~Form.sticky
  <2> DEFINE C == Form.text
             D == IF "cookie_name" \in C THEN Form.flags \cup {"cookie_name"} ELSE Form.flags \ {"cookie_name"}
  <2>1. Sticky(Form, ~Form.sticky) = [Form EXCEPT !.flags = D, !.text = C, !.sticky = TRUE, !.leastconn = Form.leastconn]
    BY <1>2, <1>4 DEF Sticky, SetFlag, FormType
  <2>2. CallReady(Now, [Form EXCEPT !.flags = D, !.text = C, !.sticky = TRUE, !.leastconn = Form.leastconn])
    BY <2>1, <1>1
  <2>3. Form.leastconn \in BOOLEAN
    BY <1>2, Typing
  <2>4. "cookie_name" \in D <=> (TRUE => "cookie_name" \in C)
    OBVIOUS
  <2>5. D \in {Form.flags \ {"cookie_name"}, Form.flags \cup {"cookie_name"}}
    OBVIOUS
  <2> HIDE DEF D
  <2> QED
    BY <2>2, <2>3, <2>4, <2>5, <1>1, CookieStep
<1> QED
  BY <1>3, <1>4

\* One of two keys is what one_key says.
LEMMA TwoKeys ==
  ASSUME NEW S
  PROVE  \/ Keys \subseteq S
         \/ Keys \cap S = {}
         \/ Cardinality(Keys \cap S) = 1
<1>1. CASE "private_key" \in S /\ "public_key" \notin S
  <2>1. Keys \cap S = {"private_key"}
    BY <1>1 DEF Keys
  <2> QED
    BY <2>1, FS_Singleton
<1>2. CASE "private_key" \notin S /\ "public_key" \in S
  <2>1. Keys \cap S = {"public_key"}
    BY <1>2 DEF Keys
  <2> QED
    BY <2>1, FS_Singleton
<1> QED
  BY <1>1, <1>2 DEF Keys

\* The protocol changed: the keys are given up, or have their flags unless one of
\* them alone is filled.
LEMMA ProtocolTexts ==
  ASSUME NEW p, NEW f, NEW T, TextsOk(p, T), f.sticky = p.sticky,
         \A y : y \notin Keys => (y \in f.flags <=> y \in p.flags) /\ (y \in f.text <=> y \in p.text),
         p.odd \ {"one_key"} \subseteq f.odd,
         \/ ~Secure(f) /\ Keys \subseteq f.flags
         \/ /\ Secure(f)
            /\ IF Keys \subseteq f.text THEN Keys \subseteq f.flags ELSE Keys \cap f.flags = {}
            /\ Cardinality(Keys \cap f.text) = 1 => "one_key" \in f.odd
  PROVE  TextsOk(f, T)
<1> SUFFICES ASSUME NEW y \in Fields PROVE TextFlag(f, y) \/ Excused(f, y, T)
  BY DEF TextsOk
<1>1. CASE y \in Keys
  <2>1. CASE ~Secure(f) /\ Keys \subseteq f.flags
    <3>1. ~Editable(f, y)
      BY <1>1, <2>1 DEF Editable, Keys
    <3> QED
      BY <1>1, <2>1, <3>1 DEF TextFlag
  <2>2. CASE Secure(f)
    <3>1. CASE Keys \subseteq f.text \/ Keys \cap f.text = {}
      <4>1. (y \in f.flags <=> y \in f.text) /\ Editable(f, y)
        BY <1>1, <2>2, <3>1 DEF Keys, Editable
      <4> QED
        BY <4>1 DEF TextFlag
    <3>2. CASE Cardinality(Keys \cap f.text) = 1
      BY <1>1, <2>2, <3>2 DEF Excused
    <3> QED
      BY <3>1, <3>2, TwoKeys
  <2> QED
    BY <2>1, <2>2
<1>2. CASE y \notin Keys
  <2>1. Editable(f, y) <=> Editable(p, y)
    BY <1>2 DEF Editable, Keys
  <2>2. TextFlag(p, y) => TextFlag(f, y)
    BY <2>1, <1>2 DEF TextFlag
  <2>3. Excused(p, y, T) => Excused(f, y, T)
    BY <1>2 DEF Excused
  <2> QED
    BY <2>2, <2>3 DEF TextsOk
<1> QED
  BY <1>1, <1>2

LEMMA ProtocolStep ==
  ASSUME FormsInv, SelectProtocol
  PROVE  FormsInv'
<1>1. /\ UserActs /\ kind = "load_balancer" /\ lost' = lost /\ hist' = hist /\ timers' = timers
  BY DEF SelectProtocol
<1>2. Form \in FormType
  BY <1>1, UserFrame DEF FormsInv
<1>3. PICK v \in {"http", "https", "tcp", "ssl"} : CallReady(Now, Protocol(Form, v))
  BY DEF SelectProtocol
<1> DEFINE plain == v \in {"http", "tcp"}
           C == IF plain THEN Form.text \ Keys ELSE Form.text
           D == IF plain \/ Keys \subseteq Form.text THEN Form.flags \cup Keys ELSE Form.flags \ Keys
           o == IF ~plain /\ Cardinality(Keys \cap Form.text) = 1 THEN (Form.odd \ {"one_key"}) \cup {"one_key"}
                ELSE Form.odd \ {"one_key"}
           f == [Form EXCEPT !.protocol = v, !.text = C, !.flags = D, !.odd = o]
<1>4. Protocol(Form, v) = f
  <2>1. CASE plain
    BY <1>2, <2>1 DEF Protocol, FormType
  <2>2. CASE ~plain
    BY <1>2, <2>2 DEF Protocol, FormType
  <2> QED
    BY <2>1, <2>2
<1>5. D \subseteq AnyFlag /\ C \subseteq AnyField /\ o \subseteq {"unbound", "late", "one_key", "blank", "no_groups"}
  BY <1>2, Typing DEF AnyFlag, AnyField, LoadBalancerFields, Keys
<1>6. /\ Keys \cap {"monitoring_form"} = {} /\ (Keys \subseteq C => ~plain \/ Keys = {})
      /\ \A y : y \notin Keys => (y \in D <=> y \in Form.flags) /\ (y \in C <=> y \in Form.text)
  BY DEF Keys
<1>7. \/ plain /\ Keys \subseteq D
      \/ /\ ~plain /\ C = Form.text
         /\ IF Keys \subseteq C THEN Keys \subseteq D ELSE Keys \cap D = {}
         /\ Cardinality(Keys \cap C) = 1 => "one_key" \in o
  OBVIOUS
<1>8. Form.odd \ {"one_key"} \subseteq o /\ o \subseteq Form.odd \cup {"one_key"}
  OBVIOUS
<1>9. CallReady(Now, f)
  BY <1>3, <1>4
<1>10. v \in {"https", "ssl"} <=> ~plain
  OBVIOUS
<1> HIDE DEF C, D, o, plain
<1>11. /\ f \in FormType /\ f.flags = D /\ f.text = C /\ f.odd = o /\ f.protocol = v
       /\ f.loaded = Form.loaded /\ f.rows = Form.rows /\ f.plus = Form.plus /\ f.removed = Form.removed
       /\ f.got = Form.got /\ f.right = Form.right /\ f.sticky = Form.sticky
  BY <1>2, <1>5 DEF FormType
<1> HIDE DEF f
<1>12. Secure(f) <=> ~plain
  BY <1>10, <1>11 DEF Secure
<1>13. TextsOk(Form, Timed(timers, Now)) => TextsOk(f, Timed(timers, Now))
  BY <1>6, <1>7, <1>8, <1>11, <1>12, ProtocolTexts
<1>14. OddOk(Form) => OddOk(f)
  BY <1>1, <1>8, <1>11 DEF OddOk
<1>15. "monitoring_form" \in f.flags => "monitoring_form" \in Form.flags
  BY <1>6, <1>11
<1> QED
  BY <1>1, <1>9, <1>11, <1>13, <1>14, <1>15, BalancerReady

(***************************************************************************)
(* The rows of a monitor selector                                          *)
(***************************************************************************)
\* As many keys are used as there are rows, when these are distinct.
LEMMA CountRows ==
  ASSUME NEW rows \in Seq(Row), Distinct(rows)
  PROVE  UsedKeys(rows) # Monitor <=> Len(rows) < Cardinality(Monitor)
<1> DEFINE K == UsedKeys(rows)
           S == 1 .. Len(rows)
           f == [n \in S |-> rows[n].key]
<1>1. Len(rows) \in Nat /\ DOMAIN rows = S /\ \A n \in S : rows[n] \in Row
  OBVIOUS
<1>2. \A n \in S : rows[n].key \in Monitor
  BY <1>1 DEF Row
<1>3. K \subseteq Monitor
  BY <1>1, <1>2 DEF UsedKeys
<1>4. f \in [S -> K] /\ \A k \in K : \E n \in S : f[n] = k
  BY <1>1 DEF UsedKeys
<1>5. \A n, m \in S : f[n] = f[m] => n = m
  BY <1>1 DEF Distinct
<1> HIDE DEF f, K
<1>6. f \in Surjection(S, K) /\ f \in Injection(S, K)
  BY <1>4, <1>5 DEF Surjection, Injection, IsInjective
<1>7. IsFiniteSet(S) /\ Cardinality(S) = Len(rows)
  <2>1. /\ IsFiniteSet(1 .. Len(rows))
        /\ Cardinality(1 .. Len(rows)) = IF 1 > Len(rows) THEN 0 ELSE Len(rows) - 1 + 1
    BY <1>1, FS_Interval
  <2> QED
    BY <1>1, <2>1
<1> HIDE DEF S
<1>8. Cardinality(K) = Len(rows)
  BY <1>6, <1>7, FS_Surjection
<1>9. Cardinality(Monitor) \in Nat /\ Cardinality(K) <= Cardinality(Monitor)
      /\ (Cardinality(Monitor) = Cardinality(K) => Monitor = K)
  BY <1>3, Constants, FS_Subset, FS_CardinalityType
<1> QED
  BY <1>1, <1>8, <1>9 DEF K

LEMMA Refreshed ==
  ASSUME NEW rows \in Seq(Row)
  PROVE  LET new == RefreshSelectItem(rows)
         IN  /\ new \in Seq(Row) /\ Len(new) = Len(rows) /\ DOMAIN new = DOMAIN rows
             /\ \A n \in DOMAIN rows : /\ new[n].key = rows[n].key /\ new[n].stored = rows[n].stored
                                       /\ new[n].ok = rows[n].ok
             /\ UsedKeys(new) = UsedKeys(rows) /\ SentIds(new) = SentIds(rows)
             /\ Fresh(new)
<1> DEFINE new == RefreshSelectItem(rows)
           o(n) == {rows[n].key} \cup (Monitor \ UsedKeys(rows))
<1>1. Len(rows) \in Nat /\ DOMAIN rows = 1 .. Len(rows) /\ \A n \in DOMAIN rows : rows[n] \in Row
  OBVIOUS
<1>2. \A n \in DOMAIN rows : rows[n].key \in Monitor
  BY <1>1 DEF Row
<1>3. \A n \in DOMAIN rows : o(n) \subseteq Monitor
  BY <1>2
<1>4. new = [n \in DOMAIN rows |-> [rows[n] EXCEPT !.opts = o(n)]]
  BY DEF RefreshSelectItem
<1> HIDE DEF new, o
<1>5. \A n \in DOMAIN rows : /\ new[n] \in Row /\ new[n].key = rows[n].key /\ new[n].stored = rows[n].stored
                             /\ new[n].ok = rows[n].ok /\ new[n].opts = o(n)
  BY <1>1, <1>3, <1>4 DEF Row
<1>6. new \in Seq(Row) /\ Len(new) = Len(rows) /\ DOMAIN new = DOMAIN rows
  BY <1>1, <1>4, <1>5
<1>7. UsedKeys(new) = UsedKeys(rows) /\ SentIds(new) = SentIds(rows)
  BY <1>5, <1>6 DEF UsedKeys, SentIds
<1>8. Fresh(new)
  BY <1>5, <1>6, <1>7 DEF Fresh, o
<1> QED
  BY <1>5, <1>6, <1>7, <1>8 DEF new

\* The options of distinct rows refreshed, and the plus button.
LEMMA RowsSettled ==
  ASSUME NEW rows \in Seq(Row), Distinct(rows), NEW g, NEW b \in BOOLEAN,
         \A n \in DOMAIN rows : rows[n].stored[1] \in {0, g},
         b <=> Len(rows) < Cardinality(Monitor)
  PROVE  RowsOk(g, RefreshSelectItem(rows), b)
<1> DEFINE new == RefreshSelectItem(rows)
<1>1. /\ DOMAIN new = DOMAIN rows /\ UsedKeys(new) = UsedKeys(rows) /\ Fresh(new)
      /\ \A n \in DOMAIN rows : new[n].key = rows[n].key /\ new[n].stored = rows[n].stored
  BY Refreshed
<1> HIDE DEF new
<1>2. Distinct(new)
  BY <1>1 DEF Distinct
<1>3. b <=> UsedKeys(new) # Monitor
  BY <1>1, CountRows
<1> QED
  BY <1>1, <1>2, <1>3 DEF RowsOk, new

LEMMA Joined ==
  ASSUME NEW u \in Seq(Row), NEW v \in Seq(Row)
  PROVE  u \o v \in Seq(Row) /\ Len(u \o v) = Len(u) + Len(v)
  OBVIOUS

LEMMA Chopped ==
  ASSUME NEW s \in Seq(Row), NEW a \in Nat \ {0}, NEW b \in Nat, a <= b + 1, b <= Len(s)
  PROVE  /\ SubSeq(s, a, b) \in Seq(Row)
         /\ Len(SubSeq(s, a, b)) = b - a + 1
         /\ \A k \in 1 .. b - a + 1 : SubSeq(s, a, b)[k] = s[a + k - 1]
<1>1. \A k \in a .. b : s[k] \in Row
  OBVIOUS
<1> QED
  BY <1>1

\* The rows without row n: where the others were.
Was(n, k) == IF k < n THEN k ELSE k + 1
LEMMA Without ==
  ASSUME NEW s \in Seq(Row), NEW n \in DOMAIN s
  PROVE  LET t == RemoveAt(s, n)
         IN  /\ t \in Seq(Row) /\ Len(t) = Len(s) - 1
             /\ \A k \in DOMAIN t : Was(n, k) \in DOMAIN s /\ t[k] = s[Was(n, k)]
             /\ \A k, m \in DOMAIN t : Was(n, k) = Was(n, m) => k = m
             /\ \A j \in DOMAIN s : j # n => \E k \in DOMAIN t : Was(n, k) = j
<1> DEFINE u == SubSeq(s, 1, n - 1)
           v == SubSeq(s, n + 1, Len(s))
           t == u \o v
<1>0. n \in 1 .. Len(s) /\ Len(s) \in Nat /\ DOMAIN s = 1 .. Len(s)
  OBVIOUS
<1>1. /\ u \in Seq(Row) /\ Len(u) = n - 1 /\ \A k \in 1 .. n - 1 : u[k] = s[k]
      /\ v \in Seq(Row) /\ Len(v) = Len(s) - n /\ \A k \in 1 .. Len(s) - n : v[k] = s[k + n]
  <2>1. /\ u \in Seq(Row) /\ Len(u) = (n - 1) - 1 + 1
        /\ \A k \in 1 .. (n - 1) - 1 + 1 : u[k] = s[1 + k - 1]
    BY <1>0, Chopped
  <2>2. /\ v \in Seq(Row) /\ Len(v) = Len(s) - (n + 1) + 1
        /\ \A k \in 1 .. Len(s) - (n + 1) + 1 : v[k] = s[(n + 1) + k - 1]
    BY <1>0, Chopped
  <2> HIDE DEF u, v
  <2>3. /\ (n - 1) - 1 + 1 = n - 1 /\ Len(s) - (n + 1) + 1 = Len(s) - n
        /\ \A k \in 1 .. n - 1 : 1 + k - 1 = k
        /\ \A k \in 1 .. Len(s) - n : (n + 1) + k - 1 = k + n
    BY <1>0
  <2> QED
    BY <2>1, <2>2, <2>3
<1>2. RemoveAt(s, n) = t
  BY DEF RemoveAt
<1> HIDE DEF u, v
<1>3. t \in Seq(Row) /\ Len(t) = Len(s) - 1
  <2>1. u \o v \in Seq(Row) /\ Len(u \o v) = Len(u) + Len(v)
    BY <1>1, Joined
  <2>2. Len(u) + Len(v) = Len(s) - 1
    BY <1>0, <1>1
  <2> QED
    BY <2>1, <2>2
<1>4. DOMAIN t = 1 .. Len(s) - 1
  BY <1>3
<1>5. ASSUME NEW k \in 1 .. Len(s) - 1 PROVE t[k] = s[Was(n, k)]
  <2>1. CASE k < n
    BY <1>0, <1>1, <2>1 DEF Was
  <2>2. CASE ~(k < n)
    <3>1. (k - (n - 1)) \in 1 .. Len(s) - n /\ (k - (n - 1)) + n = k + 1 /\ k > Len(u) /\ k <= Len(u) + Len(v)
      BY <1>0, <1>1, <2>2
    <3>2. t[k] = v[k - Len(u)]
      BY <1>1, <3>1
    <3> QED
      BY <1>1, <2>2, <3>1, <3>2 DEF Was
  <2> QED
    BY <2>1, <2>2
<1> HIDE DEF t
<1>6. \A k \in DOMAIN t : Was(n, k) \in DOMAIN s
  BY <1>0, <1>4 DEF Was
<1>7. \A k, m \in DOMAIN t : Was(n, k) = Was(n, m) => k = m
  BY <1>0, <1>4 DEF Was
<1>8. ASSUME NEW j \in DOMAIN s, j # n PROVE \E k \in DOMAIN t : Was(n, k) = j
  <2>1. CASE j < n
    BY <1>0, <1>4, <2>1 DEF Was
  <2>2. CASE ~(j < n)
    <3>1. j - 1 \in 1 .. Len(s) - 1 /\ ~(j - 1 < n) /\ (j - 1) + 1 = j
      BY <1>0, <1>8, <2>2
    <3> QED
      BY <1>4, <3>1 DEF Was
  <2> QED
    BY <2>1, <2>2
<1> QED
  BY <1>2, <1>3, <1>4, <1>5, <1>6, <1>7, <1>8

\* A change of the rows after which ready() is not called.
LEMMA RowsQuiet ==
  ASSUME FormsInv, UserActs, Mine, lost' = lost, hist' = hist, timers' = timers,
         NEW rows \in Seq(Row), NEW b \in BOOLEAN, NEW R \in SUBSET (Nat \X Nat),
         NEW why \in SUBSET {"rows"},
         Quietly(Now, [Form EXCEPT !.rows = rows, !.plus = b, !.removed = R], why),
         RowsOk(sel, Form.rows, Form.plus) => RowsOk(sel, rows, b),
         SentIds(Form.rows) \cup Form.removed \subseteq SentIds(rows) \cup R,
         why = {} => (RowsValid(rows) <=> RowsValid(Form.rows))
  PROVE  FormsInv'
<1> DEFINE f == [Form EXCEPT !.rows = rows, !.plus = b, !.removed = R]
           r == [f EXCEPT !.quiet = @ \cup why]
<1>1. TypeOK /\ Form.loaded /\ Monitored /\ sel = Now
  BY DEF FormsInv, UserActs, Mine
<1>2. Frame(Now) /\ Form \in FormType /\ dlg # <<>> /\ Now = Len(dlg)
  BY <1>1, UserFrame
<1>3. f \in FormType
  BY <1>2 DEF FormType
<1>4. Quietly(Now, f, why)
  OBVIOUS
<1>5. why \in SUBSET {"unset", "select", "rows"}
  OBVIOUS
<1>6. Changed(Now, r) /\ btn' = btn
  BY <1>1, <1>2, <1>3, <1>4, <1>5, Quiet DEF Frame
<1>7. /\ r.flags = Form.flags /\ r.text = Form.text /\ r.sticky = Form.sticky
      /\ r.loaded = Form.loaded /\ r.rows = rows /\ r.plus = b /\ r.removed = R
      /\ r.got = Form.got /\ r.right = Form.right /\ r.odd = Form.odd /\ r.protocol = Form.protocol
      /\ r.mail = Form.mail /\ r.on = Form.on /\ r.quiet = Form.quiet \cup why
  BY <1>2 DEF FormType
<1> HIDE DEF f, r
<1>8. /\ ListsOk(Form) /\ GroupsOk(Form) /\ OddOk(Form) /\ MonitoringFlag(Form)
      /\ TextsOk(Form, Timed(timers, Now)) /\ ButtonOk(Form, btn)
  BY <1>1, <1>2, Current DEF Monitored
<1>9. ListsOk(r) /\ GroupsOk(r) /\ OddOk(r)
  BY <1>7, <1>8 DEF ListsOk, GroupsOk, OddOk
<1>10. MonitoringFlag(r)
  <2> SUFFICES ASSUME r.quiet = {} PROVE "monitoring" \in r.flags <=> MonitoringOk(r, r.rows)
    BY DEF MonitoringFlag
  <2>1. why = {} /\ Form.quiet = {}
    BY <1>7
  <2>2. "monitoring" \in Form.flags <=> MonitoringOk(Form, Form.rows)
    BY <2>1, <1>1, <1>8 DEF MonitoringFlag
  <2> QED
    BY <2>1, <2>2, <1>7 DEF MonitoringOk, LaunchMail, EditMail
<1>11. TextsOk(r, Timed(timers', Now)) /\ ButtonOk(r, btn')
  <2>1. TextsOk(r, Timed(timers, Now))
    BY <1>7, <1>8 DEF TextsOk, TextFlag, Excused, Editable, Secure
  <2>2. ButtonOk(r, btn)
    BY <1>7, <1>8 DEF ButtonOk
  <2> QED
    BY <2>1, <2>2, <1>6
<1>12. ButtonInv'
  BY <1>2, <1>6, <1>9, <1>10, <1>11, QuietButton DEF FormOk
<1>13. Careful(r)
  BY <1>1, <1>7 DEF Careful
<1> QED
  BY <1>1, <1>2, <1>6, <1>7, <1>12, <1>13, UserKeeps

\* What the row handlers start from.
LEMMA UserRows ==
  ASSUME FormsInv, UserActs, lost' = lost, hist' = hist, timers' = timers
  PROVE  /\ Form \in FormType /\ Form.rows \in Seq(Row) /\ Form.plus \in BOOLEAN
         /\ Form.removed \subseteq Nat \X Nat
         /\ Len(Form.rows) \in Nat /\ DOMAIN Form.rows = 1 .. Len(Form.rows)
         /\ \A n \in DOMAIN Form.rows : Form.rows[n] \in Row /\ Form.rows[n].key \in Monitor
<1>1. Form \in FormType
  BY UserFrame DEF FormsInv
<1>2. Form.rows \in Seq(Row) /\ Form.plus \in BOOLEAN /\ Form.removed \subseteq Nat \X Nat
  BY <1>1, Typing
<1>3. \A n \in DOMAIN Form.rows : Form.rows[n] \in Row
  BY <1>2
<1> QED
  BY <1>1, <1>2, <1>3 DEF Row

\* The plus button: a row with a key that no row has.
LEMMA AddRowStep ==
  ASSUME FormsInv, AddRow
  PROVE  FormsInv'
<1>1. /\ UserActs /\ Mine /\ lost' = lost /\ hist' = hist /\ timers' = timers /\ Form.plus
  BY DEF AddRow
<1>2. PICK k \in Monitor \ UsedKeys(Form.rows) : Quietly(Now, AddItem(Form, k, NoId), {})
  BY DEF AddRow
<1> DEFINE old == Form.rows
           row == [key |-> k, stored |-> NoId, ok |-> TRUE, opts |-> {}]
           rows == Append(old, row)
           new == RefreshSelectItem(rows)
           b == Form.plus /\ Len(rows) < Cardinality(Monitor)
<1>3. /\ Form \in FormType /\ old \in Seq(Row) /\ Form.plus \in BOOLEAN /\ Form.removed \subseteq Nat \X Nat
      /\ Len(old) \in Nat /\ DOMAIN old = 1 .. Len(old)
  BY <1>1, UserRows
<1>4. AddItem(Form, k, NoId) = [Form EXCEPT !.rows = new, !.plus = b, !.removed = Form.removed]
  BY <1>3 DEF AddItem, FormType
<1>5. row \in Row
  BY DEF Row, NoId
<1>6. row.key = k /\ row.stored = NoId /\ row.ok = TRUE
  OBVIOUS
<1> HIDE DEF row
<1>7. /\ rows \in Seq(Row) /\ Len(rows) = Len(old) + 1 /\ DOMAIN rows = 1 .. Len(old) + 1
      /\ \A n \in 1 .. Len(old) : rows[n] = old[n]
      /\ rows[Len(old) + 1] = row
  BY <1>3, <1>5
<1> HIDE DEF rows
<1>8. /\ new \in Seq(Row) /\ DOMAIN new = DOMAIN rows /\ SentIds(new) = SentIds(rows)
      /\ \A n \in DOMAIN rows : new[n].ok = rows[n].ok
  BY <1>7, Refreshed
<1>9. SentIds(old) \subseteq SentIds(rows)
  BY <1>3, <1>7 DEF SentIds
<1>10. RowsValid(rows) <=> RowsValid(old)
  <2>1. \A n \in DOMAIN rows : n \in DOMAIN old \/ n = Len(old) + 1
    BY <1>3, <1>7
  <2>2. DOMAIN old \subseteq DOMAIN rows
    BY <1>3, <1>7
  <2> QED
    BY <2>1, <2>2, <1>3, <1>6, <1>7 DEF RowsValid
<1>11. RowsValid(new) <=> RowsValid(old)
  BY <1>8, <1>10 DEF RowsValid
<1>12. ASSUME RowsOk(sel, old, Form.plus) PROVE RowsOk(sel, new, b)
  <2>1. Distinct(rows)
    <3>1. \A n \in 1 .. Len(old) : rows[n].key # k
      BY <1>3, <1>7 DEF UsedKeys
    <3>2. \A n, m \in 1 .. Len(old) : rows[n].key = rows[m].key => n = m
      BY <1>3, <1>7, <1>12 DEF RowsOk, Distinct
    <3>3. \A n \in DOMAIN rows : n \in 1 .. Len(old) \/ n = Len(old) + 1
      BY <1>3, <1>7
    <3> QED
      BY <3>1, <3>2, <3>3, <1>6, <1>7 DEF Distinct
  <2>2. \A n \in DOMAIN rows : rows[n].stored[1] \in {0, sel}
    <3>1. \A n \in DOMAIN rows : n \in 1 .. Len(old) \/ n = Len(old) + 1
      BY <1>3, <1>7
    <3>2. NoId[1] = 0
      BY DEF NoId
    <3> QED
      BY <3>1, <3>2, <1>3, <1>6, <1>7, <1>12 DEF RowsOk
  <2>3. b \in BOOLEAN /\ (b <=> Len(rows) < Cardinality(Monitor))
    BY <1>1
  <2> HIDE DEF b
  <2> QED
    BY <2>1, <2>2, <2>3, <1>7, RowsSettled
<1>13. b \in BOOLEAN
  OBVIOUS
<1>14. Quietly(Now, [Form EXCEPT !.rows = new, !.plus = b, !.removed = Form.removed], {})
  BY <1>2, <1>4
<1> HIDE DEF new, b, old
<1>15. SentIds(old) \cup Form.removed \subseteq SentIds(new) \cup Form.removed
  BY <1>8, <1>9
<1>16. {} \in SUBSET {"rows"} /\ Form.removed \in SUBSET (Nat \X Nat)
  BY <1>3
<1> QED
  BY <1>1, <1>8, <1>11, <1>12, <1>13, <1>14, <1>15, <1>16, RowsQuiet DEF old

\* The minus button: the row is gone and remembered as removed.
LEMMA DeleteRowStep ==
  ASSUME FormsInv, DeleteRow
  PROVE  FormsInv'
<1>1. /\ UserActs /\ Mine /\ lost' = lost /\ hist' = hist /\ timers' = timers
  BY DEF DeleteRow
<1>2. PICK i \in DOMAIN Form.rows : Quietly(Now, DeletedRow(Form, i), {"rows"})
  BY DEF DeleteRow
<1> DEFINE old == Form.rows
           rows == RemoveAt(old, i)
           new == RefreshSelectItem(rows)
           b == Form.plus \/ Len(rows) < Cardinality(Monitor)
           R == Form.removed \cup {old[i].stored}
<1>3. /\ Form \in FormType /\ old \in Seq(Row) /\ Form.plus \in BOOLEAN /\ Form.removed \subseteq Nat \X Nat
      /\ Len(old) \in Nat /\ DOMAIN old = 1 .. Len(old)
  BY <1>1, UserRows
<1>4. DeletedRow(Form, i) = [Form EXCEPT !.rows = new, !.plus = b, !.removed = R]
  BY <1>3 DEF DeletedRow, FormType
<1>5. /\ rows \in Seq(Row) /\ Len(rows) = Len(old) - 1
      /\ \A k \in DOMAIN rows : Was(i, k) \in DOMAIN old /\ rows[k] = old[Was(i, k)]
      /\ \A k, m \in DOMAIN rows : Was(i, k) = Was(i, m) => k = m
      /\ \A j \in DOMAIN old : j # i => \E k \in DOMAIN rows : Was(i, k) = j
  <2>1. i \in DOMAIN old
    OBVIOUS
  <2> HIDE DEF old
  <2> QED
    BY <1>3, <2>1, Without
<1> HIDE DEF rows
<1>6. new \in Seq(Row) /\ SentIds(new) = SentIds(rows)
  BY <1>5, Refreshed
<1>7. SentIds(old) \subseteq SentIds(rows) \cup {old[i].stored}
  <2> SUFFICES ASSUME NEW j \in DOMAIN old, j # i PROVE old[j].stored \in SentIds(rows)
    BY DEF SentIds
  <2>1. PICK k \in DOMAIN rows : Was(i, k) = j
    BY <1>5
  <2> QED
    BY <2>1, <1>5 DEF SentIds
<1>8. R \in SUBSET (Nat \X Nat)
  <2>1. old[i] \in Row
    BY <1>3
  <2>2. old[i].stored \in Nat \X Nat
    BY <2>1 DEF Row
  <2> QED
    BY <2>2, <1>3
<1>9. ASSUME RowsOk(sel, old, Form.plus) PROVE RowsOk(sel, new, b)
  <2>1. Distinct(rows)
    BY <1>5, <1>9 DEF RowsOk, Distinct
  <2>2. \A n \in DOMAIN rows : rows[n].stored[1] \in {0, sel}
    BY <1>5, <1>9 DEF RowsOk
  <2>3. Len(rows) < Cardinality(Monitor)
    <3> SUFFICES UsedKeys(rows) # Monitor
      BY <2>1, <1>5, CountRows
    <3>1. old[i].key \in Monitor
      BY <1>1, UserRows
    <3>2. old[i].key \notin UsedKeys(rows)
      <4> SUFFICES ASSUME NEW k \in DOMAIN rows, rows[k].key = old[i].key PROVE FALSE
        BY DEF UsedKeys
      <4>1. Was(i, k) \in DOMAIN old /\ old[Was(i, k)].key = old[i].key
        BY <1>5
      <4>2. Was(i, k) = i
        BY <4>1, <1>9 DEF RowsOk, Distinct
      <4>3. k \in Nat /\ i \in Nat
        BY <1>3, <1>5
      <4> QED
        BY <4>2, <4>3 DEF Was
    <3> QED
      BY <3>1, <3>2
  <2>4. b \in BOOLEAN /\ (b <=> Len(rows) < Cardinality(Monitor))
    BY <2>3
  <2> HIDE DEF b
  <2> QED
    BY <2>1, <2>2, <2>4, <1>5, RowsSettled
<1>10. b \in BOOLEAN
  OBVIOUS
<1>11. Quietly(Now, [Form EXCEPT !.rows = new, !.plus = b, !.removed = R], {"rows"})
  BY <1>2, <1>4
<1>12. SentIds(old) \cup Form.removed \subseteq SentIds(new) \cup R
  BY <1>6, <1>7
<1>13. {"rows"} \in SUBSET {"rows"} /\ {"rows"} # {}
  OBVIOUS
<1> HIDE DEF new, b, old, R
<1> QED
  BY <1>1, <1>6, <1>8, <1>9, <1>10, <1>11, <1>12, <1>13, RowsQuiet DEF old

\* A row's select: the options are those no other row has.
LEMMA ChangeRowStep ==
  ASSUME FormsInv, ChangeRow
  PROVE  FormsInv'
<1>1. /\ UserActs /\ Mine /\ lost' = lost /\ hist' = hist /\ timers' = timers
  BY DEF ChangeRow
<1>2. PICK i \in DOMAIN Form.rows : \E j \in Form.rows[i].opts \ {Form.rows[i].key} :
         Quietly(Now, ChangedRow(Form, i, j), {"rows"})
  BY DEF ChangeRow
<1>3. PICK k \in Form.rows[i].opts \ {Form.rows[i].key} : Quietly(Now, ChangedRow(Form, i, k), {"rows"})
  BY <1>2
<1> DEFINE old == Form.rows
           row == [old[i] EXCEPT !.key = k, !.ok = TRUE]
           rows == [old EXCEPT ![i] = row]
           new == RefreshSelectItem(rows)
           b == Form.plus /\ Len(rows) < Cardinality(Monitor)
<1>4. /\ Form \in FormType /\ old \in Seq(Row) /\ Form.plus \in BOOLEAN /\ Form.removed \subseteq Nat \X Nat
      /\ Len(old) \in Nat /\ DOMAIN old = 1 .. Len(old) /\ old[i] \in Row
  BY <1>1, UserRows
<1>5. ChangedRow(Form, i, k) = [Form EXCEPT !.rows = new, !.plus = b, !.removed = Form.removed]
  BY <1>4 DEF ChangedRow, FormType
<1>6. row \in Row /\ row.key = k /\ row.stored = old[i].stored
  BY <1>3, <1>4 DEF Row
<1> HIDE DEF row
<1>7. /\ rows \in Seq(Row) /\ Len(rows) = Len(old) /\ DOMAIN rows = DOMAIN old
      /\ rows[i] = row /\ \A n \in DOMAIN old : n # i => rows[n] = old[n]
  BY <1>4, <1>6
<1> HIDE DEF rows
<1>8. new \in Seq(Row) /\ SentIds(new) = SentIds(rows)
  BY <1>7, Refreshed
<1>9. \A n \in DOMAIN old : rows[n].stored = old[n].stored
  BY <1>6, <1>7
<1>10. SentIds(rows) = SentIds(old)
  BY <1>7, <1>9 DEF SentIds
<1>11. ASSUME RowsOk(sel, old, Form.plus) PROVE RowsOk(sel, new, b)
  <2>1. Fresh(old) /\ Distinct(old)
    BY <1>11 DEF RowsOk
  <2>2. k \in Monitor \ UsedKeys(old)
    BY <2>1, <1>3 DEF Fresh
  <2>3. \A n \in DOMAIN old : old[n].key # k
    BY <2>2 DEF UsedKeys
  <2>4. Distinct(rows)
    BY <2>1, <2>3, <1>6, <1>7 DEF Distinct
  <2>5. \A n \in DOMAIN rows : rows[n].stored[1] \in {0, sel}
    BY <1>7, <1>9, <1>11 DEF RowsOk
  <2>6. UsedKeys(old) # Monitor
    BY <2>2
  <2>7. Form.plus /\ Len(old) < Cardinality(Monitor)
    BY <2>1, <2>6, <1>4, <1>11, CountRows DEF RowsOk
  <2>8. b \in BOOLEAN /\ (b <=> Len(rows) < Cardinality(Monitor))
    BY <2>7, <1>7
  <2> HIDE DEF b
  <2> QED
    BY <2>4, <2>5, <2>8, <1>7, RowsSettled
<1>12. b \in BOOLEAN
  OBVIOUS
<1>13. Quietly(Now, [Form EXCEPT !.rows = new, !.plus = b, !.removed = Form.removed], {"rows"})
  BY <1>3, <1>5
<1>14. SentIds(old) \cup Form.removed \subseteq SentIds(new) \cup Form.removed
  BY <1>8, <1>10
<1>15. {"rows"} \in SUBSET {"rows"} /\ {"rows"} # {} /\ Form.removed \in SUBSET (Nat \X Nat)
  BY <1>4
<1> HIDE DEF new, b, old
<1> QED
  BY <1>1, <1>8, <1>11, <1>12, <1>13, <1>14, <1>15, RowsQuiet DEF old

\* A field of a row: only its validity changes, and ready() looks at it.
LEMMA TypeRowStep ==
  ASSUME FormsInv, TypeRow
  PROVE  FormsInv'
<1>1. /\ UserActs /\ Mine /\ lost' = lost /\ hist' = hist /\ timers' = timers
      /\ TypeOK /\ Form.loaded /\ Monitored
  BY DEF TypeRow, FormsInv, UserActs, Mine
<1>2. Frame(Now) /\ dlg # <<>>
  BY <1>1, UserFrame
<1>3. PICK i \in DOMAIN Form.rows : CallReady(Now, [Form EXCEPT !.rows[i].ok = ~@])
  BY DEF TypeRow
<1> DEFINE old == Form.rows
           row == [old[i] EXCEPT !.ok = ~@]
           rows == [old EXCEPT ![i] = row]
           f == [Form EXCEPT !.rows = rows]
<1>4. /\ Form \in FormType /\ old \in Seq(Row) /\ Len(old) \in Nat /\ DOMAIN old = 1 .. Len(old)
      /\ old[i] \in Row
  BY <1>1, UserRows
<1>5. CallReady(Now, f)
  BY <1>3
<1>6. row \in Row /\ row.key = old[i].key /\ row.stored = old[i].stored /\ row.opts = old[i].opts
  BY <1>4 DEF Row
<1> HIDE DEF row
<1>7. /\ rows \in Seq(Row) /\ DOMAIN rows = DOMAIN old
      /\ \A n \in DOMAIN old : /\ rows[n].key = old[n].key /\ rows[n].stored = old[n].stored
                               /\ rows[n].opts = old[n].opts
  BY <1>4, <1>6
<1> HIDE DEF rows
<1>8. UsedKeys(rows) = UsedKeys(old) /\ SentIds(rows) = SentIds(old)
  BY <1>7 DEF UsedKeys, SentIds
<1>9. /\ f \in FormType /\ f.rows = rows /\ f.loaded = Form.loaded /\ f.plus = Form.plus
      /\ f.removed = Form.removed /\ f.flags = Form.flags /\ f.got = Form.got /\ f.right = Form.right
      /\ f.odd = Form.odd /\ f.text = Form.text /\ f.sticky = Form.sticky /\ f.protocol = Form.protocol
  BY <1>4, <1>7 DEF FormType
<1> HIDE DEF f
<1>10. RowsOk(sel, old, Form.plus) => RowsOk(sel, rows, Form.plus)
  BY <1>7, <1>8 DEF RowsOk, Fresh, Distinct
<1>11. Careful(f)
  BY <1>8, <1>9, <1>10 DEF Careful
<1>12. ASSUME Monitored => sel = Now
       PROVE  ListsOk(f) /\ GroupsOk(f) /\ OddOk(f) /\ TextsOk(f, Timed(timers', Now))
  <2>1. ListsOk(Form) /\ GroupsOk(Form) /\ OddOk(Form) /\ TextsOk(Form, Timed(timers, Now))
    BY <1>1, <1>2, <1>12, Current DEF Monitored
  <2> QED
    BY <1>1, <1>9, <2>1 DEF ListsOk, GroupsOk, OddOk, TextsOk, TextFlag, Excused, Editable, Secure
<1> QED
  BY <1>1, <1>2, <1>5, <1>9, <1>11, <1>12, UserReady

(***************************************************************************)
(* The answers                                                             *)
(***************************************************************************)
LEMMA AnswerFrame ==
  ASSUME FormsInv, NEW q \in req, q.what # "content", Answer(q)
  PROVE  /\ TypeOK /\ Frame(q.form) /\ q.form \in DOMAIN dlg /\ dlg[q.form] \in FormType
         /\ dlg[q.form].loaded /\ q.what \in Asked /\ q.what \notin dlg[q.form].got
         /\ q.what \in AnyList /\ q.what \in AnyFlag /\ timers' = timers
         /\ \A p \in req' : p.form = q.form => p.what # q.what
<1>1. TypeOK /\ q.form \in DOMAIN dlg /\ q \in [form : 1 .. Len(dlg), what : AnyList \cup {"content"}]
  BY DEF FormsInv, TypeOK
<1>2. dlg[q.form] \in FormType /\ q.what \in AnyList
  BY <1>1 DEF TypeOK
<1>3. dlg[q.form].loaded /\ q.what \in Asked /\ q.what \notin dlg[q.form].got
  BY DEF FormsInv, OpenInv, GotInv
<1>4. hist \subseteq hist' /\ hist' \subseteq Histories
  BY <1>1 DEF Answer, SelectAnswer, GroupsAnswer, NetworksAnswer, MonitorsAnswer, TypeOK, Histories
<1>5. steps' = steps /\ req' = req \ {q} /\ timers' = timers
      /\ kind' = kind /\ open' = open /\ sel' = sel /\ srv' = srv /\ lost' = lost
  BY DEF Answer
<1>6. Frame(q.form)
  BY <1>1, <1>3, <1>4, <1>5 DEF Frame, TypeOK
<1>7. \A p \in req' : p.form = q.form => p.what # q.what
  <2> SUFFICES ASSUME NEW p \in req', p.form = q.form, p.what = q.what PROVE FALSE
    OBVIOUS
  <2>1. p \in req \ {q} /\ p \in [form : 1 .. Len(dlg), what : AnyList \cup {"content"}]
    BY <1>1, <1>5 DEF TypeOK
  <2> QED
    BY <1>1, <2>1
<1> QED
  BY <1>1, <1>2, <1>3, <1>5, <1>6, <1>7 DEF AnyFlag

\* An answer that brings list w and leaves the rows as they are.
LEMMA AnswerKeeps ==
  ASSUME FormsInv, NEW g, NEW r, NEW w, Frame(g), Changed(g, r), r.loaded, timers' = timers,
         r.rows = dlg[g].rows, r.plus = dlg[g].plus, r.removed = dlg[g].removed,
         "monitoring_form" \in r.flags => "monitoring_form" \in dlg[g].flags,
         r.got \subseteq dlg[g].got \cup {w}, \A p \in req' : p.form = g => p.what # w,
         g = Len(dlg) => ButtonInv'
  PROVE  FormsInv'
<1>1. TypeOK' /\ OpenInv' /\ ClosedInv'
  BY TypeKept, OpenKept DEF FormsInv
<1>2. GotInv'
  BY GotKept DEF FormsInv
<1>3. RowsInv'
  BY RowsKept DEF FormsInv
<1>4. StoredInv'
  BY StoredKept DEF FormsInv
<1>5. ASSUME g # Len(dlg) PROVE ButtonInv'
  BY <1>5, ButtonElsewhere DEF FormsInv, Timed
<1> QED
  BY <1>1, <1>2, <1>3, <1>4, <1>5 DEF FormsInv

\* A list came.
LEMMA GotForm ==
  ASSUME NEW f \in FormType, NEW w \in AnyList
  PROVE  LET r == [SetFlag(f, w, TRUE) EXCEPT !.got = @ \cup {w}]
         IN  /\ r \in FormType /\ r.flags = f.flags \cup {w} /\ r.got = f.got \cup {w}
             /\ r.loaded = f.loaded /\ r.rows = f.rows /\ r.plus = f.plus /\ r.removed = f.removed
             /\ r.text = f.text /\ r.mail = f.mail /\ r.on = f.on /\ r.right = f.right
             /\ r.sticky = f.sticky /\ r.protocol = f.protocol /\ r.quiet = f.quiet /\ r.odd = f.odd
<1> DEFINE D == f.flags \cup {w}
           G == f.got \cup {w}
           r == [f EXCEPT !.flags = D, !.got = G]
<1>1. D \subseteq AnyFlag /\ G \subseteq AnyList
  BY Typing DEF AnyFlag
<1>2. [SetFlag(f, w, TRUE) EXCEPT !.got = @ \cup {w}] = r
  BY DEF SetFlag, FormType
<1> HIDE DEF D, G
<1>3. /\ r \in FormType /\ r.flags = D /\ r.got = G
      /\ r.loaded = f.loaded /\ r.rows = f.rows /\ r.plus = f.plus /\ r.removed = f.removed
      /\ r.text = f.text /\ r.mail = f.mail /\ r.on = f.on /\ r.right = f.right
      /\ r.sticky = f.sticky /\ r.protocol = f.protocol /\ r.quiet = f.quiet /\ r.odd = f.odd
  BY <1>1 DEF FormType
<1> QED
  BY <1>2, <1>3 DEF D, G

\* A list with its flag, but for the groups.
LEMMA GotOk ==
  ASSUME NEW p, NEW f, NEW T, NEW w \in AnyList \ {"groups"}, w \in Asked,
         ListsOk(p), GroupsOk(p), OddOk(p), TextsOk(p, T),
         f.flags = p.flags \cup {w}, f.got = p.got \cup {w}, f.right = p.right, f.odd = p.odd,
         f.text = p.text, f.sticky = p.sticky, f.protocol = p.protocol
  PROVE  ListsOk(f) /\ GroupsOk(f) /\ OddOk(f) /\ TextsOk(f, T)
<1>1. ListsOk(f) /\ GroupsOk(f) /\ OddOk(f)
  BY DEF ListsOk, GroupsOk, OddOk
<1>2. w \notin Fields
  BY Tables DEF AnyField, LoadBalancerFields, AnyList
<1>3. TextsOk(f, T)
  BY <1>2 DEF TextsOk, TextFlag, Excused, Editable, Secure
<1> QED
  BY <1>1, <1>3

\* The list of specs or key pairs: ready() is not called.
LEMMA SelectStep ==
  ASSUME FormsInv, NEW q \in req, q.what # "content", Answer(q), SelectAnswer(q)
  PROVE  FormsInv'
<1> DEFINE g == q.form
           w == q.what
           p == dlg[g]
           T == Timed(timers, Now)
<1>1. /\ TypeOK /\ Frame(g) /\ g \in DOMAIN dlg /\ p \in FormType /\ p.loaded
      /\ w \in Asked /\ w \in AnyList /\ timers' = timers
      /\ \A x \in req' : x.form = g => x.what # w
  BY AnswerFrame
<1>2. kind = "launch" /\ w \in {"instance_spec", "ssh_keypair"}
  BY <1>1 DEF Asked, SelectAnswer
<1>3. PICK b \in BOOLEAN :
         Quietly(g, IF b THEN [SetFlag(p, w, TRUE) EXCEPT !.got = @ \cup {w}] ELSE p, {"select"})
  BY DEF SelectAnswer
<1> DEFINE f == IF b THEN [SetFlag(p, w, TRUE) EXCEPT !.got = @ \cup {w}] ELSE p
           r == [f EXCEPT !.quiet = @ \cup {"select"}]
<1>4. Quietly(g, f, {"select"})
  BY <1>3
<1> HIDE DEF g, w, p
<1>5. /\ f \in FormType
      /\ \/ f.flags = p.flags \cup {w} /\ f.got = p.got \cup {w}
         \/ f.flags = p.flags /\ f.got = p.got
      /\ f.loaded = p.loaded /\ f.rows = p.rows /\ f.plus = p.plus /\ f.removed = p.removed
      /\ f.text = p.text /\ f.right = p.right
      /\ f.sticky = p.sticky /\ f.protocol = p.protocol /\ f.odd = p.odd
  <2> DEFINE e == [SetFlag(p, w, TRUE) EXCEPT !.got = @ \cup {w}]
  <2>1. /\ e \in FormType /\ e.flags = p.flags \cup {w} /\ e.got = p.got \cup {w}
        /\ e.loaded = p.loaded /\ e.rows = p.rows /\ e.plus = p.plus /\ e.removed = p.removed
        /\ e.text = p.text /\ e.right = p.right
        /\ e.sticky = p.sticky /\ e.protocol = p.protocol /\ e.odd = p.odd
    <3>1. p \in FormType /\ w \in AnyList
      BY <1>1
    <3> QED
      BY <3>1, GotForm
  <2>2. f = IF b THEN e ELSE p
    OBVIOUS
  <2> HIDE DEF e, f
  <2>3. f = e \/ f = p
    BY <2>2
  <2> QED
    BY <1>1, <2>1, <2>3
<1> HIDE DEF f
<1>6. {"select"} \in SUBSET {"unset", "select", "rows"}
  OBVIOUS
<1>7. Changed(g, r) /\ btn' = btn
  BY <1>1, <1>4, <1>5, <1>6, Quiet
<1>8. /\ r.flags = f.flags /\ r.got = f.got /\ "select" \in r.quiet
      /\ r.loaded = f.loaded /\ r.rows = f.rows /\ r.plus = f.plus /\ r.removed = f.removed
      /\ r.text = f.text /\ r.right = f.right
      /\ r.sticky = f.sticky /\ r.protocol = f.protocol /\ r.odd = f.odd
  BY <1>5 DEF FormType
<1> HIDE DEF r
<1>9. ASSUME g = Len(dlg), Monitored => sel = Len(dlg) PROVE FormOk(r, btn', T)
  <2>1. p = Form /\ dlg # <<>>
    BY <1>1, <1>9 DEF p, Form, Now
  <2>2. ListsOk(p) /\ GroupsOk(p) /\ OddOk(p) /\ TextsOk(p, T)
    BY <1>1, <1>2, <1>9, <2>1, Current DEF Now
  <2>3. ListsOk(r) /\ GroupsOk(r) /\ OddOk(r) /\ TextsOk(r, T)
    <3>1. CASE f.flags = p.flags \cup {w} /\ f.got = p.got \cup {w}
      BY <1>1, <1>2, <1>5, <1>8, <2>2, <3>1, GotOk
    <3>2. CASE f.flags = p.flags /\ f.got = p.got
      BY <1>5, <1>8, <2>2, <3>2 DEF ListsOk, GroupsOk, OddOk, TextsOk, TextFlag, Excused, Editable, Secure
    <3> QED
      BY <3>1, <3>2, <1>5
  <2>4. MonitoringFlag(r) /\ ButtonOk(r, btn')
    BY <1>2, <1>8 DEF MonitoringFlag, ButtonOk
  <2> QED
    BY <2>3, <2>4 DEF FormOk
<1>10. g = Len(dlg) => ButtonInv'
  BY <1>1, <1>7, <1>9, QuietButton DEF Now
<1>11. "monitoring_form" \in r.flags => "monitoring_form" \in p.flags
  BY <1>2, <1>5, <1>8
<1>12. r.got \subseteq p.got \cup {w} /\ r.loaded
  BY <1>1, <1>5, <1>8
<1> QED
  BY <1>1, <1>5, <1>7, <1>8, <1>10, <1>11, <1>12, AnswerKeeps DEF p

\* The groups: those of the edited instance are on the right, which is what its
\* flag says from the start; ready() is not called.
LEMMA GroupsAnswerStep ==
  ASSUME FormsInv, NEW q \in req, q.what # "content", Answer(q), GroupsAnswer(q)
  PROVE  FormsInv'
<1> DEFINE g == q.form
           p == dlg[g]
           T == Timed(timers, Now)
<1>1. /\ TypeOK /\ Frame(g) /\ g \in DOMAIN dlg /\ p \in FormType /\ p.loaded
      /\ "groups" \in Asked /\ "groups" \notin p.got /\ timers' = timers
      /\ \A x \in req' : x.form = g => x.what # "groups"
  BY AnswerFrame DEF GroupsAnswer
<1>2. kind \in {"launch", "edit", "register"} /\ "groups" \in Required
  BY <1>1 DEF Asked, Required, LaunchFlags, EditFlags, RegisterFlags
<1>3. PICK S \in SUBSET Group :
           /\ S # {} => kind = "edit"
           /\ Quietly(g, [p EXCEPT !.right = S, !.got = @ \cup {"groups"},
                           !.odd = IF kind = "edit" /\ S = {} THEN @ \cup {"no_groups"} ELSE @], {})
  <2>1. PICK S \in (IF kind = "edit" THEN SUBSET Group ELSE {{}}) :
             Quietly(g, [p EXCEPT !.right = S, !.got = @ \cup {"groups"},
                             !.odd = IF kind = "edit" /\ S = {} THEN @ \cup {"no_groups"} ELSE @], {})
    BY DEF GroupsAnswer
  <2>2. S \in SUBSET Group /\ (S # {} => kind = "edit")
    BY <2>1
  <2> QED
    BY <2>1, <2>2
<1> DEFINE G == p.got \cup {"groups"}
           o == IF kind = "edit" /\ S = {} THEN p.odd \cup {"no_groups"} ELSE p.odd
           f == [p EXCEPT !.right = S, !.got = G, !.odd = o]
           r == [f EXCEPT !.quiet = @ \cup {}]
<1>4. Quietly(g, f, {})
  BY <1>3
<1> HIDE DEF g, p
<1>5. G \subseteq AnyList /\ o \subseteq {"unbound", "late", "one_key", "blank", "no_groups"}
  BY <1>1, Typing DEF AnyList
<1> HIDE DEF G, o
<1>6. f \in FormType
  BY <1>1, <1>3, <1>5 DEF FormType
<1>7. Changed(g, r) /\ btn' = btn
  <2>1. {} \in SUBSET {"unset", "select", "rows"}
    OBVIOUS
  <2> HIDE DEF f
  <2> QED
    BY <2>1, <1>1, <1>4, <1>6, Quiet
<1>8. /\ r.flags = p.flags /\ r.got = G /\ r.quiet = p.quiet /\ r.right = S
      /\ r.loaded = p.loaded /\ r.rows = p.rows /\ r.plus = p.plus /\ r.removed = p.removed
      /\ r.text = p.text /\ r.mail = p.mail /\ r.on = p.on
      /\ r.sticky = p.sticky /\ r.protocol = p.protocol /\ r.odd = o
  BY <1>1 DEF FormType
<1> HIDE DEF r, f
<1>9. ASSUME g = Len(dlg), Monitored => sel = Len(dlg) PROVE FormOk(r, btn', T)
  <2>1. p = Form /\ dlg # <<>>
    BY <1>1, <1>9 DEF p, Form, Now
  <2>2. /\ ListsOk(p) /\ GroupsOk(p) /\ OddOk(p) /\ MonitoringFlag(p)
        /\ TextsOk(p, T) /\ ButtonOk(p, btn)
    BY <1>1, <1>2, <1>9, <2>1, Current DEF Now
  <2>3. ListsOk(r)
    BY <1>1, <1>8, <2>2 DEF ListsOk, G
  <2>4. GroupsOk(r)
    BY <1>1, <1>2, <1>3, <1>8, <2>2 DEF GroupsOk, G, o
  <2>5. OddOk(r) /\ TextsOk(r, T) /\ ButtonOk(r, btn')
    BY <1>7, <1>8, <2>2 DEF OddOk, TextsOk, TextFlag, Excused, Editable, Secure, ButtonOk, o
  <2>6. MonitoringFlag(r)
    BY <1>8, <2>2 DEF MonitoringFlag, MonitoringOk, LaunchMail, EditMail
  <2> QED
    BY <2>3, <2>4, <2>5, <2>6 DEF FormOk
<1>10. g = Len(dlg) => ButtonInv'
  BY <1>1, <1>7, <1>9, QuietButton DEF Now
<1>11. r.got \subseteq p.got \cup {"groups"} /\ r.loaded
  BY <1>1, <1>8 DEF G
<1> QED
  BY <1>1, <1>7, <1>8, <1>10, <1>11, AnswerKeeps DEF p

\* The networks, and ready().
LEMMA NetworksStep ==
  ASSUME FormsInv, NEW q \in req, q.what # "content", Answer(q), NetworksAnswer(q)
  PROVE  FormsInv'
<1> DEFINE g == q.form
           p == dlg[g]
           T == Timed(timers, Now)
           f == [SetFlag(p, "networks", TRUE) EXCEPT !.got = @ \cup {"networks"}]
           r == Readied(g, f)
<1>1. /\ TypeOK /\ Frame(g) /\ g \in DOMAIN dlg /\ p \in FormType /\ p.loaded
      /\ "networks" \in Asked /\ timers' = timers
      /\ \A x \in req' : x.form = g => x.what # "networks"
  BY AnswerFrame DEF NetworksAnswer
<1>2. CallReady(g, f)
  BY DEF NetworksAnswer
<1>3. "networks" \in AnyList \ {"groups"}
  BY DEF AnyList
<1> HIDE DEF g, p
<1>4. /\ f \in FormType /\ f.flags = p.flags \cup {"networks"} /\ f.got = p.got \cup {"networks"}
      /\ f.loaded = p.loaded /\ f.rows = p.rows /\ f.plus = p.plus /\ f.removed = p.removed
      /\ f.text = p.text /\ f.right = p.right
      /\ f.sticky = p.sticky /\ f.protocol = p.protocol /\ f.odd = p.odd
  <2>1. p \in FormType /\ "networks" \in AnyList
    BY <1>1, <1>3
  <2> QED
    BY <2>1, GotForm
<1> HIDE DEF f
<1>5. Changed(g, r)
  BY <1>1, <1>2, <1>4, Ready
<1>6. ASSUME g = Len(dlg), Monitored => sel = Len(dlg)
      PROVE  ListsOk(f) /\ GroupsOk(f) /\ OddOk(f) /\ TextsOk(f, T)
  <2>1. p = Form /\ dlg # <<>>
    BY <1>1, <1>6 DEF p, Form, Now
  <2>2. ListsOk(p) /\ GroupsOk(p) /\ OddOk(p) /\ TextsOk(p, T)
    BY <1>1, <1>6, <2>1, Current DEF Now
  <2> QED
    BY <1>1, <1>3, <1>4, <2>2, GotOk
<1>7. g = Len(dlg) => ButtonInv'
  BY <1>1, <1>2, <1>4, <1>6, ReadyButton DEF Now
<1>8. /\ r.rows = p.rows /\ r.plus = p.plus /\ r.removed = p.removed /\ r.loaded
      /\ r.got = p.got \cup {"networks"}
  BY <1>1, <1>4, ReadiedSame
<1>9. "monitoring_form" \in r.flags => "monitoring_form" \in p.flags
  <2>1. "monitoring_form" \in r.flags => "monitoring_form" \in f.flags
    BY <1>4, ReadiedForm DEF AnyFlag, AnyList
  <2> QED
    BY <2>1, <1>4
<1> HIDE DEF r
<1> QED
  BY <1>1, <1>5, <1>7, <1>8, <1>9, AnswerKeeps DEF p

(***************************************************************************)
(* Steps that change no form                                               *)
(***************************************************************************)
\* The dialog closes, a request fails, the server forgets monitors.
LEMMA StillKeeps ==
  ASSUME FormsInv, kind' = kind, dlg' = dlg, btn' = btn, sel' = sel, timers' = timers, req' \subseteq req,
         open' \in {open, FALSE}, steps' \in Nat, lost' \subseteq Nat \X Nat,
         hist \subseteq hist', hist' \subseteq Histories,
         srv' \in [1 .. MaxOpens -> SUBSET Monitor],
         sel # 0 /\ "monitoring_form" \in dlg[sel].flags => Covered(sel, dlg[sel], srv'[sel])
  PROVE  FormsInv'
<1>1. TypeOK'
  <2>1. TypeOK
    BY DEF FormsInv
  <2>2. dlg' \in Seq(FormType) /\ Len(dlg') <= MaxOpens /\ sel' \in 0 .. Len(dlg') /\ btn' \in BOOLEAN
    <3>1. /\ dlg \in Seq(FormType) /\ Len(dlg) <= MaxOpens /\ sel \in 0 .. Len(dlg)
          /\ btn \in BOOLEAN
      BY <2>1 DEF TypeOK
    <3> QED
      BY <3>1
  <2>3. open' \in BOOLEAN /\ (open' => dlg' # <<>>)
    <3>1. open \in BOOLEAN /\ (open => dlg # <<>>)
      BY <2>1 DEF TypeOK
    <3>2. CASE open' = open
      BY <3>1, <3>2
    <3>3. CASE open' = FALSE
      BY <3>3
    <3> QED
      BY <3>2, <3>3
  <2>4. /\ req' \subseteq [form : 1 .. Len(dlg'), what : AnyList \cup {"content"}]
        /\ timers' \subseteq [form : 1 .. Len(dlg'), field : AnyField]
    <3> DEFINE Q == [form : 1 .. Len(dlg), what : AnyList \cup {"content"}]
               W == [form : 1 .. Len(dlg), field : AnyField]
    <3>1. req \subseteq Q /\ timers \subseteq W
      BY <2>1 DEF TypeOK
    <3>2. Q = [form : 1 .. Len(dlg'), what : AnyList \cup {"content"}]
          /\ W = [form : 1 .. Len(dlg'), field : AnyField]
      OBVIOUS
    <3> HIDE DEF Q, W
    <3>3. req' \subseteq Q /\ timers' \subseteq W
      BY <3>1
    <3> QED
      BY <3>2, <3>3
  <2> QED
    BY <2>2, <2>3, <2>4 DEF TypeOK, Histories
<1>2. /\ Fields' = Fields /\ Required' = Required /\ Asked' = Asked /\ Monitored' = Monitored
  BY SameKind
<1>3. OpenInv' /\ GotInv' /\ ClosedInv'
  BY <1>2 DEF FormsInv, OpenInv, GotInv, ClosedInv, Form, Now, EnabledAtOpen
<1>4. RowsInv'
  BY DEF FormsInv, RowsInv, RowsOk, Fresh, Distinct, UsedKeys
<1>5. StoredInv'
  BY DEF StoredInv, Covered, SentIds
<1>6. ButtonInv'
  BY ButtonNext DEF FormsInv, ButtonInv, Form, Now
<1> QED
  BY <1>1, <1>3, <1>4, <1>5, <1>6 DEF FormsInv

LEMMA StillSteps ==
  ASSUME FormsInv, Close \/ (\E q \in req : RequestFails(q)) \/ UNCHANGED vars
  PROVE  FormsInv'
<1>1. TypeOK /\ StoredInv
  BY DEF FormsInv
<1>2. /\ kind' = kind /\ dlg' = dlg /\ btn' = btn /\ sel' = sel /\ timers' = timers /\ req' \subseteq req
      /\ open' \in {open, FALSE} /\ steps' = steps /\ lost' = lost /\ srv' = srv
      /\ hist' \in {hist, hist \cup {"failed"}}
  BY DEF Close, RequestFails, vars
<1>3. hist \subseteq hist' /\ hist' \subseteq Histories
  BY <1>1, <1>2 DEF TypeOK, Histories
<1>4. /\ steps' \in Nat /\ lost' \subseteq Nat \X Nat
      /\ srv' \in [1 .. MaxOpens -> SUBSET Monitor]
  BY <1>1, <1>2 DEF TypeOK
<1>5. sel # 0 /\ "monitoring_form" \in dlg[sel].flags => Covered(sel, dlg[sel], srv'[sel])
  BY <1>1, <1>2 DEF StoredInv
<1> QED
  BY <1>2, <1>3, <1>4, <1>5, StillKeeps

(***************************************************************************)
(* The answer with the stored monitors                                     *)
(***************************************************************************)
\* Rows appended: the old ones are where they were, the new ones behind them.
LEMMA Concatenated ==
  ASSUME NEW u \in Seq(Row), NEW v \in Seq(Row)
  PROVE  /\ u \o v \in Seq(Row) /\ Len(u \o v) = Len(u) + Len(v)
         /\ \A n \in DOMAIN u : n \in DOMAIN (u \o v) /\ (u \o v)[n] = u[n]
         /\ \A n \in DOMAIN v : Len(u) + n \in DOMAIN (u \o v) /\ (u \o v)[Len(u) + n] = v[n]
         /\ u = <<>> => u \o v = v
<1>1. u \o v \in Seq(Row) /\ Len(u \o v) = Len(u) + Len(v)
  BY Joined
<1>2. /\ Len(u) \in Nat /\ Len(v) \in Nat /\ DOMAIN u = 1 .. Len(u) /\ DOMAIN v = 1 .. Len(v)
      /\ DOMAIN (u \o v) = 1 .. Len(u) + Len(v)
  BY <1>1
<1>3. \A n \in DOMAIN u : n \in DOMAIN (u \o v) /\ (u \o v)[n] = u[n]
  BY <1>2
<1>4. ASSUME NEW n \in DOMAIN v
      PROVE  Len(u) + n \in DOMAIN (u \o v) /\ (u \o v)[Len(u) + n] = v[n]
  <2>1. n \in Nat /\ n > 0 /\ n <= Len(v) /\ Len(u) + n \in 1 .. Len(u) + Len(v) /\ ~(Len(u) + n <= Len(u))
        /\ (Len(u) + n) - Len(u) = n
    BY <1>2
  <2> QED
    BY <1>2, <2>1
<1>5. u = <<>> => u \o v = v
  OBVIOUS
<1> QED
  BY <1>1, <1>3, <1>4, <1>5

\* A row for each stored monitor, with its own key.
LEMMA ItemRows ==
  ASSUME NEW g \in Nat, NEW S \in SUBSET Monitor, NEW order \in Orders(S)
  PROVE  LET new == [n \in DOMAIN order |-> [key |-> order[n], stored |-> <<g, order[n]>>, ok |-> TRUE, opts |-> {}]]
         IN  /\ new \in Seq(Row) /\ Distinct(new)
             /\ \A k \in S : <<g, k>> \in SentIds(new)
             /\ \A n \in DOMAIN new : new[n].stored[1] = g
<1> DEFINE N == Cardinality(S)
           new == [n \in DOMAIN order |-> [key |-> order[n], stored |-> <<g, order[n]>>, ok |-> TRUE, opts |-> {}]]
<1>1. IsFiniteSet(S) /\ N \in Nat
  BY Constants, FS_Subset, FS_CardinalityType
<1>2. order \in [1 .. N -> S] /\ \A k \in S : \E n \in 1 .. N : order[n] = k
  BY DEF Orders
<1>3. order \in Surjection(1 .. N, S)
  BY <1>2 DEF Surjection
<1>4. IsFiniteSet(1 .. N) /\ Cardinality(1 .. N) = N
  <2>1. IsFiniteSet(1 .. N) /\ Cardinality(1 .. N) = IF 1 > N THEN 0 ELSE N - 1 + 1
    BY <1>1, FS_Interval
  <2> QED
    BY <1>1, <2>1
<1>5. order \in Injection(1 .. N, S)
  BY <1>3, <1>4, FS_SurjSameCardinalityImpliesInj
<1>6. \A n, m \in 1 .. N : order[n] = order[m] => n = m
  BY <1>2, <1>5 DEF Injection, IsInjective
<1> HIDE DEF N
<1>7. \A k \in S : [key |-> k, stored |-> <<g, k>>, ok |-> TRUE, opts |-> {}] \in Row
  BY Constants DEF Row
<1>8. /\ DOMAIN new = 1 .. N
      /\ \A n \in 1 .. N : new[n] \in Row /\ new[n].key = order[n] /\ new[n].stored = <<g, order[n]>>
  BY <1>2, <1>7
<1> HIDE DEF new
<1>9. new \in Seq(Row)
  <2>1. new = [n \in 1 .. N |-> new[n]]
    BY <1>8 DEF new
  <2> QED
    BY <2>1, <1>1, <1>8
<1>10. Distinct(new)
  BY <1>6, <1>8 DEF Distinct
<1>11. \A k \in S : <<g, k>> \in SentIds(new)
  BY <1>2, <1>8 DEF SentIds
<1>12. \A n \in DOMAIN new : new[n].stored[1] = g
  BY <1>8
<1> QED
  BY <1>9, <1>10, <1>11, <1>12 DEF new

\* The stored monitors added to a form: nothing else of it changes, all of them
\* are among its rows, and if there were none these are in order.
LEMMA StoredForm ==
  ASSUME NEW f \in FormType, NEW g \in Nat, NEW S \in SUBSET Monitor, NEW order \in Orders(S)
  PROVE  LET a == AddStored(f, g, order)
         IN  /\ a \in FormType
             /\ a.flags = f.flags /\ a.got = f.got /\ a.right = f.right /\ a.odd = f.odd /\ a.text = f.text
             /\ a.loaded = f.loaded /\ a.removed = f.removed /\ a.sticky = f.sticky /\ a.protocol = f.protocol
             /\ a.quiet = f.quiet /\ a.mail = f.mail /\ a.on = f.on
             /\ SentIds(f.rows) \subseteq SentIds(a.rows)
             /\ \A k \in S : <<g, k>> \in SentIds(a.rows)
             /\ f.rows = <<>> /\ f.plus => RowsOk(g, a.rows, a.plus)
<1> DEFINE new == [n \in DOMAIN order |-> [key |-> order[n], stored |-> <<g, order[n]>>, ok |-> TRUE, opts |-> {}]]
           old == f.rows
           rows == old \o new
           fresh == RefreshSelectItem(rows)
           b == f.plus /\ Len(rows) < Cardinality(Monitor)
           a == AddStored(f, g, order)
           e == [f EXCEPT !.rows = fresh, !.plus = b]
<1>1. /\ new \in Seq(Row) /\ Distinct(new) /\ \A k \in S : <<g, k>> \in SentIds(new)
      /\ \A n \in DOMAIN new : new[n].stored[1] = g
  BY ItemRows
<1>2. /\ old \in Seq(Row) /\ f.plus \in BOOLEAN
  BY Typing
<1>3. a = IF order = <<>> THEN f ELSE e
  BY DEF AddStored
<1>4. DOMAIN new = DOMAIN order
  OBVIOUS
<1> HIDE DEF new, old, a
<1>5. /\ rows \in Seq(Row) /\ \A n \in DOMAIN old : n \in DOMAIN rows /\ rows[n] = old[n]
      /\ \A n \in DOMAIN new : Len(old) + n \in DOMAIN rows /\ rows[Len(old) + n] = new[n]
      /\ old = <<>> => rows = new
  BY <1>1, <1>2, Concatenated
<1> HIDE DEF rows
<1>6. SentIds(old) \subseteq SentIds(rows) /\ SentIds(new) \subseteq SentIds(rows)
  BY <1>5 DEF SentIds
<1>7. fresh \in Seq(Row) /\ SentIds(fresh) = SentIds(rows)
  BY <1>5, Refreshed
<1>8. b \in BOOLEAN
  OBVIOUS
<1>9. ASSUME old = <<>>, f.plus PROVE RowsOk(g, fresh, b)
  <2>1. rows = new /\ Distinct(rows) /\ \A n \in DOMAIN rows : rows[n].stored[1] \in {0, g}
    BY <1>1, <1>5, <1>9
  <2>2. b <=> Len(rows) < Cardinality(Monitor)
    BY <1>9
  <2> HIDE DEF b
  <2> QED
    BY <2>1, <2>2, <1>5, <1>8, RowsSettled
<1> HIDE DEF fresh, b
<1>10. /\ e \in FormType /\ e.rows = fresh /\ e.plus = b
       /\ e.flags = f.flags /\ e.got = f.got /\ e.right = f.right /\ e.odd = f.odd /\ e.text = f.text
       /\ e.loaded = f.loaded /\ e.removed = f.removed /\ e.sticky = f.sticky /\ e.protocol = f.protocol
       /\ e.quiet = f.quiet /\ e.mail = f.mail /\ e.on = f.on
  BY <1>7, <1>8 DEF FormType
<1> HIDE DEF e
<1>11. CASE order = <<>>
  <2>1. a = f /\ S = {}
    <3>1. \A k \in S : \E n \in DOMAIN order : order[n] = k
      BY DEF Orders
    <3> QED
      BY <3>1, <1>3, <1>11
  <2>2. f.rows = <<>> /\ f.plus => RowsOk(g, f.rows, f.plus)
    BY Constants DEF RowsOk, Fresh, Distinct, UsedKeys
  <2> QED
    BY <2>1, <2>2 DEF a
<1>12. CASE order # <<>>
  <2>1. a = e
    BY <1>3, <1>12
  <2>2. \A k \in S : <<g, k>> \in SentIds(fresh)
    BY <1>1, <1>6, <1>7
  <2>3. SentIds(f.rows) \subseteq SentIds(fresh)
    BY <1>6, <1>7 DEF old
  <2>4. f.rows = <<>> /\ f.plus => RowsOk(g, fresh, b)
    BY <1>9 DEF old
  <2> QED
    BY <2>1, <2>2, <2>3, <2>4, <1>10 DEF a
<1> QED
  BY <1>11, <1>12

\* The button's invariant reads these fields of a form besides its rows.
LEMMA SameLists ==
  ASSUME NEW p, NEW f, NEW T, f.flags = p.flags, f.got = p.got, f.right = p.right, f.odd = p.odd,
         f.text = p.text, f.sticky = p.sticky, f.protocol = p.protocol
  PROVE  /\ ListsOk(p) => ListsOk(f)
         /\ GroupsOk(p) => GroupsOk(f)
         /\ OddOk(p) => OddOk(f)
         /\ TextsOk(p, T) => TextsOk(f, T)
  BY DEF ListsOk, GroupsOk, OddOk, TextsOk, TextFlag, Excused, Editable, Secure

\* The answer of the form whose selector it is.
LEMMA OwnMonitors ==
  ASSUME FormsInv, NEW q \in req, q.what # "content", Answer(q), MonitorsAnswer(q), sel = q.form
  PROVE  FormsInv'
<1> DEFINE g == q.form
           p == dlg[g]
           T == Timed(timers, Now)
           f == [SetFlag(p, "monitoring_form", TRUE) EXCEPT !.got = @ \cup {"monitoring_form"}]
<1>1. /\ TypeOK /\ Frame(g) /\ g \in DOMAIN dlg /\ p \in FormType /\ p.loaded /\ sel = g
      /\ "monitoring_form" \in Asked /\ timers' = timers
      /\ \A x \in req' : x.form = g => x.what # "monitoring_form"
  BY AnswerFrame DEF MonitorsAnswer
<1>2. PICK order \in Orders(srv[g]) : CallReady(g, AddStored(f, g, order))
  BY <1>1 DEF MonitorsAnswer
<1>3. hist' = hist \cup (IF p.rows # <<>> THEN {"added_early"} ELSE {})
  BY <1>1 DEF MonitorsAnswer
<1>4. "monitoring_form" \in AnyList \ {"groups"}
  BY DEF AnyList
<1>5. srv[g] \in SUBSET Monitor /\ g \in Nat /\ srv' = srv /\ sel' = sel
  <2>1. dlg \in Seq(FormType) /\ Len(dlg) <= MaxOpens /\ srv \in [1 .. MaxOpens -> SUBSET Monitor]
    BY <1>1 DEF TypeOK
  <2>2. g \in 1 .. MaxOpens /\ g \in Nat
    BY <1>1, <2>1, Constants
  <2> QED
    BY <2>1, <2>2, <1>1 DEF Frame
<1> HIDE DEF g, p
<1>6. /\ f \in FormType /\ f.flags = p.flags \cup {"monitoring_form"} /\ f.got = p.got \cup {"monitoring_form"}
      /\ f.loaded = p.loaded /\ f.rows = p.rows /\ f.plus = p.plus /\ f.removed = p.removed
      /\ f.text = p.text /\ f.right = p.right
      /\ f.sticky = p.sticky /\ f.protocol = p.protocol /\ f.odd = p.odd
  <2>1. p \in FormType /\ "monitoring_form" \in AnyList
    BY <1>1, <1>4
  <2> QED
    BY <2>1, GotForm
<1> HIDE DEF f
<1> DEFINE a == AddStored(f, g, order)
           r == Readied(g, a)
<1>7. /\ a \in FormType
      /\ a.flags = f.flags /\ a.got = f.got /\ a.right = f.right /\ a.odd = f.odd /\ a.text = f.text
      /\ a.loaded = f.loaded /\ a.removed = f.removed /\ a.sticky = f.sticky /\ a.protocol = f.protocol
      /\ \A k \in srv[g] : <<g, k>> \in SentIds(a.rows)
      /\ f.rows = <<>> /\ f.plus => RowsOk(g, a.rows, a.plus)
  BY <1>2, <1>5, <1>6, StoredForm
<1>8. CallReady(g, a)
  BY <1>2
<1> HIDE DEF a
<1>9. Changed(g, r) /\ r.loaded /\ r.rows = a.rows /\ r.plus = a.plus /\ r.got = a.got
  <2>1. Changed(g, r)
    BY <1>1, <1>7, <1>8, Ready
  <2>2. r.loaded = a.loaded /\ r.rows = a.rows /\ r.plus = a.plus /\ r.got = a.got
    BY <1>7, ReadiedSame
  <2> QED
    BY <2>1, <2>2, <1>1, <1>6, <1>7
<1> HIDE DEF r
<1>10. TypeOK' /\ OpenInv' /\ ClosedInv'
  BY <1>1, <1>9, TypeKept, OpenKept DEF FormsInv
<1>11. GotInv'
  BY <1>1, <1>6, <1>7, <1>9, GotKept DEF FormsInv, p
<1>12. RowsInv'
  <2>1. ASSUME g = sel, hist' \cap {"foreign", "added_early"} = {}, RowsOk(sel, p.rows, p.plus)
        PROVE  RowsOk(sel, r.rows, r.plus)
    <3>1. p.rows = <<>>
      BY <2>1, <1>3
    <3>2. p.plus
      BY <2>1, <3>1, Constants DEF RowsOk, UsedKeys
    <3> QED
      BY <2>1, <3>1, <3>2, <1>6, <1>7, <1>9
  <2> QED
    BY <2>1, <1>1, <1>9, RowsKept DEF FormsInv, p
<1>13. StoredInv'
  <2>1. dlg'[sel'] = r
    BY <1>1, <1>5, <1>9 DEF Changed
  <2>2. Covered(sel', dlg'[sel'], srv'[sel'])
    BY <2>1, <1>1, <1>5, <1>7, <1>9 DEF Covered
  <2> QED
    BY <2>2 DEF StoredInv, Covered, SentIds
<1>14. ASSUME g = Len(dlg), Monitored => sel = Len(dlg)
       PROVE  ListsOk(a) /\ GroupsOk(a) /\ OddOk(a) /\ TextsOk(a, T)
  <2>1. p = Form /\ dlg # <<>>
    BY <1>1, <1>14 DEF p, Form, Now
  <2>2. ListsOk(p) /\ GroupsOk(p) /\ OddOk(p) /\ TextsOk(p, T)
    BY <1>1, <1>14, <2>1, Current DEF Now
  <2>3. ListsOk(f) /\ GroupsOk(f) /\ OddOk(f) /\ TextsOk(f, T)
    BY <1>1, <1>4, <1>6, <2>2, GotOk
  <2> QED
    BY <1>7, <2>3, SameLists
<1>15. ButtonInv'
  <2>1. CASE g = Len(dlg)
    BY <1>1, <1>7, <1>8, <1>14, <2>1, ReadyButton DEF Now
  <2>2. CASE g # Len(dlg)
    BY <1>1, <1>9, <2>2, ButtonElsewhere DEF FormsInv, Timed
  <2> QED
    BY <2>1, <2>2
<1> QED
  BY <1>10, <1>11, <1>12, <1>13, <1>15 DEF FormsInv

\* The answer of another form: its rows go into the selector's form.
LEMMA ForeignMonitors ==
  ASSUME FormsInv, NEW q \in req, q.what # "content", Answer(q), MonitorsAnswer(q), sel # q.form
  PROVE  FormsInv'
<1> DEFINE g == q.form
           p == dlg[g]
           s == dlg[sel]
           f == [SetFlag(p, "monitoring_form", TRUE) EXCEPT !.got = @ \cup {"monitoring_form"}]
<1>1. /\ TypeOK /\ Frame(g) /\ g \in DOMAIN dlg /\ p \in FormType /\ p.loaded /\ sel # g
      /\ "monitoring_form" \in Asked /\ timers' = timers
      /\ \A x \in req' : x.form = g => x.what # "monitoring_form"
  BY AnswerFrame DEF MonitorsAnswer
<1>2. Monitored /\ kind = "edit"
  BY <1>1 DEF Asked, Monitored
<1>3. sel \in DOMAIN dlg /\ s \in FormType /\ s.loaded /\ Len(dlg) \in DOMAIN dlg /\ DOMAIN dlg = 1 .. Len(dlg)
  BY <1>1, <1>2 DEF FormsInv, TypeOK, OpenInv
<1>4. srv[g] \in SUBSET Monitor /\ g \in Nat /\ srv' = srv /\ sel' = sel /\ kind' = kind
  <2>1. dlg \in Seq(FormType) /\ Len(dlg) <= MaxOpens /\ srv \in [1 .. MaxOpens -> SUBSET Monitor]
    BY <1>1 DEF TypeOK
  <2>2. g \in 1 .. MaxOpens /\ g \in Nat
    BY <1>1, <2>1, Constants
  <2> QED
    BY <2>1, <2>2, <1>1 DEF Frame
<1> DEFINE others(order) == [dlg EXCEPT ![sel] = AddStored(@, g, order)]
           r(order) == [SetFlag(f, "monitoring", MonitoringOk(f, others(order)[sel].rows)) EXCEPT !.quiet = {}]
<1>5. PICK order \in Orders(srv[g]) :
         /\ dlg' = [others(order) EXCEPT ![g] = r(order),
                                         ![Len(dlg)].quiet = IF g = Len(dlg) THEN {} ELSE @ \cup {"stale"}]
         /\ btn' = (Required \subseteq r(order).flags)
  BY <1>1 DEF MonitorsAnswer
<1>6. "foreign" \in hist'
  BY <1>1 DEF MonitorsAnswer
<1> DEFINE a == AddStored(s, g, order)
           o == MonitoringOk(f, others(order)[sel].rows)
           e == [SetFlag(f, "monitoring", o) EXCEPT !.quiet = {}]
<1>7. r(order) = e
  OBVIOUS
<1> HIDE DEF g, p, s, r
<1>8. /\ f \in FormType /\ f.got = p.got \cup {"monitoring_form"} /\ f.loaded = p.loaded
  <2>1. p \in FormType /\ "monitoring_form" \in AnyList
    BY <1>1 DEF AnyList
  <2> QED
    BY <2>1, GotForm
<1>9. o \in BOOLEAN
  BY DEF MonitoringOk, LaunchMail, EditMail, RowsValid
<1> HIDE DEF f, o
<1>10. e \in FormType /\ e.quiet = {} /\ e.loaded = f.loaded /\ e.got = f.got
  BY <1>8, <1>9 DEF SetFlag, FormType, AnyFlag
<1>11. /\ a \in FormType /\ a.loaded = s.loaded /\ a.got = s.got /\ a.flags = s.flags
       /\ a.removed = s.removed /\ SentIds(s.rows) \subseteq SentIds(a.rows) /\ a.quiet = s.quiet
       /\ a.right = s.right /\ a.odd = s.odd /\ a.text = s.text /\ a.sticky = s.sticky
       /\ a.protocol = s.protocol
  <2>1. s \in FormType /\ srv[g] \in SUBSET Monitor /\ g \in Nat /\ order \in Orders(srv[g])
    BY <1>3, <1>4, <1>5
  <2> HIDE DEF others, e
  <2> QED
    BY <2>1, StoredForm
<1> HIDE DEF e
<1>12. others(order) = [dlg EXCEPT ![sel] = a]
  BY DEF s
<1> HIDE DEF a, others
<1> DEFINE O == [dlg EXCEPT ![sel] = a]
           P == [O EXCEPT ![g] = e]
           d == P[Len(dlg)]
           m == [d EXCEPT !.quiet = IF g = Len(dlg) THEN {} ELSE @ \cup {"stale"}]
<1>13. dlg' = [P EXCEPT ![Len(dlg)] = m] /\ btn' = (Required \subseteq e.flags)
  BY <1>3, <1>5, <1>7, <1>12
<1>14. /\ DOMAIN P = DOMAIN dlg /\ P[g] = e /\ P[sel] = a
       /\ \A h \in DOMAIN dlg : h # g /\ h # sel => P[h] = dlg[h]
  BY <1>1, <1>3
<1>15. \A h \in DOMAIN dlg : P[h] \in FormType
  <2>1. \A h \in DOMAIN dlg : dlg[h] \in FormType
    BY <1>1 DEF TypeOK
  <2> QED
    BY <2>1, <1>10, <1>11, <1>14
<1>16. m = IF g = Len(dlg) THEN e ELSE Marked(d)
  <2>1. CASE g = Len(dlg)
    BY <2>1, <1>10, <1>14 DEF FormType
  <2>2. CASE g # Len(dlg)
    <3>1. m = [d EXCEPT !.quiet = d.quiet \cup {"stale"}]
      BY <2>2
    <3> QED
      BY <2>2, <3>1 DEF Marked
  <2> QED
    BY <2>1, <2>2
<1> HIDE DEF m
<1>17. /\ DOMAIN dlg' = DOMAIN dlg /\ dlg'[Len(dlg)] = m
       /\ \A h \in DOMAIN dlg : h # Len(dlg) => dlg'[h] = P[h]
  BY <1>3, <1>13, <1>14
<1> HIDE DEF P, O
<1>18. d \in FormType /\ Marked(d) \in FormType /\ m \in FormType
  BY <1>3, <1>10, <1>15, <1>16, MarkedTypes
<1>19. dlg' \in Seq(FormType) /\ Len(dlg') = Len(dlg)
  <2>1. \A h \in DOMAIN dlg : dlg'[h] \in FormType
    BY <1>15, <1>17, <1>18
  <2>2. Len(dlg) \in Nat /\ dlg' = [h \in 1 .. Len(dlg) |-> dlg'[h]]
    <3>1. Len(dlg) \in Nat
      BY <1>1 DEF TypeOK
    <3>2. dlg' = [h \in DOMAIN dlg |-> dlg'[h]]
      BY <1>13, <1>14 DEF P, O
    <3> QED
      BY <3>1, <3>2, <1>3
  <2> QED
    BY <2>1, <2>2, <1>3
\* What the step keeps of every form, whichever of the three it is.
<1>20. \A h \in DOMAIN dlg : /\ dlg'[h].loaded = dlg[h].loaded
                             /\ h # g => dlg'[h].got = dlg[h].got
                             /\ ~dlg[h].loaded => Untouched(dlg'[h])
  <2>1. ASSUME NEW h \in DOMAIN dlg
        PROVE  /\ P[h].loaded = dlg[h].loaded
               /\ h # g => P[h].got = dlg[h].got
               /\ ~dlg[h].loaded => Untouched(P[h])
    <3>1. CASE h = g
      BY <3>1, <1>1, <1>8, <1>10, <1>14 DEF p
    <3>2. CASE h = sel
      BY <3>2, <1>3, <1>11, <1>14 DEF s
    <3>3. CASE h # g /\ h # sel
      BY <3>3, <1>1, <1>14 DEF FormsInv, OpenInv
    <3> QED
      BY <3>1, <3>2, <3>3
  <2>2. CASE g = Len(dlg)
    BY <2>1, <2>2, <1>14, <1>16, <1>17
  <2>3. CASE g # Len(dlg)
    <3>1. /\ Marked(d).loaded = d.loaded /\ Marked(d).got = d.got
          /\ Untouched(d) => Untouched(Marked(d))
      BY <1>18, MarkedSame
    <3> QED
      BY <2>1, <2>3, <3>1, <1>16, <1>17
  <2> QED
    BY <2>2, <2>3
<1>21. TypeOK'
  BY <1>1, <1>4, <1>13, <1>19 DEF TypeOK, Frame, Histories
<1>22. OpenInv'
  BY <1>1, <1>17, <1>20, OpenNext DEF FormsInv
<1>23. GotInv'
  <2> SUFFICES ASSUME NEW x \in req' PROVE x.what \notin dlg'[x.form].got
    BY DEF GotInv
  <2>1. x \in req /\ x.form \in DOMAIN dlg
    BY <1>1, <1>3 DEF Frame, TypeOK
  <2>2. x.what \notin dlg[x.form].got
    BY <2>1 DEF FormsInv, GotInv
  <2>3. dlg'[g].got = p.got \cup {"monitoring_form"}
    BY <1>1, <1>8, <1>10, <1>14, <1>16, <1>17
  <2> QED
    BY <2>1, <2>2, <2>3, <1>1, <1>20 DEF p
<1>24. ClosedInv'
  <2> SUFFICES ASSUME ~dlg'[Len(dlg)].loaded PROVE "stale" \in dlg'[Len(dlg)].quiet
    BY <1>19 DEF ClosedInv, Form, Now
  <2>1. Len(dlg) # g
    BY <1>1, <1>20 DEF p
  <2> QED
    BY <2>1, <1>16, <1>17, <1>18, MarkedTypes
<1>25. RowsInv'
  BY <1>6 DEF RowsInv
<1>26. StoredInv'
  <2>1. /\ dlg'[sel].flags = s.flags /\ dlg'[sel].removed = s.removed
        /\ SentIds(s.rows) \subseteq SentIds(dlg'[sel].rows)
    <3>1. CASE sel = Len(dlg)
      <4>1. d = a
        BY <3>1, <1>14
      <4>2. dlg'[sel] = Marked(a)
        BY <3>1, <4>1, <1>1, <1>16, <1>17
      <4> QED
        BY <4>2, <1>11, MarkedSame
    <3>2. CASE sel # Len(dlg)
      BY <3>2, <1>3, <1>11, <1>14, <1>17
    <3> QED
      BY <3>1, <3>2
  <2>2. "monitoring_form" \in s.flags => Covered(sel, s, srv[sel])
    BY <1>2, <1>3 DEF FormsInv, StoredInv, s
  <2>3. "monitoring_form" \in dlg'[sel].flags => Covered(sel, dlg'[sel], srv[sel])
    BY <2>1, <2>2 DEF Covered
  <2> QED
    BY <2>3, <1>4 DEF StoredInv, Covered, SentIds
<1>27. ButtonInv'
  <2> SUFFICES ASSUME sel = Len(dlg) PROVE FormOk(dlg'[Len(dlg)], btn', Timed(timers', Len(dlg)))
    BY <1>2, <1>4, <1>19, ButtonNext
  <2>1. d = a /\ s = Form /\ dlg # <<>>
    BY <1>3, <1>14 DEF s, Form, Now
  <2>2. dlg'[Len(dlg)] = Marked(a)
    BY <2>1, <1>1, <1>16, <1>17
  <2> DEFINE T == Timed(timers, Len(dlg))
             M == Marked(a)
  <2>3. ListsOk(s) /\ GroupsOk(s) /\ OddOk(s) /\ TextsOk(s, T)
    BY <2>1, <1>2, <1>3, Current DEF Now
  <2>4. /\ M.flags = a.flags /\ M.got = a.got /\ M.right = a.right /\ M.odd = a.odd /\ M.text = a.text
        /\ M.sticky = a.sticky /\ M.protocol = a.protocol /\ "stale" \in M.quiet
    BY <1>11 DEF Marked, FormType
  <2> HIDE DEF M, T
  <2>5. ListsOk(M) /\ GroupsOk(M) /\ OddOk(M) /\ TextsOk(M, T)
    BY <2>3, <2>4, <1>11, SameLists
  <2>6. MonitoringFlag(M) /\ ButtonOk(M, btn')
    BY <2>4 DEF MonitoringFlag, ButtonOk
  <2> QED
    BY <2>2, <2>5, <2>6, <1>1 DEF FormOk, M, T
<1> QED
  BY <1>21, <1>22, <1>23, <1>24, <1>25, <1>26, <1>27 DEF FormsInv

(***************************************************************************)
(* The content arrives                                                     *)
(***************************************************************************)
LEMMA LoadedTypes ==
  ASSUME NEW g, dlg[g] \in FormType, Untouched(dlg[g]), NEW o \in StoredObject
  PROVE  LET f == LoadedForm(g, o)
         IN  /\ f \in FormType /\ f.loaded /\ f.flags = SetAtStart
             /\ f.text = (IF o.named THEN Fields ELSE {})
             /\ f.quiet \subseteq {"stale", "unset"}
             /\ "unset" \in f.quiet <=> kind = "edit"
             /\ "stale" \in f.quiet <=> "stale" \in dlg[g].quiet
             /\ kind # "edit" => ~f.on /\ f.mail = "empty"
             /\ f.got = {} /\ f.right = {} /\ f.rows = <<>> /\ f.plus /\ f.removed = {}
             /\ ~f.sticky /\ f.protocol = "http"
             /\ f.odd = (IF kind \in Filled /\ ~o.named THEN {"blank"} ELSE {})
<1> DEFINE C == IF o.named THEN Fields ELSE {}
           Q == IF kind = "edit" THEN dlg[g].quiet \cup {"unset"} ELSE dlg[g].quiet
           O == IF kind \in Filled /\ ~o.named THEN {"blank"} ELSE {}
           m == o.mail
           n == o.on
           f == [NewForm EXCEPT !.loaded = TRUE, !.flags = SetAtStart, !.text = C, !.mail = m, !.on = n,
                                !.quiet = Q, !.odd = O]
<1>1. /\ C \subseteq AnyField /\ SetAtStart \subseteq AnyFlag
      /\ O \subseteq {"unbound", "late", "one_key", "blank", "no_groups"}
  BY Tables
<1>2. Q \subseteq {"stale", "unset"}
  BY DEF Untouched
<1>3. LoadedForm(g, o) = f
  <2>1. dlg[g] = [NewForm EXCEPT !.quiet = dlg[g].quiet]
    BY DEF Untouched
  <2> DEFINE u == dlg[g].quiet
  <2> HIDE DEF u
  <2>2. LoadedForm(g, o) = [dlg[g] EXCEPT !.loaded = TRUE, !.flags = SetAtStart, !.text = C, !.mail = m,
                                          !.on = n, !.quiet = Q, !.odd = O]
    BY DEF LoadedForm
  <2> HIDE DEF C, Q, O, m, n
  <2> QED
    BY <2>1, <2>2 DEF NewForm
<1>4. /\ "unset" \in Q <=> kind = "edit"
      /\ "stale" \in Q <=> "stale" \in dlg[g].quiet
  BY DEF Untouched
<1>5. m \in Mails /\ n \in BOOLEAN
  <2>1. CASE kind = "edit"
    BY <2>1, StoredConstants DEF StoredObject
  <2>2. CASE kind # "edit"
    BY <2>2 DEF StoredObject, Mails
  <2> QED
    BY <2>1, <2>2
<1>6. kind # "edit" => ~n /\ m = "empty"
  BY DEF StoredObject
<1> HIDE DEF C, Q, O, m, n
<1>7. /\ f \in FormType /\ f.loaded /\ f.flags = SetAtStart /\ f.text = C /\ f.quiet = Q /\ f.on = n
      /\ f.mail = m /\ f.got = {} /\ f.right = {} /\ f.rows = <<>> /\ f.plus
      /\ f.removed = {} /\ ~f.sticky /\ f.protocol = "http" /\ f.odd = O
  BY <1>1, <1>2, <1>5, NewTypes DEF FormType, NewForm
<1> QED
  BY <1>2, <1>3, <1>4, <1>6, <1>7 DEF C, O

\* The callbacks of all dialogs but two leave the button as it is.
LEMMA PlainLoaded ==
  ASSUME NEW f, NEW b, NEW o \in StoredObject, kind \notin {"load_balancer", "register"},
         f.flags = SetAtStart, f.text = IF o.named THEN Fields ELSE {},
         f.quiet \subseteq {"stale", "unset"}, "unset" \in f.quiet <=> kind = "edit",
         "stale" \notin f.quiet => b = (kind \in EnabledAtOpen),
         kind # "edit" => ~f.on /\ f.mail = "empty",
         f.got = {}, f.right = {}, f.rows = <<>>,
         f.odd = IF kind \in Filled /\ ~o.named THEN {"blank"} ELSE {}
  PROVE  FormOk(f, b, {})
<1>1. ListsOk(f)
  BY DEF ListsOk, SetAtStart, Required, Asked, LaunchFlags, EditFlags, NetworkFlags, VolumeFlags
<1>2. GroupsOk(f)
  <2>1. "no_groups" \notin f.odd
    OBVIOUS
  <2> QED
    BY <2>1 DEF GroupsOk, SetAtStart, Required, LaunchFlags, EditFlags, NetworkFlags, VolumeFlags
<1>3. OddOk(f)
  BY DEF OddOk
<1>4. MonitoringFlag(f)
  BY DEF MonitoringFlag, MonitoringOk, LaunchMail, EditMail, RowsValid, Monitored, SetAtStart
<1>5. /\ o.named \in BOOLEAN
      /\ kind \notin Filled => ~o.named
      /\ kind \in Filled /\ ~o.named => Excused(f, "display_name", {})
  BY DEF StoredObject, Excused
<1>6. CASE kind \in {"name_edit", "network_edit"}
  <2>1. kind \in Filled /\ Fields = {"display_name"} /\ kind \in EnabledAtOpen /\ SetAtStart = {}
    BY <1>6, OneField DEF SetAtStart, Filled, EnabledAtOpen
  <2>2. "display_name" \in f.text \/ Excused(f, "display_name", {})
    BY <1>5, <2>1
  <2>3. Prefilled(f, b, {})
    BY <1>6, <2>1, <2>2 DEF Prefilled
  <2> QED
    BY <2>3, <1>1, <1>2, <1>3, <1>4 DEF FormOk
<1>7. CASE kind \notin {"name_edit", "network_edit"}
  <2>1. TextsOk(f, {})
    <3> SUFFICES ASSUME NEW x \in Fields PROVE TextFlag(f, x) \/ Excused(f, x, {})
      BY DEF TextsOk
    <3>1. Editable(f, x)
      BY OneField DEF Editable
    <3>2. CASE kind = "edit"
      <4>1. Fields = {"display_name"} /\ "display_name" \in SetAtStart /\ kind \in Filled
        BY <3>2, OneField DEF SetAtStart, Filled
      <4>2. CASE o.named
        BY <3>1, <4>1, <4>2 DEF TextFlag
      <4>3. CASE ~o.named
        BY <4>1, <4>3, <1>5
      <4> QED
        BY <4>2, <4>3
    <3>3. CASE kind # "edit"
      <4>1. f.text = {} /\ x \notin SetAtStart
        BY <1>5, <1>7, <3>3, OneField DEF Filled, SetAtStart
      <4> QED
        BY <3>1, <4>1 DEF TextFlag
    <3> QED
      BY <3>2, <3>3
  <2>2. ButtonOk(f, b)
    <3> SUFFICES ASSUME kind # "edit", b = (kind \in EnabledAtOpen) PROVE b <=> Required \subseteq f.flags
      BY DEF ButtonOk
    <3>1. ~b
      BY <1>7 DEF EnabledAtOpen
    <3>2. ~(Required \subseteq f.flags)
      BY DEF Required, SetAtStart, LaunchFlags, NetworkFlags, VolumeFlags
    <3> QED
      BY <3>1, <3>2
  <2> QED
    BY <2>1, <2>2, <1>1, <1>2, <1>3, <1>4 DEF FormOk
<1> QED
  BY <1>6, <1>7

\* The load balancer's callback: each field has its flag when it is filled, or
\* disabled by the stickiness or the protocol.
LEMMA BalancerLoaded ==
  ASSUME NEW f \in FormType, NEW b \in StoredBalancer, kind = "load_balancer",
         f.loaded, f.got = {}, f.right = {}, f.rows = <<>>, f.plus, f.removed = {}, f.odd = {}
  PROVE  LET e == LoadBalancerLoaded(f, b)
         IN  /\ e \in FormType /\ e.loaded /\ e.got = {} /\ e.rows = <<>> /\ e.plus /\ e.removed = {}
             /\ "monitoring_form" \notin e.flags
             /\ ListsOk(e) /\ GroupsOk(e) /\ OddOk(e) /\ TextsOk(e, {})
<1> DEFINE N == b.names
           k == b.keys
           v == b.protocol
           l == b.least
           y == b.least /\ b.cookie
           C == N \cup (IF y THEN {"cookie_name"} ELSE {}) \cup (IF v = "https" /\ k THEN Keys ELSE {})
           D == N \cup {"cookie_name"} \cup (IF v = "https" => k THEN Keys ELSE {})
           e == [f EXCEPT !.text = C, !.flags = D, !.leastconn = l, !.sticky = y, !.protocol = v]
<1>1. /\ N \subseteq Names /\ k \in BOOLEAN /\ v \in {"http", "https"} /\ l \in BOOLEAN /\ y \in BOOLEAN
  BY DEF StoredBalancer
<1>2. LoadBalancerLoaded(f, b) = e
  BY DEF LoadBalancerLoaded
<1> HIDE DEF N, k, v, l, y
<1>3. C \subseteq AnyField /\ D \subseteq AnyFlag
  BY <1>1 DEF AnyField, AnyFlag, LoadBalancerFields, Keys, Names
<1>4. /\ "monitoring_form" \notin D
      /\ \A x \in Names : x \in D <=> x \in C
      /\ "cookie_name" \in D /\ (y => "cookie_name" \in C)
      /\ \A x \in Keys : /\ x \in D <=> (v = "https" => k)
                         /\ x \in C <=> v = "https" /\ k
  BY <1>1 DEF Keys, Names
<1> HIDE DEF C, D
<1>5. /\ e \in FormType /\ e.flags = D /\ e.text = C /\ e.protocol = v /\ e.sticky = y /\ e.loaded
      /\ e.got = {} /\ e.right = {} /\ e.rows = <<>> /\ e.plus /\ e.removed = {} /\ e.odd = {}
  BY <1>1, <1>3 DEF FormType
<1> HIDE DEF e
<1>6. ListsOk(e) /\ GroupsOk(e) /\ OddOk(e)
  BY <1>5 DEF ListsOk, GroupsOk, OddOk, Asked, Required, LoadBalancerFields
<1>7. TextsOk(e, {})
  <2> SUFFICES ASSUME NEW x \in Fields PROVE TextFlag(e, x)
    BY DEF TextsOk
  <2>1. x \in Names \cup {"cookie_name"} \cup Keys
    BY DEF Fields, LoadBalancerFields, Keys, Names
  <2>2. CASE x \in Names
    BY <2>2, <1>4, <1>5 DEF TextFlag, Editable, Names
  <2>3. CASE x = "cookie_name"
    BY <2>3, <1>4, <1>5 DEF TextFlag, Editable
  <2>4. CASE x \in Keys
    <3>1. Editable(e, x) <=> v = "https"
      BY <2>4, <1>1, <1>5 DEF Editable, Secure, Keys
    <3> QED
      BY <2>4, <3>1, <1>4, <1>5 DEF TextFlag
  <2> QED
    BY <2>1, <2>2, <2>3, <2>4
<1> QED
  BY <1>2, <1>4, <1>5, <1>6, <1>7

\* What the callback of form g makes of it, in all dialogs.
LEMMA Loads ==
  ASSUME FormsInv, NEW q \in req, Load(q)
  PROVE  \E r : /\ Changed(q.form, r) /\ r.loaded /\ r.got = {} /\ r.rows = <<>> /\ r.plus /\ r.removed = {}
                /\ "monitoring_form" \notin r.flags
                /\ q.form = Len(dlg) => FormOk(r, btn', {})
<1> DEFINE g == q.form
<1>0. PICK o \in StoredObject :
         LET f == LoadedForm(g, o)
         IN  \/ /\ kind = "load_balancer"
                /\ \E b \in StoredBalancer : CallReady(g, LoadBalancerLoaded(f, b))
             \/ /\ kind = "register"
                /\ dlg' = [dlg EXCEPT ![g] = f,
                                      ![Len(dlg)].quiet = IF g = Len(dlg) THEN {} ELSE @ \cup {"stale"}]
                /\ btn' = FALSE
             \/ /\ kind \notin {"load_balancer", "register"}
                /\ dlg' = [dlg EXCEPT ![g] = f]
                /\ btn' = btn
  BY DEF Load
<1> DEFINE L == LoadedForm(g, o)
<1>1. /\ TypeOK /\ g \in DOMAIN dlg /\ ~dlg[g].loaded /\ Untouched(dlg[g]) /\ dlg[g] \in FormType
      /\ Len(dlg) \in DOMAIN dlg /\ DOMAIN dlg = 1 .. Len(dlg) /\ dlg # <<>> /\ dlg \in Seq(FormType)
  BY DEF FormsInv, TypeOK, OpenInv, Load
<1>2. /\ L \in FormType /\ L.loaded /\ L.flags = SetAtStart
      /\ L.text = (IF o.named THEN Fields ELSE {})
      /\ L.quiet \subseteq {"stale", "unset"}
      /\ "unset" \in L.quiet <=> kind = "edit"
      /\ "stale" \in L.quiet <=> "stale" \in dlg[g].quiet
      /\ kind # "edit" => ~L.on /\ L.mail = "empty"
      /\ L.got = {} /\ L.right = {} /\ L.rows = <<>> /\ L.plus
      /\ L.removed = {} /\ L.odd = (IF kind \in Filled /\ ~o.named THEN {"blank"} ELSE {})
  BY <1>1, LoadedTypes
<1>3. "monitoring_form" \notin SetAtStart
  BY DEF SetAtStart
<1>4. /\ \/ /\ kind = "load_balancer"
            /\ \E b \in StoredBalancer : CallReady(g, LoadBalancerLoaded(L, b))
         \/ /\ kind = "register"
            /\ dlg' = [dlg EXCEPT ![g] = L, ![Len(dlg)].quiet = IF g = Len(dlg) THEN {} ELSE @ \cup {"stale"}]
            /\ btn' = FALSE
         \/ /\ kind \notin {"load_balancer", "register"}
            /\ dlg' = [dlg EXCEPT ![g] = L]
            /\ btn' = btn
  BY <1>0
<1>8. kind \in {"load_balancer", "register"} => L.odd = {}
  BY <1>2 DEF Filled
<1> HIDE DEF g, L
<1>5. CASE kind = "load_balancer"
  <2>1. PICK b \in StoredBalancer : CallReady(g, LoadBalancerLoaded(L, b))
    BY <1>4, <1>5
  <2> DEFINE e == LoadBalancerLoaded(L, b)
             r == Readied(g, e)
  <2>2. /\ e \in FormType /\ e.loaded /\ e.got = {} /\ e.rows = <<>> /\ e.plus /\ e.removed = {}
        /\ "monitoring_form" \notin e.flags
        /\ ListsOk(e) /\ GroupsOk(e) /\ OddOk(e) /\ TextsOk(e, {})
    BY <1>2, <1>5, <1>8, BalancerLoaded
  <2>3. CallReady(g, e)
    BY <2>1
  <2> HIDE DEF e
  <2>4. Changed(g, r) /\ btn' = (Required \subseteq r.flags)
    BY <1>1, <2>2, <2>3, Ready
  <2>5. r.loaded /\ r.got = {} /\ r.rows = <<>> /\ r.plus /\ r.removed = {}
    BY <2>2, ReadiedSame
  <2>6. "monitoring_form" \notin r.flags
    BY <2>2, ReadiedForm DEF AnyFlag, AnyList
  <2>7. FormOk(r, Required \subseteq r.flags, {})
    BY <1>5, <2>2, ReadyOk DEF Monitored
  <2> HIDE DEF r
  <2>8. FormOk(r, btn', {})
    BY <2>4, <2>7
  <2> QED
    BY <2>4, <2>5, <2>6, <2>8 DEF g
<1>6. CASE kind = "register"
  <2> DEFINE r == IF g = Len(dlg) THEN [L EXCEPT !.quiet = {}] ELSE L
  <2>1. /\ r \in FormType /\ r.loaded /\ r.flags = {} /\ r.got = {} /\ r.rows = <<>> /\ r.plus /\ r.removed = {}
        /\ r.right = {} /\ r.odd = {}
    BY <1>2, <1>6, <1>8 DEF SetAtStart, FormType
  <2>2. dlg' = [dlg EXCEPT ![g] = L, ![Len(dlg)].quiet = IF g = Len(dlg) THEN {} ELSE @ \cup {"stale"}]
    BY <1>4, <1>6
  <2>3. CASE g = Len(dlg)
    <3>1. dlg' = [dlg EXCEPT ![g] = r]
      BY <1>1, <2>2, <2>3
    <3> HIDE DEF r
    <3>2. Changed(g, r)
      <4>1. dlg' \in Seq(FormType) /\ Len(dlg') = Len(dlg) /\ DOMAIN dlg' = DOMAIN dlg
        BY <1>1, <2>1, <3>1
      <4>2. dlg'[g] = r /\ btn' = FALSE
        BY <1>1, <1>4, <1>6, <3>1
      <4>3. \A h \in DOMAIN dlg : h # g => dlg'[h] = dlg[h]
        BY <3>1
      <4> QED
        BY <1>1, <2>1, <2>3, <4>1, <4>2, <4>3 DEF Changed
    <3>3. FormOk(r, btn', {})
      <4>1. ListsOk(r) /\ GroupsOk(r) /\ OddOk(r) /\ MonitoringFlag(r) /\ TextsOk(r, {})
        BY <1>6, <2>1 DEF ListsOk, GroupsOk, OddOk, MonitoringFlag, Monitored, TextsOk, Asked, Required,
                          RegisterFlags, Fields
      <4>2. ButtonOk(r, btn')
        BY <1>4, <1>6, <2>1 DEF ButtonOk, Required, RegisterFlags
      <4> QED
        BY <4>1, <4>2 DEF FormOk
    <3> QED
      BY <2>1, <3>2, <3>3 DEF g
  <2>4. CASE g # Len(dlg)
    <3>1. r = L /\ dlg[Len(dlg)] \in FormType /\ Marked(dlg[Len(dlg)]) \in FormType
      BY <1>1, <2>4, MarkedTypes
    <3>2. dlg' = [dlg EXCEPT ![g] = L, ![Len(dlg)] = Marked(dlg[Len(dlg)])]
      BY <1>1, <2>2, <2>4 DEF Marked
    <3> HIDE DEF r
    <3>3. dlg' \in Seq(FormType) /\ Len(dlg') = Len(dlg) /\ DOMAIN dlg' = DOMAIN dlg
      BY <1>1, <1>2, <3>1, <3>2
    <3>4. /\ dlg'[g] = L /\ dlg'[Len(dlg)] = Marked(dlg[Len(dlg)])
          /\ \A h \in DOMAIN dlg : h # g /\ h # Len(dlg) => dlg'[h] = dlg[h]
      BY <1>1, <2>4, <3>2
    <3>5. Changed(g, r)
      BY <1>1, <1>2, <1>4, <1>6, <3>1, <3>3, <3>4 DEF Changed
    <3> QED
      BY <2>1, <2>4, <3>5 DEF g
  <2> QED
    BY <2>3, <2>4
<1>7. CASE kind \notin {"load_balancer", "register"}
  <2>1. dlg' = [dlg EXCEPT ![g] = L] /\ btn' = btn
    BY <1>4, <1>7
  <2>2. dlg' \in Seq(FormType) /\ Len(dlg') = Len(dlg) /\ DOMAIN dlg' = DOMAIN dlg
    BY <1>1, <1>2, <2>1
  <2>3. Changed(g, L)
    BY <1>1, <1>2, <2>1, <2>2 DEF Changed, TypeOK
  <2>4. ASSUME g = Len(dlg) PROVE FormOk(L, btn', {})
    <3>1. "stale" \notin L.quiet => btn = (kind \in EnabledAtOpen)
      BY <1>1, <1>2, <2>4 DEF FormsInv, ClosedInv, Form, Now
    <3> QED
      BY <1>2, <1>7, <2>1, <3>1, PlainLoaded
  <2> QED
    BY <1>2, <1>3, <2>3, <2>4 DEF g
<1> QED
  BY <1>5, <1>6, <1>7

LEMMA LoadStep ==
  ASSUME FormsInv, NEW q \in req, Load(q)
  PROVE  FormsInv'
<1> DEFINE g == q.form
           Q == [form : 1 .. Len(dlg), what : AnyList \cup {"content"}]
           new == {[form |-> g, what |-> w] : w \in Asked}
<1>1. /\ TypeOK /\ g \in DOMAIN dlg /\ ~dlg[g].loaded /\ Len(dlg) \in DOMAIN dlg /\ DOMAIN dlg = 1 .. Len(dlg)
      /\ q.what = "content" /\ q = [form |-> g, what |-> "content"] /\ req \subseteq Q
      /\ \A h \in DOMAIN dlg : dlg[h] \in FormType /\ dlg[h].loaded \in BOOLEAN
  BY Typing DEF FormsInv, TypeOK, OpenInv, Load
<1>2. PICK r : /\ Changed(g, r) /\ r.loaded /\ r.got = {} /\ r.rows = <<>> /\ r.plus /\ r.removed = {}
               /\ "monitoring_form" \notin r.flags
               /\ g = Len(dlg) => FormOk(r, btn', {})
  BY Loads
<1>3. /\ req' = (req \ {q}) \cup new /\ sel' = IF Monitored THEN g ELSE sel
      /\ kind' = kind /\ open' = open /\ timers' = timers /\ steps' = steps /\ srv' = srv /\ lost' = lost
      /\ hist' = hist
  BY DEF Load
<1>4. Fields' = Fields /\ Required' = Required /\ Asked' = Asked /\ Monitored' = Monitored
  BY <1>3, SameKind
<1>5. new \subseteq Q /\ Asked \subseteq AnyList /\ \A x \in new : x.form = g /\ x.what \in Asked
  BY <1>1, Tables
<1> HIDE DEF g, new
<1>6. DOMAIN dlg' = DOMAIN dlg /\ Len(dlg') = Len(dlg) /\ dlg' \in Seq(FormType) /\ btn' \in BOOLEAN /\ dlg'[g] = r
  BY <1>2 DEF Changed
<1>7. \A h \in DOMAIN dlg : h # g =>
         /\ dlg'[h].loaded = dlg[h].loaded /\ dlg'[h].got = dlg[h].got
         /\ Untouched(dlg[h]) => Untouched(dlg'[h])
  BY <1>1, <1>2, Elsewhere
<1>8. sel = 0 \/ Monitored
  BY DEF FormsInv, OpenInv
<1>9. TypeOK'
  <2>1. req' \subseteq Q
    BY <1>1, <1>3, <1>5
  <2>2. sel' \in 0 .. Len(dlg) /\ Len(dlg) <= MaxOpens
    BY <1>1, <1>3 DEF TypeOK
  <2>3. timers \subseteq [form : 1 .. Len(dlg), field : AnyField] /\ open \in BOOLEAN /\ (open => dlg' # <<>>)
    BY <1>1, <1>6 DEF TypeOK
  <2> QED
    BY <2>1, <2>2, <2>3, <1>1, <1>3, <1>6 DEF TypeOK
\* The other requests are not of this form, which had no content.
<1>10. \A x \in req \ {q} : x.form \in DOMAIN dlg /\ x.form # g
  <2> SUFFICES ASSUME NEW x \in req \ {q}, x.form = g PROVE FALSE
    BY <1>1
  <2>1. x.what # "content"
    BY <1>1
  <2> QED
    BY <2>1, <1>1 DEF FormsInv, OpenInv, g
<1>11. OpenInv'
  <2>1. \A h \in DOMAIN dlg' : ~dlg'[h].loaded => Untouched(dlg'[h])
    BY <1>2, <1>6, <1>7 DEF FormsInv, OpenInv
  <2>2. \A x \in req' : IF x.what = "content" THEN ~dlg'[x.form].loaded
                        ELSE dlg'[x.form].loaded /\ x.what \in Asked
    <3> SUFFICES ASSUME NEW x \in req'
                 PROVE  IF x.what = "content" THEN ~dlg'[x.form].loaded
                        ELSE dlg'[x.form].loaded /\ x.what \in Asked
      OBVIOUS
    <3>1. CASE x \in req \ {q}
      <4>1. IF x.what = "content" THEN ~dlg[x.form].loaded ELSE dlg[x.form].loaded /\ x.what \in Asked
        BY <3>1 DEF FormsInv, OpenInv
      <4>2. dlg'[x.form].loaded = dlg[x.form].loaded
        BY <3>1, <1>7, <1>10
      <4> QED
        BY <4>1, <4>2
    <3>2. CASE x \in new
      <4>1. x.what # "content"
        BY <3>2, <1>5 DEF AnyList
      <4> QED
        BY <3>2, <4>1, <1>2, <1>5, <1>6
    <3> QED
      BY <3>1, <3>2, <1>3
  <2>3. \A t \in timers : dlg'[t.form].loaded /\ t.field \in Fields
    <3> SUFFICES ASSUME NEW t \in timers PROVE dlg'[t.form].loaded /\ t.field \in Fields
      OBVIOUS
    <3>1. t.form \in DOMAIN dlg /\ dlg[t.form].loaded /\ t.field \in Fields
      BY <1>1 DEF FormsInv, OpenInv, TypeOK
    <3> QED
      BY <3>1, <1>2, <1>6, <1>7
  <2>4. sel' # 0 => Monitored /\ dlg'[sel'].loaded
    BY <1>2, <1>3, <1>6, <1>8
  <2>5. Monitored => sel' # 0
    BY <1>1, <1>3
  <2> QED
    BY <2>1, <2>2, <2>3, <2>4, <2>5, <1>3, <1>4 DEF OpenInv
<1>12. GotInv'
  <2> SUFFICES ASSUME NEW x \in req' PROVE x.what \notin dlg'[x.form].got
    BY DEF GotInv
  <2>1. CASE x \in req \ {q}
    <3>1. x.what \notin dlg[x.form].got
      BY <2>1 DEF FormsInv, GotInv
    <3> QED
      BY <2>1, <3>1, <1>7, <1>10
  <2>2. CASE x \in new
    BY <2>2, <1>2, <1>5, <1>6
  <2> QED
    BY <2>1, <2>2, <1>3
<1>13. ASSUME g # Len(dlg)
       PROVE  /\ dlg[Len(dlg)] \in FormType
              /\ \/ dlg'[Len(dlg)] = Marked(dlg[Len(dlg)])
                 \/ dlg'[Len(dlg)] = dlg[Len(dlg)] /\ btn' = btn
  BY <1>1, <1>2, <1>13 DEF Changed
<1>14. ClosedInv'
  <2> SUFFICES ASSUME ~dlg'[Len(dlg)].loaded, "stale" \notin dlg'[Len(dlg)].quiet
               PROVE  btn' = (kind \in EnabledAtOpen)
    BY <1>3, <1>6 DEF ClosedInv, Form, Now, EnabledAtOpen
  <2>1. g # Len(dlg)
    BY <1>2, <1>6
  <2>2. dlg'[Len(dlg)] = dlg[Len(dlg)] /\ btn' = btn
    BY <2>1, <1>13, MarkedTypes
  <2>3. dlg # <<>>
    BY <1>1
  <2> QED
    BY <2>2, <2>3 DEF FormsInv, ClosedInv, Form, Now
<1>15. RowsInv'
  <2> SUFFICES ASSUME Monitored PROVE RowsOk(g, r.rows, r.plus)
    BY <1>3, <1>6, <1>8 DEF RowsInv, RowsOk, Fresh, Distinct, UsedKeys
  <2> QED
    BY <1>2, Constants DEF RowsOk, Fresh, Distinct, UsedKeys
<1>16. StoredInv'
  BY <1>2, <1>3, <1>6, <1>8 DEF StoredInv
<1>17. ButtonInv'
  <2> SUFFICES ASSUME dlg'[Len(dlg)].loaded, Monitored => sel' = Len(dlg)
               PROVE  FormOk(dlg'[Len(dlg)], btn', Timed(timers, Len(dlg)))
    BY <1>3, <1>6, ButtonAfter
  <2>1. CASE g = Len(dlg)
    <3>1. Timed(timers, Len(dlg)) = {}
      BY <2>1, <1>1 DEF Timed, FormsInv, OpenInv
    <3> QED
      BY <2>1, <3>1, <1>2, <1>6
  <2>2. CASE g # Len(dlg)
    <3>1. ~Monitored
      BY <2>2, <1>3
    <3>2. dlg[Len(dlg)].loaded /\ dlg # <<>>
      BY <2>2, <1>1, <1>7
    <3>3. FormOk(dlg[Len(dlg)], btn, Timed(timers, Len(dlg)))
      BY <3>1, <3>2 DEF FormsInv, ButtonInv, Form, Now
    <3> QED
      BY <2>2, <3>3, <1>13, FormMarked
  <2> QED
    BY <2>1, <2>2
<1> QED
  BY <1>9, <1>11, <1>12, <1>14, <1>15, <1>16, <1>17 DEF FormsInv

(***************************************************************************)
(* Opening the dialog again, and its button                                *)
(***************************************************************************)
LEMMA ForgottenForm ==
  ASSUME NEW g, dlg[g] \in FormType
  PROVE  LET f == Forgotten(g)
         IN  /\ f \in FormType /\ f.loaded = dlg[g].loaded /\ f.rows = dlg[g].rows /\ f.plus = dlg[g].plus
             /\ f.removed = dlg[g].removed /\ f.got = {} /\ f.flags \subseteq dlg[g].flags
             /\ Untouched(dlg[g]) => Untouched(f)
<1> DEFINE p == dlg[g]
           kept == [NewForm EXCEPT !.loaded = p.loaded, !.rows = p.rows, !.plus = p.plus, !.removed = p.removed]
           more == [kept EXCEPT !.flags = p.flags, !.mail = p.mail, !.on = p.on, !.text = p.text,
                                !.sticky = p.sticky, !.protocol = p.protocol]
           f == Forgotten(g)
<1>1. f = more \/ f = kept
  BY DEF Forgotten
<1>2. p \in FormType
  OBVIOUS
<1> HIDE DEF f, p
<1>3. /\ kept \in FormType /\ kept.loaded = p.loaded /\ kept.rows = p.rows /\ kept.plus = p.plus
      /\ kept.removed = p.removed /\ kept.got = {} /\ kept.flags = {}
  <2> DEFINE l == p.loaded
             w == p.rows
             b == p.plus
             R == p.removed
  <2>1. l \in BOOLEAN /\ w \in Seq(Row) /\ b \in BOOLEAN /\ R \subseteq Nat \X Nat
    BY <1>2, Typing
  <2>2. NewForm.got = {} /\ NewForm.flags = {}
    BY DEF NewForm
  <2> DEFINE k == [NewForm EXCEPT !.loaded = l, !.rows = w, !.plus = b, !.removed = R]
  <2>3. kept = k
    OBVIOUS
  <2> HIDE DEF l, w, b, R, kept
  <2>4. k \in FormType /\ k.loaded = l /\ k.rows = w /\ k.plus = b /\ k.removed = R
        /\ k.got = NewForm.got /\ k.flags = NewForm.flags
    BY <2>1, NewTypes DEF FormType
  <2> QED
    BY <2>2, <2>3, <2>4 DEF l, w, b, R
<1>4. Untouched(p) => kept = NewForm
  BY <1>2, NewTypes DEF Untouched, NewForm
<1>5. Untouched(p) => more = NewForm
  BY <1>2, NewTypes DEF Untouched, NewForm
<1> HIDE DEF kept
<1>6. /\ more \in FormType /\ more.loaded = p.loaded /\ more.rows = p.rows /\ more.plus = p.plus
      /\ more.removed = p.removed /\ more.got = {} /\ more.flags = p.flags
  BY <1>2, <1>3 DEF FormType
<1> HIDE DEF more
<1>7. Untouched(NewForm)
  BY DEF Untouched, NewForm
<1>8. Untouched(p) => Untouched(f)
  BY <1>1, <1>4, <1>5, <1>7
<1> QED
  BY <1>1, <1>3, <1>6, <1>8 DEF f, p

LEMMA OpenDialogStep ==
  ASSUME FormsInv, OpenDialog
  PROVE  FormsInv'
<1> DEFINE n == Len(dlg) + 1
           old == [g \in DOMAIN dlg |-> Forgotten(g)]
           q == [form |-> n, what |-> "content"]
<1>1. /\ TypeOK /\ dlg \in Seq(FormType) /\ Len(dlg) \in Nat /\ DOMAIN dlg = 1 .. Len(dlg)
      /\ \A g \in DOMAIN dlg : dlg[g] \in FormType
  BY DEF FormsInv, TypeOK
<1>2. \A g \in DOMAIN dlg :
         /\ Forgotten(g) \in FormType /\ Forgotten(g).loaded = dlg[g].loaded
         /\ Forgotten(g).rows = dlg[g].rows /\ Forgotten(g).plus = dlg[g].plus
         /\ Forgotten(g).removed = dlg[g].removed /\ Forgotten(g).got = {}
         /\ Forgotten(g).flags \subseteq dlg[g].flags
         /\ Untouched(dlg[g]) => Untouched(Forgotten(g))
  BY <1>1, ForgottenForm
<1>3. old \in Seq(FormType) /\ Len(old) = Len(dlg)
  BY <1>1, <1>2
<1>4. dlg' = Append(old, NewForm) /\ NewForm \in FormType
  BY NewTypes DEF OpenDialog
<1>5. /\ dlg' \in Seq(FormType) /\ Len(dlg') = n /\ DOMAIN dlg' = 1 .. n /\ dlg'[n] = NewForm
      /\ \A g \in DOMAIN dlg : dlg'[g] = Forgotten(g)
  <2>1. /\ dlg' \in Seq(FormType) /\ Len(dlg') = n /\ dlg'[n] = NewForm
        /\ \A g \in 1 .. Len(dlg) : dlg'[g] = old[g]
    BY <1>1, <1>3, <1>4
  <2> QED
    BY <2>1, <1>1
<1>6. /\ req' = req \cup {q} /\ btn' = (kind \in EnabledAtOpen) /\ open' = TRUE /\ Len(dlg) < OpenBound
      /\ kind' = kind /\ sel' = sel /\ timers' = timers /\ steps' = steps /\ srv' = srv /\ lost' = lost
      /\ hist' = hist
  BY <1>5 DEF OpenDialog
<1> HIDE DEF old
<1>7. Fields' = Fields /\ Required' = Required /\ Asked' = Asked /\ Monitored' = Monitored
  BY <1>6, SameKind
<1>8. ~NewForm.loaded /\ Untouched(NewForm) /\ NewForm.got = {}
  BY DEF Untouched, NewForm
<1>9. \A g \in DOMAIN dlg : g \in DOMAIN dlg' /\ g # n
  BY <1>1, <1>5
<1>10. \A g \in DOMAIN dlg' : g \in DOMAIN dlg \/ g = n
  BY <1>1, <1>5
<1>11. TypeOK'
  <2>1. n \in Nat /\ n <= MaxOpens /\ dlg' # <<>>
    BY <1>1, <1>5, <1>6, Constants DEF OpenBound
  <2>2. req' \subseteq [form : 1 .. n, what : AnyList \cup {"content"}]
    <3>1. req \subseteq [form : 1 .. n, what : AnyList \cup {"content"}]
      BY <1>1 DEF TypeOK
    <3>2. q \in [form : 1 .. n, what : AnyList \cup {"content"}]
      BY <1>1
    <3> QED
      BY <3>1, <3>2, <1>6
  <2>3. timers \subseteq [form : 1 .. n, field : AnyField] /\ sel \in 0 .. n
    BY <1>1 DEF TypeOK
  <2> QED
    BY <2>1, <2>2, <2>3, <1>1, <1>5, <1>6 DEF TypeOK
<1>12. OpenInv'
  <2>1. \A g \in DOMAIN dlg' : ~dlg'[g].loaded => Untouched(dlg'[g])
    BY <1>2, <1>5, <1>8, <1>10 DEF FormsInv, OpenInv
  <2>2. \A x \in req' : IF x.what = "content" THEN ~dlg'[x.form].loaded
                        ELSE dlg'[x.form].loaded /\ x.what \in Asked
    <3> SUFFICES ASSUME NEW x \in req'
                 PROVE  IF x.what = "content" THEN ~dlg'[x.form].loaded
                        ELSE dlg'[x.form].loaded /\ x.what \in Asked
      OBVIOUS
    <3>1. CASE x \in req
      <4>1. x.form \in DOMAIN dlg
        BY <3>1, <1>1 DEF TypeOK
      <4>2. IF x.what = "content" THEN ~dlg[x.form].loaded ELSE dlg[x.form].loaded /\ x.what \in Asked
        BY <3>1 DEF FormsInv, OpenInv
      <4> QED
        BY <4>1, <4>2, <1>2, <1>5
    <3>2. CASE x = q
      BY <3>2, <1>5, <1>8
    <3> QED
      BY <3>1, <3>2, <1>6
  <2>3. \A t \in timers : dlg'[t.form].loaded /\ t.field \in Fields
    <3> SUFFICES ASSUME NEW t \in timers PROVE dlg'[t.form].loaded /\ t.field \in Fields
      OBVIOUS
    <3>1. t.form \in DOMAIN dlg /\ dlg[t.form].loaded /\ t.field \in Fields
      BY <1>1 DEF FormsInv, OpenInv, TypeOK
    <3> QED
      BY <3>1, <1>2, <1>5
  <2>4. sel # 0 => Monitored /\ dlg'[sel].loaded
    <3>1. sel # 0 => sel \in DOMAIN dlg /\ Monitored /\ dlg[sel].loaded
      BY <1>1 DEF FormsInv, OpenInv, TypeOK
    <3> QED
      BY <3>1, <1>2, <1>5
  <2>5. Monitored => \A g \in DOMAIN dlg' : dlg'[g].loaded => sel # 0
    BY <1>2, <1>5, <1>8, <1>10 DEF FormsInv, OpenInv
  <2> QED
    BY <2>1, <2>2, <2>3, <2>4, <2>5, <1>6, <1>7 DEF OpenInv
<1>13. GotInv'
  <2>1. \A g \in DOMAIN dlg' : dlg'[g].got = {}
    BY <1>2, <1>5, <1>8, <1>10
  <2>2. \A x \in req' : x.form \in DOMAIN dlg'
    BY <1>5, <1>11 DEF TypeOK
  <2> QED
    BY <2>1, <2>2 DEF GotInv
<1>14. ClosedInv'
  BY <1>6 DEF ClosedInv, EnabledAtOpen
<1>15. sel # 0 => sel \in DOMAIN dlg
  BY <1>1 DEF TypeOK
<1>16. RowsInv'
  <2> SUFFICES ASSUME sel # 0, hist \cap {"foreign", "added_early"} = {}
               PROVE  RowsOk(sel, dlg'[sel].rows, dlg'[sel].plus)
    BY <1>6 DEF RowsInv, RowsOk, Fresh, Distinct, UsedKeys
  <2>1. dlg'[sel].rows = dlg[sel].rows /\ dlg'[sel].plus = dlg[sel].plus
    BY <1>2, <1>5, <1>15
  <2> QED
    BY <2>1 DEF FormsInv, RowsInv
<1>17. StoredInv'
  <2> SUFFICES ASSUME sel # 0, "monitoring_form" \in dlg'[sel].flags
               PROVE  Covered(sel, dlg'[sel], srv[sel])
    BY <1>6 DEF StoredInv, Covered, SentIds
  <2>1. /\ dlg'[sel].rows = dlg[sel].rows /\ dlg'[sel].removed = dlg[sel].removed
        /\ "monitoring_form" \in dlg[sel].flags
    BY <1>2, <1>5, <1>15
  <2> QED
    BY <2>1 DEF FormsInv, StoredInv, Covered
<1>18. ButtonInv'
  BY <1>5, <1>6, <1>8, ButtonAfter
<1> QED
  BY <1>11, <1>12, <1>13, <1>14, <1>16, <1>17, <1>18 DEF FormsInv

\* What the server keeps of the monitors of the selector's form when the button
\* is pressed, and what it deletes.
Kept == {k \in srv[sel] : <<sel, k>> \in SentIds(dlg[sel].rows)}
Gone == {<<sel, k>> : k \in srv[sel] \ Kept}
LEMMA PressFacts ==
  ASSUME FormsInv, Press
  PROVE  /\ TypeOK /\ open /\ btn /\ dlg # <<>>
         /\ kind' = kind /\ dlg' = dlg /\ btn' = btn /\ sel' = sel /\ timers' = timers /\ req' = req
         /\ open' = FALSE /\ steps' \in Nat
         /\ kind # "edit" => srv' = srv /\ lost' = lost /\ hist' = hist
         /\ kind = "edit" =>
              /\ sel \in DOMAIN dlg /\ sel \in Nat /\ sel \in 1 .. MaxOpens
              /\ srv' = [srv EXCEPT ![sel] = Kept] /\ lost' = lost \cup (Gone \ dlg[sel].removed)
              /\ hist' = hist \cup (IF Form.quiet \cap {"unset", "stale"} # {} \/ ~Form.loaded \/ sel # Now
                                      THEN {"pressed_early"} ELSE {})
<1>1. /\ TypeOK /\ sel \in 0 .. Len(dlg) /\ Len(dlg) \in Nat /\ Len(dlg) <= MaxOpens /\ DOMAIN dlg = 1 .. Len(dlg)
      /\ steps \in Nat /\ (open => dlg # <<>>)
  BY DEF FormsInv, TypeOK
<1>2. kind = "edit" => sel # 0
  BY DEF Press, Monitored
<1>3. kind = "edit" => sel \in DOMAIN dlg /\ sel \in Nat /\ sel \in 1 .. MaxOpens
  BY <1>1, <1>2, Constants
<1>4. /\ open /\ btn /\ steps' = steps + 1 /\ open' = FALSE
      /\ kind' = kind /\ dlg' = dlg /\ btn' = btn /\ sel' = sel /\ timers' = timers /\ req' = req
      /\ kind # "edit" => srv' = srv /\ lost' = lost /\ hist' = hist
  BY DEF Press
<1>5. ASSUME kind = "edit"
      PROVE  /\ srv' = [srv EXCEPT ![sel] = Kept] /\ lost' = lost \cup (Gone \ dlg[sel].removed)
             /\ hist' = hist \cup (IF Form.quiet \cap {"unset", "stale"} # {} \/ ~Form.loaded \/ sel # Now
                                     THEN {"pressed_early"} ELSE {})
  BY <1>5 DEF Press, Kept, Gone
<1>6. steps' \in Nat
  BY <1>1, <1>4
<1> QED
  BY <1>1, <1>3, <1>4, <1>5, <1>6

LEMMA PressStep ==
  ASSUME FormsInv, Press
  PROVE  FormsInv'
<1>1. hist \subseteq Histories /\ lost \subseteq Nat \X Nat /\ srv \in [1 .. MaxOpens -> SUBSET Monitor]
  BY DEF FormsInv, TypeOK, Histories
<1>2. CASE kind # "edit"
  <2>1. sel # 0 /\ "monitoring_form" \in dlg[sel].flags => Covered(sel, dlg[sel], srv'[sel])
    BY <1>2, PressFacts DEF FormsInv, StoredInv
  <2>2. req' \subseteq req /\ open' \in {open, FALSE} /\ steps' \in Nat
    BY PressFacts
  <2> QED
    BY <1>1, <1>2, <2>1, <2>2, PressFacts, StillKeeps
<1>3. CASE kind = "edit"
  <2>1. /\ sel \in DOMAIN dlg /\ sel \in Nat /\ sel \in 1 .. MaxOpens
        /\ srv' = [srv EXCEPT ![sel] = Kept] /\ lost' = lost \cup (Gone \ dlg[sel].removed)
        /\ hist' = hist \cup (IF Form.quiet \cap {"unset", "stale"} # {} \/ ~Form.loaded \/ sel # Now
                                THEN {"pressed_early"} ELSE {})
    BY <1>3, PressFacts
  <2>2. Kept \subseteq srv[sel] /\ srv[sel] \subseteq Monitor
    BY <1>1, <2>1 DEF Kept
  <2>3. Gone \subseteq Nat \X Nat
    <3>1. \A k \in srv[sel] : k \in Nat
      BY <2>2, Constants
    <3>2. \A k \in srv[sel] : <<sel, k>> \in Nat \X Nat
      BY <2>1, <3>1
    <3> QED
      BY <3>2 DEF Gone
  <2>4. srv' \in [1 .. MaxOpens -> SUBSET Monitor] /\ srv'[sel] \subseteq srv[sel]
    BY <1>1, <2>1, <2>2
  <2>5. lost' \subseteq Nat \X Nat /\ hist \subseteq hist' /\ hist' \subseteq Histories
    BY <1>1, <2>1, <2>3 DEF Histories
  <2>6. sel # 0 /\ "monitoring_form" \in dlg[sel].flags => Covered(sel, dlg[sel], srv'[sel])
    BY <2>4 DEF FormsInv, StoredInv, Covered
  <2>7. req' \subseteq req /\ open' \in {open, FALSE} /\ steps' \in Nat
    BY PressFacts
  <2> QED
    BY <2>4, <2>5, <2>6, <2>7, PressFacts, StillKeeps
<1> QED
  BY <1>2, <1>3

(***************************************************************************)
(* The theorems                                                            *)
(***************************************************************************)
LEMMA InitOk ==
  ASSUME Init
  PROVE  FormsInv
<1>1. TypeOK
  <2>1. srv \in [1 .. MaxOpens -> SUBSET Monitor]
    <3>1. CASE kind = "edit"
      BY <3>1, Constants DEF Init
    <3>2. CASE kind # "edit"
      BY <3>2 DEF Init
    <3> QED
      BY <3>1, <3>2
  <2>2. dlg \in Seq(FormType) /\ Len(dlg) <= MaxOpens /\ sel \in 0 .. Len(dlg)
    BY Constants DEF Init
  <2> QED
    BY <2>1, <2>2 DEF Init, TypeOK
<1>2. OpenInv /\ GotInv /\ ClosedInv /\ RowsInv /\ StoredInv /\ ButtonInv
  BY DEF Init, OpenInv, GotInv, ClosedInv, RowsInv, StoredInv, ButtonInv
<1> QED
  BY <1>1, <1>2 DEF FormsInv

LEMMA NextOk ==
  ASSUME FormsInv, [Next]_vars
  PROVE  FormsInv'
<1>1. CASE OpenDialog
  BY <1>1, OpenDialogStep
<1>2. CASE Close \/ UNCHANGED vars
  BY <1>2, StillSteps
<1>3. ASSUME NEW q \in req, Load(q) \/ Answer(q) \/ RequestFails(q) PROVE FormsInv'
  <2>1. CASE Load(q)
    BY <2>1, LoadStep
  <2>2. CASE RequestFails(q)
    BY <2>2, StillSteps
  <2>3. CASE Answer(q)
    <3>1. SelectAnswer(q) \/ GroupsAnswer(q) \/ NetworksAnswer(q) \/ MonitorsAnswer(q)
      BY <2>3 DEF Answer
    <3>2. q.what # "content"
      BY <3>1 DEF SelectAnswer, GroupsAnswer, NetworksAnswer, MonitorsAnswer
    <3>3. CASE SelectAnswer(q)
      BY <2>3, <3>2, <3>3, SelectStep
    <3>4. CASE GroupsAnswer(q)
      BY <2>3, <3>2, <3>4, GroupsAnswerStep
    <3>5. CASE NetworksAnswer(q)
      BY <2>3, <3>2, <3>5, NetworksStep
    <3>6. CASE MonitorsAnswer(q)
      BY <2>3, <3>2, <3>6, OwnMonitors, ForeignMonitors
    <3> QED
      BY <3>1, <3>3, <3>4, <3>5, <3>6
  <2> QED
    BY <1>3, <2>1, <2>2, <2>3
<1>4. ASSUME NEW t \in timers, TimerFires(t) PROVE FormsInv'
  BY <1>4, TimerStep
<1>5. ASSUME NEW x \in Fields, TypeText(x) \/ MouseText(x) PROVE FormsInv'
  BY <1>5, TypeTextStep, MouseTextStep
<1>6. CASE TypeMail \/ ToggleMonitoring \/ MoveGroups
  BY <1>6, MailStep, GroupsStep
<1>7. CASE AddRow \/ DeleteRow \/ ChangeRow \/ TypeRow
  BY <1>7, AddRowStep, DeleteRowStep, ChangeRowStep, TypeRowStep
<1>8. CASE SelectAlgorithm \/ ToggleSticky \/ SelectProtocol
  BY <1>8, AlgorithmStep, StickyStep, ProtocolStep
<1>9. CASE Press
  BY <1>9, PressStep
<1> QED
  BY <1>1, <1>2, <1>3, <1>4, <1>5, <1>6, <1>7, <1>8, <1>9 DEF Next

\* The forms, their requests and timers have their types in every opening: no
\* handler touches a form that was not opened.
THEOREM TypeCorrect == Spec => []TypeOK
<1>1. Init => FormsInv
  BY InitOk
<1>2. FormsInv /\ [Next]_vars => FormsInv'
  BY NextOk
<1>3. FormsInv => TypeOK
  BY DEF FormsInv
<1> QED
  BY <1>1, <1>2, <1>3, PTL DEF Spec

\* All parts of the invariant, for the theorems below.
THEOREM FormsInvariant == Spec => []FormsInv
<1>1. Init => FormsInv
  BY InitOk
<1>2. FormsInv /\ [Next]_vars => FormsInv'
  BY NextOk
<1> QED
  BY <1>1, <1>2, PTL DEF Spec

LEMMA RowsDistinct ==
  ASSUME FormsInv
  PROVE  MonitorsDistinct
<1> SUFFICES ASSUME Monitored, sel # 0, hist \cap {"foreign", "added_early"} = {}
             PROVE  LET f == dlg[sel]
                    IN  /\ \A n \in DOMAIN f.rows : /\ f.rows[n].stored[1] \in {0, sel}
                                                    /\ \A m \in DOMAIN f.rows : f.rows[n].key = f.rows[m].key => n = m
                        /\ f.plus <=> UsedKeys(f.rows) # Monitor
  BY DEF MonitorsDistinct
<1>1. RowsOk(sel, dlg[sel].rows, dlg[sel].plus)
  BY DEF FormsInv, RowsInv
<1> QED
  BY <1>1 DEF RowsOk, Distinct

\* VifMonitorSelector (core.js) offers each row its own key and those no other
\* row has, and disables plus when none is left: however rows are added, changed
\* and deleted, and in whatever order the server lists the stored ones, no two
\* rows monitor the same item.
THEOREM RowsMonitorDifferentItems == Spec => []MonitorsDistinct
<1>1. FormsInv => MonitorsDistinct
  BY RowsDistinct
<1> QED
  BY <1>1, FormsInvariant, PTL

\* The flags are all set exactly when the form can be sent.
LEMMA ButtonTrue ==
  ASSUME FormsInv
  PROVE  ButtonTellsTheTruth
<1> SUFFICES ASSUME open, Form.loaded, Form.quiet = {}, Form.odd = {}, \A t \in timers : t.form # Now,
                    Monitored => sel = Now
             PROVE  btn <=> Complete(Form)
  BY DEF ButtonTellsTheTruth
<1> DEFINE f == Form
<1>1. TypeOK /\ dlg # <<>> /\ btn \in BOOLEAN
  BY DEF FormsInv, TypeOK
<1>2. Timed(timers, Now) = {}
  BY DEF Timed
<1>3. FormOk(f, btn, {}) /\ ListsOk(f) /\ GroupsOk(f) /\ MonitoringFlag(f) /\ f.quiet = {} /\ f.odd = {}
  BY <1>1, <1>2, Current
<1> HIDE DEF f
<1>4. CASE Prefilled(f, btn, {})
  <2>1. btn /\ "display_name" \in f.text /\ kind \in {"name_edit", "network_edit"}
    BY <1>3, <1>4 DEF Prefilled, Excused
  <2>2. Complete(f)
    BY <2>1 DEF Complete, Monitored
  <2> QED
    BY <2>1, <2>2 DEF f
<1>5. CASE TextsOk(f, {}) /\ ButtonOk(f, btn)
  <2>1. btn <=> Required \subseteq f.flags
    BY <1>3, <1>5 DEF ButtonOk
  <2>2. \A x \in Fields : x \in f.flags <=> (Editable(f, x) => x \in f.text)
    BY <1>3, <1>5 DEF TextsOk, TextFlag, Excused
  <2>3. \A x \in (Required \cap Asked) \ {"groups"} : x \in f.flags <=> x \in f.got
    BY <1>3 DEF ListsOk
  <2>4. "groups" \in Required =>
          ("groups" \in f.flags <=> f.right # {} \/ (kind = "edit" /\ "groups" \notin f.got))
    BY <1>3 DEF GroupsOk
  <2>5. Monitored => ("monitoring" \in f.flags <=> MonitoringOk(f, f.rows))
    BY <1>3 DEF MonitoringFlag
  <2>6. "display_name" \in Fields => ("display_name" \in f.flags <=> "display_name" \in f.text)
    BY <2>2 DEF Editable
  <2>7. CASE kind = "launch"
    <3>1. /\ "instance_spec" \in f.flags <=> "instance_spec" \in f.got
          /\ "ssh_keypair" \in f.flags <=> "ssh_keypair" \in f.got
          /\ "networks" \in f.flags <=> "networks" \in f.got
          /\ "groups" \in f.flags <=> f.right # {}
      BY <2>3, <2>4, <2>7 DEF Required, Asked, LaunchFlags
    <3>2. "display_name" \in Fields /\ Monitored /\ Required = LaunchFlags
      BY <2>7 DEF Fields, Monitored, Required
    <3> QED
      BY <2>1, <2>5, <2>6, <2>7, <3>1, <3>2 DEF Complete, LaunchFlags, f
  <2>8. CASE kind = "edit"
    <3>1. /\ "monitoring_form" \in f.flags <=> "monitoring_form" \in f.got
          /\ "networks" \in f.flags <=> "networks" \in f.got
          /\ "groups" \in f.flags <=> f.right # {} \/ "groups" \notin f.got
      BY <2>3, <2>4, <2>8 DEF Required, Asked, EditFlags
    <3>2. "display_name" \in Fields /\ Monitored /\ Required = EditFlags
      BY <2>8 DEF Fields, Monitored, Required
    <3> QED
      BY <2>1, <2>5, <2>6, <2>8, <3>1, <3>2 DEF Complete, EditFlags, f
  <2>9. CASE kind = "load_balancer"
    <3>1. /\ "load_balancer_port" \in f.flags <=> "load_balancer_port" \in f.text
          /\ "instance_port" \in f.flags <=> "instance_port" \in f.text
          /\ "cookie_name" \in f.flags <=> (f.sticky => "cookie_name" \in f.text)
          /\ Keys \subseteq f.flags <=> (Secure(f) => Keys \subseteq f.text)
      BY <2>2, <2>9 DEF Fields, LoadBalancerFields, Editable, Keys
    <3>2. "display_name" \in Fields /\ ~Monitored /\ Required = LoadBalancerFields
      BY <2>9 DEF Fields, LoadBalancerFields, Monitored, Required
    <3> QED
      BY <2>1, <2>6, <2>9, <3>1, <3>2 DEF Complete, LoadBalancerFields, Keys, f
  <2>10. CASE kind = "register"
    <3>1. "groups" \in f.flags <=> f.right # {}
      BY <2>4, <2>10 DEF Required, RegisterFlags
    <3>2. "display_name" \notin Fields /\ ~Monitored /\ Required = {"groups"}
      BY <2>10 DEF Fields, Monitored, Required, RegisterFlags
    <3> QED
      BY <2>1, <2>10, <3>1, <3>2 DEF Complete, f
  <2>11. CASE kind = "volume"
    <3>1. "volume_size" \in f.flags <=> "volume_size" \in f.text
      BY <2>2, <2>11 DEF Fields, Editable
    <3>2. "display_name" \in Fields /\ ~Monitored /\ Required = VolumeFlags
      BY <2>11 DEF Fields, Monitored, Required
    <3> QED
      BY <2>1, <2>6, <2>11, <3>1, <3>2 DEF Complete, VolumeFlags, f
  <2>12. CASE kind = "network"
    <3>1. "networks" \in f.flags <=> "networks" \in f.got
      BY <2>3, <2>12 DEF Required, Asked, NetworkFlags
    <3>2. "display_name" \in Fields /\ ~Monitored /\ Required = NetworkFlags
      BY <2>12 DEF Fields, Monitored, Required
    <3> QED
      BY <2>1, <2>6, <2>12, <3>1, <3>2 DEF Complete, NetworkFlags, f
  <2>13. CASE kind \notin {"launch", "edit", "load_balancer", "register", "volume", "network"}
    <3>1. "display_name" \in Fields /\ ~Monitored /\ Required = {"display_name"}
      BY <2>13 DEF Fields, Monitored, Required
    <3> QED
      BY <2>1, <2>6, <2>13, <3>1 DEF Complete, f
  <2> QED
    BY <2>7, <2>8, <2>9, <2>10, <2>11, <2>12, <2>13
<1> QED
  BY <1>3, <1>4, <1>5 DEF FormOk

\* ready() of the panels looks at flags that handlers, timers and answers set, in
\* any order: in every dialog the button is enabled exactly when the form can be
\* sent, but for the changes after which the scripts do not call it.
THEOREM ButtonFollowsForm == Spec => []ButtonTellsTheTruth
<1>1. FormsInv => ButtonTellsTheTruth
  BY ButtonTrue
<1> QED
  BY <1>1, FormsInvariant, PTL

\* The update handler posts the rows and the server deletes what is not among
\* them; the button is enabled by ready(), which waits for the stored monitors.
LEMMA LostStep ==
  ASSUME FormsInv, NoMonitorLost, [Next]_vars
  PROVE  NoMonitorLost'
<1>1. CASE lost' = lost /\ hist \subseteq hist'
  BY <1>1 DEF NoMonitorLost
<1>2. CASE Press /\ kind = "edit"
  <2>1. /\ TypeOK /\ btn /\ dlg # <<>> /\ sel \in DOMAIN dlg
        /\ lost' = lost \cup (Gone \ dlg[sel].removed)
        /\ hist' = hist \cup (IF Form.quiet \cap {"unset", "stale"} # {} \/ ~Form.loaded \/ sel # Now
                                THEN {"pressed_early"} ELSE {})
    BY <1>2, PressFacts
  <2> SUFFICES ASSUME "pressed_early" \notin hist' PROVE lost' = {}
    BY DEF NoMonitorLost
  <2>2. lost = {} /\ Form.quiet \cap {"unset", "stale"} = {} /\ Form.loaded /\ sel = Now /\ sel # 0
    BY <2>1 DEF NoMonitorLost, TypeOK
  <2>3. ButtonOk(Form, btn)
    BY <1>2, <2>1, <2>2, Current DEF Asked
  <2>4. Required \subseteq Form.flags
    BY <1>2, <2>1, <2>2, <2>3 DEF ButtonOk
  <2>5. "monitoring_form" \in dlg[sel].flags
    BY <1>2, <2>2, <2>4 DEF Required, EditFlags, Form
  <2>6. Covered(sel, dlg[sel], srv[sel])
    BY <2>2, <2>5 DEF FormsInv, StoredInv
  <2>7. Gone \subseteq dlg[sel].removed
    BY <2>6 DEF Covered, Gone, Kept
  <2> QED
    BY <2>1, <2>2, <2>7
<1>3. CASE Press /\ kind # "edit"
  BY <1>3, PressFacts DEF NoMonitorLost
<1>4. ASSUME ~Press PROVE lost' = lost /\ hist \subseteq hist'
  <2>1. CASE OpenDialog \/ Close \/ UNCHANGED vars
    BY <2>1 DEF OpenDialog, Close, vars
  <2>2. ASSUME NEW q \in req, Load(q) \/ Answer(q) \/ RequestFails(q) PROVE lost' = lost /\ hist \subseteq hist'
    BY <2>2 DEF Load, Answer, SelectAnswer, GroupsAnswer, NetworksAnswer, MonitorsAnswer, RequestFails
  <2>3. ASSUME NEW t \in timers, TimerFires(t) PROVE lost' = lost /\ hist \subseteq hist'
    BY <2>3 DEF TimerFires
  <2>4. ASSUME NEW x \in Fields, TypeText(x) \/ MouseText(x) PROVE lost' = lost /\ hist \subseteq hist'
    BY <2>4 DEF TypeText, MouseText
  <2>5. CASE \/ TypeMail \/ ToggleMonitoring \/ MoveGroups \/ AddRow \/ DeleteRow \/ ChangeRow \/ TypeRow
             \/ SelectAlgorithm \/ ToggleSticky \/ SelectProtocol
    BY <2>5 DEF TypeMail, ToggleMonitoring, MoveGroups, AddRow, DeleteRow, ChangeRow, TypeRow,
                SelectAlgorithm, ToggleSticky, SelectProtocol
  <2> QED
    BY <1>4, <2>1, <2>2, <2>3, <2>4, <2>5 DEF Next
<1> QED
  BY <1>1, <1>2, <1>3, <1>4

\* An update of an instance deletes at the server only monitors whose row the
\* user deleted, whatever answers are late, lost or out of order, unless the
\* button was pressed before ready() had run for this dialog.
THEOREM UpdateKeepsMonitors == Spec => []NoMonitorLost
<1>1. Init => FormsInv /\ NoMonitorLost
  BY InitOk DEF Init, NoMonitorLost
<1>2. FormsInv /\ NoMonitorLost /\ [Next]_vars => NoMonitorLost'
  BY LostStep
<1> QED
  BY <1>1, <1>2, FormsInvariant, PTL DEF Spec
=============================================================================
