------------------------------ MODULE GuiForms ------------------------------
(***************************************************************************)
(* The forms in the dialogs of the end-user web GUI, whose button is       *)
(* enabled by the script when the form can be sent: launching and editing  *)
(* an instance, creating or editing a load balancer, registering vifs,     *)
(* creating volumes and networks, and the dialogs with one name.           *)
(*                                                                         *)
(* A callback makes a table is_ready of flags, event handlers set a flag   *)
(* and call ready(), which enables the button when all flags are set.  A   *)
(* paste or cut is looked at 100 ms later.  Several lists are fetched by   *)
(* requests that are answered in any order.  The dialog object is made     *)
(* once: a handler that is left over from an earlier opening still sets    *)
(* the button, and fills the monitor list, of the dialog opened last.      *)
(***************************************************************************)
EXTENDS Integers, Sequences, FiniteSets, SequencesExt

CONSTANTS Forms,      \* the dialogs explored
          OnceForms,  \* those that are opened once only, for MaxOnceSteps
          Group,      \* security groups, or vifs
          Monitor,    \* keys of MONITOR_ITEMS, as numbers: the order of the keys
          InitStored, \* the sets of monitors a vif may have at the server
          InitMails,  \* the addresses an instance may have at the server
          InitOn,     \* its monitoring boxes there
          MaxOpens,   \* bound on the openings of the dialog, each for another object
          MaxLeft,    \* bound on the requests in flight when it is opened again
          MaxSteps,   \* bound on what the user does in it
          MaxOnceSteps

ASSUME FormsAssumption == /\ IsFiniteSet(Group) /\ Group # {}
                          /\ Monitor \subseteq Nat /\ IsFiniteSet(Monitor) /\ Monitor # {}
                          /\ InitStored \subseteq SUBSET Monitor
                          /\ InitMails \subseteq {"empty", "valid", "invalid"} /\ InitOn \subseteq BOOLEAN
                          /\ {MaxOpens, MaxLeft, MaxSteps, MaxOnceSteps} \subseteq Nat /\ MaxOpens > 0

VARIABLES
    kind,     \* which dialog this is
    dlg,      \* the forms opened so far
    open,     \* the last one is visible
    btn,      \* button 1 of the last one is enabled
    sel,      \* the form whose VifMonitorSelector is monitor_selector, or 0
    req,      \* requests in flight: the form that sent them and what for
    timers,   \* 100 ms timers of pasted or cut fields, at most one a field
    steps,    \* counter of the bound
    srv,      \* form -> the monitors the server stores for its vif
    lost,     \* history: monitors an update deleted that nobody had removed
    hist      \* history: what has happened that the properties except

vars == <<kind, dlg, open, btn, sel, req, timers, steps, srv, lost, hist>>

-----------------------------------------------------------------------------
(* The dialogs.                                                            *)

OpenBound == IF kind \in OnceForms THEN 1 ELSE MaxOpens
StepBound == IF kind \in OnceForms THEN MaxOnceSteps ELSE MaxSteps

\* The text fields.
LoadBalancerFields == {"display_name", "load_balancer_port", "instance_port",
                       "cookie_name", "private_key", "public_key"}
Keys == {"private_key", "public_key"}
Fields == CASE kind = "load_balancer" -> LoadBalancerFields
            [] kind = "volume"        -> {"display_name", "volume_size"}
            [] kind = "register"      -> {}
            [] OTHER                  -> {"display_name"}

\* Mutant: ready() of the edit dialog does not wait for the stored monitors.
EditFlags_NoMonitors == {"groups", "display_name", "networks", "monitoring"}

\* The flags that ready() asks for, and those that are set at the start.
LaunchFlags == {"instance_spec", "ssh_keypair", "groups", "networks", "display_name", "monitoring"}
EditFlags == {"groups", "display_name", "networks", "monitoring", "monitoring_form"}
RegisterFlags == {"groups"}
VolumeFlags == {"display_name", "volume_size"}
NetworkFlags == {"networks", "display_name"}

Required == CASE kind = "launch"        -> LaunchFlags
              [] kind = "edit"          -> EditFlags
              [] kind = "load_balancer" -> LoadBalancerFields
              [] kind = "register"      -> RegisterFlags
              [] kind = "volume"        -> VolumeFlags
              [] kind = "network"       -> NetworkFlags
              [] OTHER                  -> {"display_name"}
SetAtStart == CASE kind = "launch"        -> {"monitoring"}
                [] kind = "edit"          -> {"display_name", "groups", "monitoring"}
                [] kind = "load_balancer" -> {"cookie_name", "private_key", "public_key"}
                [] OTHER                  -> {}

\* The requests of a callback.
Asked == CASE kind = "launch"   -> {"instance_spec", "ssh_keypair", "groups", "networks"}
           [] kind = "edit"     -> {"monitoring_form", "groups", "networks"}
           [] kind = "register" -> {"groups"}
           [] kind = "network"  -> {"networks"}
           [] OTHER             -> {}

\* The mouse events that have a handler, beside keyup.
MouseEvents == CASE kind = "network"                  -> {}
                 [] kind \in {"network_edit", "attach"} -> {"paste"}
                 [] OTHER                             -> {"paste", "cut"}

\* The click handler that opens a dialog disables the button, but for these.
EnabledAtOpen == {"edit", "register", "name_edit", "network_edit"}

-----------------------------------------------------------------------------
(* A form, and ready().                                                    *)

\* The name is the stored one at the start; it may be blank.
Filled == {"edit", "name_edit", "network_edit"}

\* flags: is_ready; text: the fields that are not empty; mail: the three
\* address fields together; on: monitoring_enabled; got: the lists that came
\* and are not empty; right: the selected groups; rows, plus: the monitor rows
\* and the enabled plus button; removed: monitors whose row the user deleted.
\* History: quiet, what has changed the form since ready() was last called, or
\* odd, what has left a flag behind.
NewForm == [loaded |-> FALSE, flags |-> {}, text |-> {}, mail |-> "empty", on |-> FALSE,
            got |-> {}, right |-> {}, rows |-> <<>>, plus |-> TRUE, removed |-> {},
            leastconn |-> TRUE, sticky |-> FALSE, protocol |-> "http", quiet |-> {}, odd |-> {}]

RowsValid(rows) == \A n \in DOMAIN rows : rows[n].ok

\* The part of ready() about the mail addresses.
LaunchMail(f) == f.on => f.mail = "valid"
EditMail(f) == f.mail # "invalid" /\ (f.on => f.mail = "valid")
Monitored == kind \in {"launch", "edit"}
MonitoringOk(f, rows) == (IF kind = "launch" THEN LaunchMail(f) ELSE EditMail(f)) /\ RowsValid(rows)

SetFlag(f, k, b) == [f EXCEPT !.flags = IF b THEN @ \cup {k} ELSE @ \ {k}]

\* ready() of form g, whose record has become f: it looks at the monitor rows
\* of monitor_selector and sets the button of the dialog opened last.
SelRows(g, f) == IF sel = g THEN f.rows ELSE IF sel = 0 THEN <<>> ELSE dlg[sel].rows
Recomputed(g, f) ==
    IF Monitored THEN SetFlag(f, "monitoring", MonitoringOk(f, SelRows(g, f))) ELSE f
CallReady(g, f) ==
    LET r == [Recomputed(g, f) EXCEPT !.quiet = {}]
    IN  /\ dlg' = IF g = Len(dlg) THEN [dlg EXCEPT ![g] = r]
                  ELSE [dlg EXCEPT ![g] = r, ![Len(dlg)].quiet = @ \cup {"stale"}]
        /\ btn' = (Required \subseteq r.flags)

Quietly(g, f, why) == dlg' = [dlg EXCEPT ![g] = [f EXCEPT !.quiet = @ \cup why]] /\ btn' = btn

-----------------------------------------------------------------------------
(* Opening and closing.                                                    *)

\* What can still be looked at of a closed form: its flags and addresses while
\* a request or a timer comes back to it, the rows of its monitor selector.
Forgotten(g) ==
    LET f == dlg[g]
        kept == [NewForm EXCEPT !.loaded = f.loaded, !.rows = f.rows, !.plus = f.plus, !.removed = f.removed]
    IN  IF \E x \in req \cup timers : x.form = g
          THEN [kept EXCEPT !.flags = f.flags, !.mail = f.mail, !.on = f.on, !.text = f.text,
                            !.sticky = f.sticky, !.protocol = f.protocol]
          ELSE kept

OpenDialog ==
    /\ ~open /\ Len(dlg) < OpenBound /\ Cardinality(req) <= MaxLeft
    /\ open' = TRUE
    /\ dlg' = Append([g \in DOMAIN dlg |-> Forgotten(g)], NewForm)
    /\ btn' = (kind \in EnabledAtOpen)
    /\ req' = req \cup {[form |-> Len(dlg'), what |-> "content"]}
    /\ UNCHANGED <<kind, sel, timers, steps, srv, lost, hist>>

\* The close button, the escape key and the cross: nothing is removed.
Close ==
    /\ open
    /\ open' = FALSE
    /\ UNCHANGED <<kind, dlg, btn, sel, req, timers, steps, srv, lost, hist>>

\* What the server stores of the object that is edited: whether it has a name;
\* the addresses and the monitoring box of an instance.
Mails == {"empty", "valid", "invalid"}
StoredObject == [named : IF kind \in Filled THEN BOOLEAN ELSE {FALSE},
                 mail  : IF kind = "edit" THEN InitMails ELSE {"empty"},
                 on    : IF kind = "edit" THEN InitOn ELSE {FALSE}]

\* The content arrives and the callback runs.
LoadedForm(g, o) ==
    [dlg[g] EXCEPT !.loaded = TRUE, !.flags = SetAtStart,
                   !.text = IF o.named THEN Fields ELSE {}, !.mail = o.mail, !.on = o.on,
                   !.quiet = IF kind = "edit" THEN @ \cup {"unset"} ELSE @,
                   !.odd = IF kind \in Filled /\ ~o.named THEN {"blank"} ELSE {}]

\* The load balancer's callback ends with change events of all its fields, which
\* call ready().  Nothing is stored when it is created; else an instance port is,
\* and two keys or none.
Names == {"display_name", "load_balancer_port", "instance_port"}
StoredBalancer == [names : {S \in SUBSET Names : S = {} \/ "instance_port" \in S}, least : BOOLEAN,
                   cookie : BOOLEAN, keys : BOOLEAN, protocol : {"http", "https"}]
LoadBalancerLoaded(f, b) ==
    LET sticky == b.least /\ b.cookie
        secure == b.protocol = "https"
    IN  [f EXCEPT !.text = b.names \cup (IF sticky THEN {"cookie_name"} ELSE {})
                                  \cup (IF secure /\ b.keys THEN Keys ELSE {}),
                  !.flags = b.names \cup {"cookie_name"} \cup (IF secure => b.keys THEN Keys ELSE {}),
                  !.leastconn = b.least, !.sticky = sticky, !.protocol = b.protocol]

Load(q) ==
    LET g == q.form
    IN  /\ q.what = "content"
        /\ req' = (req \ {q}) \cup {[form |-> g, what |-> w] : w \in Asked}
        /\ sel' = IF Monitored THEN g ELSE sel
        /\ \E o \in StoredObject :
             LET f == LoadedForm(g, o)
             IN  \/ /\ kind = "load_balancer"
                    /\ \E b \in StoredBalancer : CallReady(g, LoadBalancerLoaded(f, b))
                 \/ /\ kind = "register"      \* its callback disables the button
                    /\ dlg' = [dlg EXCEPT ![g] = f,
                                          ![Len(dlg)].quiet = IF g = Len(dlg) THEN {} ELSE @ \cup {"stale"}]
                    /\ btn' = FALSE
                 \/ /\ kind \notin {"load_balancer", "register"}
                    /\ dlg' = [dlg EXCEPT ![g] = f]
                    /\ btn' = btn
        /\ UNCHANGED <<kind, open, timers, steps, srv, lost, hist>>

-----------------------------------------------------------------------------
(* The monitor rows of launch and edit.                                    *)

\* _refreshSelectItem: each row offers its own key and the keys no row has.
UsedKeys(rows) == {rows[n].key : n \in DOMAIN rows}
RefreshSelectItem(rows) ==
    [n \in DOMAIN rows |-> [rows[n] EXCEPT !.opts = {rows[n].key} \cup (Monitor \ UsedKeys(rows))]]

\* addItem: the row is pushed and its change handler triggered.
AddItem(f, k, id) ==
    LET rows == Append(f.rows, [key |-> k, stored |-> id, ok |-> TRUE, opts |-> {}])
    IN  [f EXCEPT !.rows = RefreshSelectItem(rows),
                  !.plus = @ /\ Len(rows) < Cardinality(Monitor)]

\* addItem for each monitor of the answer, in the order the server gave them.
Orders(S) == {o \in [1 .. Cardinality(S) -> S] : \A k \in S : \E n \in DOMAIN o : o[n] = k}
AddStored(f, g, order) ==
    LET item(k) == [key |-> k, stored |-> <<g, k>>, ok |-> TRUE, opts |-> {}]
        rows == f.rows \o [n \in DOMAIN order |-> item(order[n])]
    IN  IF order = <<>> THEN f
        ELSE [f EXCEPT !.rows = RefreshSelectItem(rows),
                       !.plus = @ /\ Len(rows) < Cardinality(Monitor)]

NoId == <<0, 0>>

-----------------------------------------------------------------------------
(* The answers of the requests.                                            *)

\* The lists of specs and key pairs set their flag and do not call ready().
SelectAnswer(q) ==
    /\ q.what \in {"instance_spec", "ssh_keypair"}
    /\ \E b \in BOOLEAN :
         LET f == dlg[q.form]
         IN  Quietly(q.form, IF b THEN [SetFlag(f, q.what, TRUE) EXCEPT !.got = @ \cup {q.what}] ELSE f,
                     {"select"})
    /\ UNCHANGED hist

\* The two lists of an ItemSelector; the groups of the edited instance start on
\* the right.  It may have none, and the flag set at the start stays.
GroupsAnswer(q) ==
    /\ q.what = "groups"
    /\ \E S \in (IF kind = "edit" THEN SUBSET Group ELSE {{}}) :
         Quietly(q.form, [dlg[q.form] EXCEPT !.right = S, !.got = @ \cup {"groups"},
                             !.odd = IF kind = "edit" /\ S = {} THEN @ \cup {"no_groups"} ELSE @], {})
    /\ UNCHANGED hist

NetworksAnswer(q) ==
    /\ q.what = "networks"
    /\ CallReady(q.form, [SetFlag(dlg[q.form], "networks", TRUE) EXCEPT !.got = @ \cup {"networks"}])
    /\ UNCHANGED hist

\* The stored monitors become rows of monitor_selector, whichever form's it is.
MonitorsAnswer(q) ==
    /\ q.what = "monitoring_form"
    /\ \E order \in Orders(srv[q.form]) :
       LET g == q.form
           f == [SetFlag(dlg[g], "monitoring_form", TRUE) EXCEPT !.got = @ \cup {"monitoring_form"}]
       IN  IF sel = g
             THEN CallReady(g, AddStored(f, g, order))
             ELSE LET others == [dlg EXCEPT ![sel] = AddStored(@, g, order)]
                      r == [SetFlag(f, "monitoring", MonitoringOk(f, others[sel].rows)) EXCEPT !.quiet = {}]
                  IN  /\ dlg' = [others EXCEPT ![g] = r,
                                   ![Len(dlg)].quiet = IF g = Len(dlg) THEN {} ELSE @ \cup {"stale"}]
                      /\ btn' = (Required \subseteq r.flags)
    /\ hist' = hist \cup (IF sel # q.form THEN {"foreign"} ELSE {})
                    \cup (IF dlg[sel].rows # <<>> THEN {"added_early"} ELSE {})

Answer(q) ==
    /\ \/ SelectAnswer(q) \/ GroupsAnswer(q) \/ NetworksAnswer(q) \/ MonitorsAnswer(q)
    /\ req' = req \ {q}
    /\ UNCHANGED <<kind, open, sel, timers, steps, srv, lost>>

\* The error pop-up, and nothing else; one failure is explored.
RequestFails(q) ==
    /\ q.what # "content" /\ "failed" \notin hist
    /\ req' = req \ {q}
    /\ hist' = hist \cup {"failed"}
    /\ UNCHANGED <<kind, dlg, open, btn, sel, timers, steps, srv, lost>>

-----------------------------------------------------------------------------
(* The user, in the visible form.                                          *)

Now == Len(dlg)
Form == dlg[Now]
UserActs == /\ open /\ Form.loaded /\ steps < StepBound
            /\ steps' = steps + 1
            /\ UNCHANGED <<kind, open, sel, srv, req>>

\* A disabled field takes no input.
Secure(f) == f.protocol \in {"https", "ssl"}
Editable(f, x) == /\ x = "cookie_name" => f.sticky
                  /\ x \in {"private_key", "public_key"} => Secure(f)
Toggle(f, x) == [f EXCEPT !.text = IF x \in @ THEN @ \ {x} ELSE @ \cup {x}]

\* checkTextField and availableTextField on a key.
Looked(f, x) == [SetFlag(f, x, x \in f.text) EXCEPT !.odd = @ \ {"unbound", "blank"}]
TypeText(x) ==
    /\ UserActs /\ Editable(Form, x)
    /\ \E f \in {Form, Toggle(Form, x)} : CallReady(Now, Looked(f, x))
    /\ UNCHANGED <<timers, lost, hist>>

\* A paste or a cut with the mouse.
MouseText(x) ==
    /\ UserActs /\ Editable(Form, x)
    /\ LET event == IF x \in Form.text THEN "cut" ELSE "paste"
           bound == event \in MouseEvents
       IN  /\ Quietly(Now, [Toggle(Form, x) EXCEPT !.odd = IF bound THEN @ ELSE @ \cup {"unbound"}], {})
           /\ timers' = IF bound THEN timers \cup {[form |-> Now, field |-> x]} ELSE timers
    /\ UNCHANGED <<lost, hist>>

\* The timer reads the field as it is by then.
TimerFires(t) ==
    /\ LET f == dlg[t.form]
           late == ~Editable(f, t.field)
       IN  CallReady(t.form, [Looked(f, t.field) EXCEPT !.odd = IF late THEN @ \cup {"late"} ELSE @])
    /\ timers' = timers \ {t}
    /\ UNCHANGED <<kind, open, sel, req, steps, srv, lost, hist>>

\* The mail addresses and the monitoring box of launch and edit.
TypeMail ==
    /\ UserActs /\ Monitored /\ Form.on
    /\ \E m \in Mails : CallReady(Now, [Form EXCEPT !.mail = m])
    /\ UNCHANGED <<timers, lost, hist>>

ToggleMonitoring ==
    /\ UserActs /\ Monitored
    /\ CallReady(Now, [Form EXCEPT !.on = ~@])
    /\ UNCHANGED <<timers, lost, hist>>

\* leftToRight and rightToLeft, then on_ready of the count on the right.
MoveGroups ==
    /\ UserActs /\ "groups" \in Form.got
    /\ \E S \in (SUBSET Group) \ {Form.right} :
         /\ S \subseteq Form.right \/ Form.right \subseteq S
         /\ CallReady(Now, SetFlag([Form EXCEPT !.right = S, !.odd = @ \ {"no_groups"}], "groups", S # {}))
    /\ UNCHANGED <<timers, lost, hist>>

\* The plus button, with the first key that no row has; the minus button; the
\* select of a row; the fields of a row.
Mine == Monitored /\ sel = Now

\* Mutant: the select of a row changes and the other rows' options do not.
ChangedRow_NoRefresh(f, n, k) ==
    LET rows == [f.rows EXCEPT ![n] = [@ EXCEPT !.key = k, !.ok = TRUE]]
    IN  [f EXCEPT !.rows = rows, !.plus = @ /\ Len(rows) < Cardinality(Monitor)]

AddRow ==
    /\ UserActs /\ Mine /\ Form.plus
    /\ \E k \in Monitor \ UsedKeys(Form.rows) :
         /\ \A j \in Monitor \ UsedKeys(Form.rows) : k <= j
         /\ Quietly(Now, AddItem(Form, k, NoId), {})
    /\ UNCHANGED <<timers, lost, hist>>

DeletedRow(f, n) ==
    LET rows == RemoveAt(f.rows, n)
    IN  [f EXCEPT !.rows = RefreshSelectItem(rows),
                  !.plus = @ \/ Len(rows) < Cardinality(Monitor),
                  !.removed = @ \cup {f.rows[n].stored}]
DeleteRow ==
    /\ UserActs /\ Mine
    /\ \E n \in DOMAIN Form.rows : Quietly(Now, DeletedRow(Form, n), {"rows"})
    /\ UNCHANGED <<timers, lost, hist>>

ChangedRow(f, n, k) ==
    LET rows == [f.rows EXCEPT ![n] = [@ EXCEPT !.key = k, !.ok = TRUE]]
    IN  [f EXCEPT !.rows = RefreshSelectItem(rows),
                  !.plus = @ /\ Len(rows) < Cardinality(Monitor)]
ChangeRow ==
    /\ UserActs /\ Mine
    /\ \E n \in DOMAIN Form.rows : \E k \in Form.rows[n].opts \ {Form.rows[n].key} :
         Quietly(Now, ChangedRow(Form, n, k), {"rows"})
    /\ UNCHANGED <<timers, lost, hist>>

TypeRow ==
    /\ UserActs /\ Mine
    /\ \E n \in DOMAIN Form.rows : CallReady(Now, [Form EXCEPT !.rows[n].ok = ~@])
    /\ UNCHANGED <<timers, lost, hist>>

-----------------------------------------------------------------------------
(* The load balancer's own handlers.                                       *)

\* Mutant: the cookie is given up, its flag is not set.
Algorithm_KeepFlag(f, least) ==
    IF least THEN [f EXCEPT !.leastconn = TRUE]
    ELSE [f EXCEPT !.leastconn = FALSE, !.sticky = FALSE, !.text = @ \ {"cookie_name"}]

\* balance_algorithm: another algorithm than leastconn gives up the cookie.
Algorithm(f, least) ==
    IF least THEN [f EXCEPT !.leastconn = TRUE]
    ELSE [SetFlag(f, "cookie_name", TRUE) EXCEPT !.leastconn = FALSE, !.sticky = FALSE,
                                                 !.text = @ \ {"cookie_name"}]
SelectAlgorithm ==
    /\ UserActs /\ kind = "load_balancer"
    /\ LET f == Algorithm(Form, ~Form.leastconn)
       IN  IF f.leastconn THEN Quietly(Now, f, {}) ELSE CallReady(Now, f)
    /\ UNCHANGED <<timers, lost, hist>>

\* use_sticky_session
Sticky(f, b) ==
    IF b THEN SetFlag([f EXCEPT !.sticky = TRUE], "cookie_name", "cookie_name" \in f.text)
    ELSE SetFlag([f EXCEPT !.sticky = FALSE, !.text = @ \ {"cookie_name"}], "cookie_name", TRUE)
ToggleSticky ==
    /\ UserActs /\ kind = "load_balancer" /\ Form.leastconn
    /\ CallReady(Now, Sticky(Form, ~Form.sticky))
    /\ UNCHANGED <<timers, lost, hist>>

\* load_balancer_protocol: one key alone counts as no key.
Protocol(f, p) ==
    IF p \in {"http", "tcp"}
      THEN [f EXCEPT !.protocol = p, !.text = @ \ Keys, !.flags = @ \cup Keys, !.odd = @ \ {"one_key"}]
      ELSE [f EXCEPT !.protocol = p,
                     !.flags = IF Keys \subseteq f.text THEN @ \cup Keys ELSE @ \ Keys,
                     !.odd = (@ \ {"one_key"})
                             \cup (IF Cardinality(Keys \cap f.text) = 1 THEN {"one_key"} ELSE {})]
SelectProtocol ==
    /\ UserActs /\ kind = "load_balancer"
    /\ \E p \in {"http", "https", "tcp", "ssl"} \ {Form.protocol} : CallReady(Now, Protocol(Form, p))
    /\ UNCHANGED <<timers, lost, hist>>

-----------------------------------------------------------------------------
(* The button.                                                             *)

\* The edit dialog's button also posts the rows of monitor_selector to the vif
\* of the content loaded last; the server deletes the monitors that are not
\* among them.  Without a monitor_selector, or with a row that is not valid,
\* the handler ends before it sends anything.
SentIds(rows) == {rows[n].stored : n \in DOMAIN rows}
Press ==
    /\ open /\ btn /\ steps < StepBound
    /\ Monitored => sel # 0 /\ RowsValid(dlg[sel].rows)
    /\ steps' = steps + 1
    /\ open' = FALSE
    /\ IF kind = "edit"
         THEN LET kept == {k \in srv[sel] : <<sel, k>> \in SentIds(dlg[sel].rows)}
                  gone == {<<sel, k>> : k \in srv[sel] \ kept}
              IN  /\ srv' = [srv EXCEPT ![sel] = kept]
                  /\ lost' = lost \cup (gone \ dlg[sel].removed)
                  /\ hist' = hist \cup (IF Form.quiet \cap {"unset", "stale"} # {} \/ ~Form.loaded \/ sel # Now
                                          THEN {"pressed_early"} ELSE {})
         ELSE UNCHANGED <<srv, lost, hist>>
    /\ UNCHANGED <<kind, dlg, btn, sel, req, timers>>

-----------------------------------------------------------------------------

Init ==
    /\ kind \in Forms
    /\ dlg = <<>> /\ open = FALSE /\ btn = FALSE /\ sel = 0
    /\ req = {} /\ timers = {} /\ steps = 0
    /\ srv \in (IF kind = "edit" THEN [1 .. MaxOpens -> InitStored] ELSE {[g \in 1 .. MaxOpens |-> {}]})
    /\ lost = {} /\ hist = {}

\* Once the last opening is closed, what comes back is not explored.
Explored == open \/ Len(dlg) < OpenBound

Next ==
    \/ OpenDialog \/ Close
    \/ Explored /\ \E q \in req : Load(q) \/ Answer(q) \/ RequestFails(q)
    \/ Explored /\ \E t \in timers : TimerFires(t)
    \/ \E x \in Fields : TypeText(x) \/ MouseText(x)
    \/ TypeMail \/ ToggleMonitoring \/ MoveGroups
    \/ AddRow \/ DeleteRow \/ ChangeRow \/ TypeRow
    \/ SelectAlgorithm \/ ToggleSticky \/ SelectProtocol
    \/ Press

Spec == Init /\ [][Next]_vars

-----------------------------------------------------------------------------
(* Properties.                                                             *)

AnyField == LoadBalancerFields \cup {"volume_size"}
AnyList == {"instance_spec", "ssh_keypair", "groups", "networks", "monitoring_form"}
AnyFlag == AnyField \cup AnyList \cup {"monitoring"}
Row == [key : Monitor, stored : Nat \X Nat, ok : BOOLEAN, opts : SUBSET Monitor]
FormType ==
    [loaded : BOOLEAN, flags : SUBSET AnyFlag, text : SUBSET AnyField,
     mail : Mails, on : BOOLEAN, got : SUBSET AnyList,
     right : SUBSET Group, rows : Seq(Row), plus : BOOLEAN, removed : SUBSET (Nat \X Nat),
     leastconn : BOOLEAN, sticky : BOOLEAN, protocol : {"http", "https", "tcp", "ssl"},
     quiet : SUBSET {"stale", "unset", "select", "rows"},
     odd : SUBSET {"unbound", "late", "one_key", "blank", "no_groups"}]

\* Forms, requests, timers and what the server stores have their types, and
\* requests, timers and the monitor selector are of forms that were opened.
TypeOK ==
    /\ dlg \in Seq(FormType) /\ Len(dlg) <= MaxOpens
    /\ open \in BOOLEAN /\ (open => dlg # <<>>) /\ btn \in BOOLEAN
    /\ sel \in 0 .. Len(dlg)
    /\ req \subseteq [form : 1 .. Len(dlg), what : AnyList \cup {"content"}]
    /\ timers \subseteq [form : 1 .. Len(dlg), field : AnyField]
    /\ steps \in Nat
    /\ srv \in [1 .. MaxOpens -> SUBSET Monitor]
    /\ lost \subseteq Nat \X Nat
    /\ hist \subseteq {"foreign", "added_early", "failed", "pressed_early"}

\* What the form must hold to be sent.
Complete(f) ==
    /\ "display_name" \in Fields => "display_name" \in f.text
    /\ kind = "launch" => {"instance_spec", "ssh_keypair", "networks"} \subseteq f.got /\ f.right # {}
    /\ kind = "edit" => {"monitoring_form", "networks"} \subseteq f.got
                        /\ ("groups" \in f.got => f.right # {})
    /\ Monitored => MonitoringOk(f, f.rows)
    /\ kind = "register" => f.right # {}
    /\ kind = "network" => "networks" \in f.got
    /\ kind = "volume" => "volume_size" \in f.text
    /\ kind = "load_balancer" => /\ {"load_balancer_port", "instance_port"} \subseteq f.text
                                 /\ f.sticky => "cookie_name" \in f.text
                                 /\ Secure(f) => Keys \subseteq f.text

\* In the visible dialog the button is enabled exactly when the form can be
\* sent.  The exceptions are the changes after which the scripts do not call
\* ready() (quiet: the list of specs or key pairs arrives last, a monitor row
\* goes, the edit dialog before any answer, an earlier dialog's answer or
\* timer), the 100 ms of a timer, and flags left behind (odd: a mouse paste or
\* cut without a handler; in the load balancer one of two keys at a change
\* between https and ssl, and a paste whose field was emptied meanwhile; the
\* edit dialog of an object stored with a blank name, until the field is looked
\* at, and of an instance stored without groups, until some are moved).
ButtonTellsTheTruth ==
    open /\ Form.loaded /\ Form.quiet = {} /\ Form.odd = {} /\ (\A t \in timers : t.form # Now)
        /\ (Monitored => sel = Now)
      => (btn <=> Complete(Form))

\* An update of an instance deletes no monitor whose row the user did not
\* delete, unless its button was pressed before ready() had run for this
\* dialog, or after an earlier dialog's ready() had enabled it, or the content
\* of an earlier dialog was loaded after that of this one.
NoMonitorLost == lost # {} => "pressed_early" \in hist

\* No two monitor rows have the same key and every row is of the dialog's own
\* vif, unless the answer of an earlier dialog arrived in this one or a row was
\* added before the stored ones came; and the plus button is enabled exactly
\* when a key is left.
MonitorsDistinct ==
    Monitored /\ sel # 0 /\ hist \cap {"foreign", "added_early"} = {}
      => LET f == dlg[sel]
         IN  /\ \A n \in DOMAIN f.rows : /\ f.rows[n].stored[1] \in {0, sel}
                                         /\ \A m \in DOMAIN f.rows : f.rows[n].key = f.rows[m].key => n = m
             /\ f.plus <=> UsedKeys(f.rows) # Monitor

=============================================================================
