----------------------------- MODULE GuiSingle -----------------------------
(***************************************************************************)
(* The list pages of the end-user web GUI whose rows have a radio button:  *)
(* machine images, load balancers, security groups, ssh key pairs, users   *)
(* and groups.  At most one row is selected and #detail shows one detail.  *)
(* Dialogs are opened for a row; some of the load balancer's read the      *)
(* selected row again when their button is pressed.                        *)
(*                                                                         *)
(* Each action is a whole handler of the browser, or the server working on *)
(* one request.  A request is served when the server reads or changes its  *)
(* rows, and answered when the browser runs the handler, in any order.     *)
(***************************************************************************)
EXTENDS Integers, Sequences, FiniteSets, SequencesExt

CONSTANTS Panels,       \* the pages explored
          Id,           \* uuids, as numbers from 1: the server lists them in order
          Row,          \* maxrow
          MaxPage,      \* bound on the page numbers
          MaxClicks,    \* bound on the clicks of the user
          MaxRequests   \* bound on the requests in flight

ASSUME SingleAssumption == /\ Panels \subseteq {"image", "load_balancer", "security_group",
                                             "keypair", "user", "group"}
                           /\ Id \subseteq Nat \ {0} /\ IsFiniteSet(Id)
                           /\ Row \in Nat \ {0}
                           /\ {MaxPage, MaxClicks, MaxRequests} \subseteq Nat

VARIABLES
    panel,    \* which page this is
    srv,      \* the rows of the server: existing id -> state
    cur,      \* c_pagenate.current_page
    rows,     \* the table: id -> the text of its .state cell
    radio,    \* the selected radio button, or Nil
    det,      \* the id whose detail #detail shows, or Nil
    req,      \* the requests in flight, in the order they were sent
    masked,   \* #list_load_mask
    btn,      \* the enabled dialog buttons and action menu
    dlg,      \* the open dialog: its name and the row it was opened for
    clicks,   \* clicks so far
    sent,     \* history: the dialog and the target of the last request it sent
    hist      \* history: what has happened that the properties except

vars == <<panel, srv, cur, rows, radio, det, req, masked, btn, dlg, clicks, sent, hist>>

Nil == 0                                     \* no row: null in the script
Closed == [name |-> "none", id |-> Nil]

-----------------------------------------------------------------------------
(* The panels.                                                             *)

\* Row states; "foreign" is an available image of another owner.
PanelState(p) ==
    CASE p = "image"         -> {"available", "foreign", "pending"}
      [] p = "load_balancer" -> {"running", "halted"}
      [] p \in {"security_group", "keypair", "user", "group"} -> {"present"}

StateOf(i) == IF i \in DOMAIN rows THEN rows[i] ELSE ""

\* The subscribers of checked_radio.
ImageButtons(i) ==
    {b \in {"launch", "delete"} : \/ StateOf(i) = "available"
                                  \/ b = "launch" /\ StateOf(i) = "foreign"}
LoadBalancerButtons(i) == IF StateOf(i) \in {"running", "halted"} THEN {"menu"} ELSE {}
RadioButtons(i) ==
    CASE panel = "image"         -> ImageButtons(i)
      [] panel = "load_balancer" -> LoadBalancerButtons(i)
      [] OTHER                   -> {"delete"}

\* The subscribers of change_pagenate: the load balancer panel has none.
PageDisables == IF panel = "load_balancer" THEN {} ELSE {"launch", "delete"}

\* The dialogs a click can open.  The images look whether the button is
\* disabled; the delete links of the next four panels only whether a row is
\* selected, since a disabled link still runs its click handler.
ImageOpens ==
    {[name |-> d, id |-> radio] : d \in {"launch", "delete"} \cap btn \cap {b \in btn : radio # Nil}}
    \cup {[name |-> "edit", id |-> i] : i \in {j \in DOMAIN rows : rows[j] # "foreign"}}

\* Mutant: the delete link does not look whether a row is selected.
SelectedOpens_NoCheck(d) == {[name |-> d, id |-> radio]}

\* The menu opens "delete" whatever the state of the row, and passes the
\* selected row on even when there is none.
LoadBalancerOpens ==
    {[name |-> d, id |-> radio] :
        d \in {a \in {"register", "unregister", "delete", "poweron", "poweroff", "active_standby"} :
                 /\ "menu" \in btn
                 /\ CASE a = "delete"  -> TRUE
                      [] a = "poweron" -> StateOf(radio) = "halted"
                      [] OTHER         -> StateOf(radio) = "running"}}
    \cup {[name |-> "edit", id |-> i] : i \in {j \in DOMAIN rows : rows[j] = "running"}}
    \cup {[name |-> "create", id |-> Nil]}

RowOpens(d) == {[name |-> d, id |-> i] : i \in DOMAIN rows}
SelectedOpens(d) == {[name |-> d, id |-> i] : i \in {radio} \ {Nil}}

SecurityGroupOpens == RowOpens("edit") \cup SelectedOpens("delete") \cup {[name |-> "create", id |-> Nil]}
KeypairOpens == RowOpens("edit") \cup SelectedOpens("delete") \cup {[name |-> "create", id |-> Nil]}
UserOpens == RowOpens("edit") \cup RowOpens("link") \cup SelectedOpens("delete")
\* The data centre's own account, here the first row, is not edited or deleted.
GroupOpens == RowOpens("link")
              \cup {d \in RowOpens("edit") \cup SelectedOpens("delete") : d.id # 1}

PanelOpens ==
    CASE panel = "image"          -> ImageOpens
      [] panel = "load_balancer"  -> LoadBalancerOpens
      [] panel = "security_group" -> SecurityGroupOpens
      [] panel = "keypair"        -> KeypairOpens
      [] panel = "user"           -> UserOpens
      [] panel = "group"          -> GroupOpens

\* An edit link also ticks its row's radio button, without a click on it.  In
\* the tables of users and groups the button has another id: nothing happens.
LoadBalancerTicks(d) == IF d.name = "edit" THEN d.id ELSE radio
OtherTicks(d) == IF d.name = "edit" /\ panel \in {"security_group", "keypair"} THEN d.id ELSE radio
OpenTicks(d) == IF panel = "load_balancer" THEN LoadBalancerTicks(d) ELSE OtherTicks(d)

\* The row a dialog's button acts on.  Most dialogs carry the id; these of the
\* load balancer ask the list which row is selected.
LoadBalancerTarget(d) ==
    IF d.name \in {"edit", "register", "unregister", "poweron", "poweroff", "active_standby"}
      THEN radio ELSE d.id
SubmitTarget(d) == IF panel = "load_balancer" THEN LoadBalancerTarget(d) ELSE d.id

\* What a refresh handler does after it has asked for the list: it removes the
\* detail of the selected row, and disables buttons, or not.  Users and groups
\* loop over checked_list instead, which is empty in these panels.
ImageRefresh == [clears |-> TRUE, off |-> {"launch", "delete"}]
LoadBalancerRefresh == [clears |-> TRUE, off |-> {}]
SecurityGroupRefresh == [clears |-> TRUE, off |-> {"delete"}]
KeypairRefresh == [clears |-> TRUE, off |-> {"delete"}]
UserRefresh == [clears |-> FALSE, off |-> {}]
GroupRefresh == [clears |-> FALSE, off |-> {}]

PanelRefresh ==
    CASE panel = "image"          -> ImageRefresh
      [] panel = "load_balancer"  -> LoadBalancerRefresh
      [] panel = "security_group" -> SecurityGroupRefresh
      [] panel = "keypair"        -> KeypairRefresh
      [] panel = "user"           -> UserRefresh
      [] panel = "group"          -> GroupRefresh

-----------------------------------------------------------------------------
(* Requests.  `ans' is what the server answered, once it has.              *)

Unserved == [done |-> FALSE, rows |-> <<>>]
Served(r) == [done |-> TRUE, rows |-> r]

ListRequest(p) == [kind |-> "list", arg |-> p, ans |-> Unserved]
DetailRequest(i) == [kind |-> "detail", arg |-> i, ans |-> Unserved]
PostRequest(d, i) == [kind |-> d, arg |-> i, ans |-> Unserved]

InFlight(kinds) == {n \in DOMAIN req : req[n].kind \in kinds}
Quiet == req = <<>>

Note(what, cond) == IF cond THEN {what} ELSE {}

\* The list of all key pairs has come, r are left in flight, and the server
\* has not worked on the new key pair yet.
ListsAllEarly(r) == /\ panel = "keypair"
                    /\ \A n \in DOMAIN r : r[n].kind # "all"
                    /\ \E n \in DOMAIN r : r[n].kind = "create" /\ ~r[n].ans.done

Send(r, q) == Len(r) + Len(q) <= MaxRequests /\ req' = r \o q

\* Mutant: the detail of the selected row is not removed.
Refresh_KeepDetail(r, p, d, off) ==
    /\ Send(r, <<ListRequest(p)>>)
    /\ det' = d
    /\ btn' = (btn \ PanelRefresh.off) \ off
    /\ masked' = TRUE
    /\ hist' = hist \cup Note("crossed", InFlight({"detail"}) # {})
                    \cup Note("raced", ListsAllEarly(r))

\* The refresh handler, for page p, when #detail shows d and the requests r
\* are in flight; `off' is what its caller disables besides.
Refresh(r, p, d, off) ==
    /\ Send(r, <<ListRequest(p)>>)
    /\ det' = IF PanelRefresh.clears /\ d = radio THEN Nil ELSE d
    /\ btn' = (btn \ PanelRefresh.off) \ off
    /\ masked' = TRUE
    /\ hist' = hist \cup Note("crossed", InFlight({"detail"}) # {})
                    \cup Note("raced", ListsAllEarly(r))

-----------------------------------------------------------------------------
(* The user.                                                               *)

UserClicks == ~masked /\ dlg = Closed /\ clicks < MaxClicks /\ clicks' = clicks + 1

\* singleCheckList: the buttons, then the detail.
Select(i) ==
    /\ UserClicks
    /\ i \in DOMAIN rows
    /\ radio' = i
    /\ btn' = RadioButtons(i)
    /\ Send(req, <<DetailRequest(i)>>)
    /\ masked' = TRUE
    /\ hist' = (hist \ {"ticked"}) \cup Note("crossed", InFlight({"detail", "list"}) # {})
    /\ UNCHANGED <<panel, srv, cur, rows, det, dlg, sent>>

ClickRefresh ==
    /\ UserClicks
    /\ Refresh(req, cur, det, {})
    /\ UNCHANGED <<panel, srv, cur, rows, radio, dlg, sent>>

\* The pager, whose own logic is in GuiList: #detail is emptied, the refresh
\* handler runs, and change_pagenate disables the buttons.
ChangePage ==
    /\ UserClicks
    /\ \E p \in 1 .. MaxPage : cur' = p /\ Refresh(req, p, Nil, PageDisables)
    /\ UNCHANGED <<panel, srv, rows, radio, dlg, sent>>

OpenDialog ==
    /\ UserClicks
    /\ \E d \in PanelOpens :
         /\ dlg' = d
         /\ radio' = OpenTicks(d)
         /\ hist' = (hist \ {"redrawn"}) \cup Note("ticked", radio' # radio)
    /\ UNCHANGED <<panel, srv, cur, rows, det, req, masked, btn, sent>>

\* The edit link of a load balancer that is not running is disabled and opens
\* nothing, but its click handler ticks the row.
TickRow ==
    /\ UserClicks /\ panel = "load_balancer"
    /\ \E i \in DOMAIN rows : rows[i] # "running" /\ radio' = i
    /\ hist' = hist \cup Note("ticked", radio' # radio)
    /\ UNCHANGED <<panel, srv, cur, rows, det, req, masked, btn, dlg, sent>>

CloseDialog ==
    /\ dlg # Closed
    /\ dlg' = Closed
    /\ UNCHANGED <<panel, srv, cur, rows, radio, det, req, masked, btn, clicks, sent, hist>>

\* Mutant: after the post of a new key pair nothing asks for the list.
KeypairCreates_NoList(d) == FALSE

\* The dialog's button.  A new key pair is posted, and without waiting for it
\* the list of all key pairs is asked for: that answer triggers the refresh.
KeypairCreates(d) == panel = "keypair" /\ d.name = "create"

Submit ==
    /\ dlg # Closed
    /\ Send(req, <<PostRequest(dlg.name, SubmitTarget(dlg))>>
                 \o (IF KeypairCreates(dlg) THEN <<PostRequest("all", Nil)>> ELSE <<>>))
    /\ sent' = [dialog |-> dlg, target |-> SubmitTarget(dlg), redrawn |-> "redrawn" \in hist]
    /\ dlg' = Closed
    /\ UNCHANGED <<panel, srv, cur, rows, radio, det, masked, btn, clicks, hist>>

-----------------------------------------------------------------------------
(* The server.                                                             *)

Position(i) == Cardinality({j \in DOMAIN srv : j <= i})
PageRows(p) == [i \in {j \in DOMAIN srv : Position(j) \in (p - 1) * Row + 1 .. p * Row} |-> srv[i]]

Effect(r) ==
    CASE r.kind = "create" -> \E i \in Id \ DOMAIN srv, s \in PanelState(panel) :
                                 srv' = [j \in DOMAIN srv \cup {i} |-> IF j = i THEN s ELSE srv[j]]
      [] r.kind = "delete" -> srv' = [j \in DOMAIN srv \ {r.arg} |-> srv[j]]
      [] r.kind \in {"poweron", "poweroff"} ->
            srv' = [j \in DOMAIN srv |-> IF j # r.arg THEN srv[j]
                                         ELSE IF r.kind = "poweron" THEN "running" ELSE "halted"]
      [] OTHER -> srv' = srv

Serve(n) ==
    /\ ~req[n].ans.done
    /\ req' = [req EXCEPT ![n].ans = Served(IF req[n].kind = "list" THEN PageRows(req[n].arg) ELSE <<>>)]
    /\ Effect(req[n])
    /\ UNCHANGED <<panel, cur, rows, radio, det, masked, btn, dlg, clicks, sent, hist>>

-----------------------------------------------------------------------------
(* The answers.                                                            *)

Completed(n) == req' = RemoveAt(req, n) /\ masked' = FALSE

\* The table is rendered anew: no radio button is selected in it.
ListAnswer(n) ==
    /\ req[n].kind = "list" /\ req[n].ans.done
    /\ Completed(n)
    /\ rows' = req[n].ans.rows
    /\ radio' = Nil
    /\ hist' = hist \cup Note("overtaken", \E m \in InFlight({"list"}) : m < n)
                    \cup Note("redrawn", dlg # Closed)
    /\ UNCHANGED <<panel, srv, cur, det, btn, dlg, clicks, sent>>

\* The detail replaces what #detail shows, whichever row is selected by now.
DetailAnswer(n) ==
    /\ req[n].kind = "detail" /\ req[n].ans.done
    /\ Completed(n)
    /\ det' = req[n].arg
    /\ UNCHANGED <<panel, srv, cur, rows, radio, btn, dlg, clicks, sent, hist>>

UpdateFails(n) ==
    /\ req[n].kind \in {"list", "detail"} /\ "failed" \notin hist
    /\ Completed(n)
    /\ hist' = hist \cup {"failed"}
    /\ UNCHANGED <<panel, srv, cur, rows, radio, det, btn, dlg, clicks, sent>>

\* Success handlers: the refresh, but for the post of a new key pair.  The
\* user and group panels disable their delete link after a delete.
PostAnswer(n) ==
    /\ req[n].kind \notin {"list", "detail"} /\ req[n].ans.done
    /\ IF panel = "keypair" /\ req[n].kind = "create"
         THEN req' = RemoveAt(req, n) /\ UNCHANGED <<det, btn, masked, hist>>
         ELSE Refresh(RemoveAt(req, n), cur, det,
                      IF panel \in {"user", "group"} /\ req[n].kind = "delete" THEN {"delete"} ELSE {})
    /\ UNCHANGED <<panel, srv, cur, rows, radio, dlg, clicks, sent>>

\* The server refuses a request, or its answer is lost on the way back.
PostFails(n) ==
    /\ req[n].kind \notin {"list", "detail"} /\ "failed" \notin hist
    /\ req' = RemoveAt(req, n)
    /\ hist' = hist \cup Note("failed", req[n].ans.done \/ req[n].kind = "all")
    /\ UNCHANGED <<panel, srv, cur, rows, radio, det, masked, btn, dlg, clicks, sent>>

-----------------------------------------------------------------------------

Init ==
    /\ panel \in Panels
    /\ \E s \in PanelState(panel) : srv = [i \in {1, 2} |-> s]
    /\ cur = 1 /\ rows = <<>> /\ radio = Nil /\ det = Nil
    /\ req = <<ListRequest(1)>> /\ masked = TRUE
    /\ btn = {} /\ dlg = Closed /\ clicks = 0
    /\ sent = [dialog |-> Closed, target |-> Nil, redrawn |-> FALSE] /\ hist = {}

Answer(n) == ListAnswer(n) \/ DetailAnswer(n) \/ UpdateFails(n) \/ PostAnswer(n) \/ PostFails(n)

Next ==
    \/ \E i \in Id : Select(i)
    \/ ClickRefresh \/ ChangePage \/ OpenDialog \/ TickRow \/ CloseDialog \/ Submit
    \/ \E n \in DOMAIN req : Serve(n) \/ Answer(n)

Spec == Init /\ [][Next]_vars

-----------------------------------------------------------------------------
(* Properties.                                                             *)

\* A dialog's request is for the row the dialog was opened for, and a dialog
\* about a row has one.  The load balancer's dialogs that ask the list again
\* may find no row, when the table was rendered anew behind the dialog, but
\* never another row; and its menu, left enabled over a new table, offers the
\* delete dialog for no row.
TargetIsTheDialogs ==
    /\ \/ sent.target = sent.dialog.id
       \/ panel = "load_balancer" /\ sent.target = Nil /\ sent.redrawn
    /\ \/ dlg.name \in {"none", "create"}
       \/ dlg.id # Nil
       \/ panel = "load_balancer" /\ dlg.name = "delete"

\* Once nothing is in flight, #detail shows the selected row, unless the row
\* was ticked by an edit link; and it shows nothing when nothing is selected,
\* in the panels whose refresh removes the detail.  Requests that crossed each
\* other, or failed, are excepted: the last answer wins.
DetailIsOfSelected ==
    Quiet /\ hist \cap {"crossed", "failed", "ticked"} = {}
        => /\ radio # Nil => det = radio
           /\ radio = Nil /\ PanelRefresh.clears => det = Nil

\* Once nothing is in flight, the table shows the rows the server has, what
\* the user's own requests did included: each success handler asks for the
\* list again.  A new key pair is not seen when the list of all key pairs was
\* answered before the post was worked on.  Lost or overtaken answers are
\* excepted.
OwnWritesAreSeen ==
    Quiet /\ hist \cap {"overtaken", "failed", "raced"} = {} => rows = PageRows(cur)

=============================================================================
