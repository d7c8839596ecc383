------------------------------ MODULE GuiList ------------------------------
(***************************************************************************)
(* The list pages of the end-user web GUI whose rows have a check box:     *)
(* instances, volumes, backups, networks, host nodes and storage nodes     *)
(* (frontend/dcmgr_gui/public/javascripts/dcmgr_gui).  core.js gives every *)
(* page a List, a Pagenate, a Detail per checked row, one load mask and a  *)
(* publish/subscribe Notification; the panel scripts add the refresh       *)
(* handler, the buttons and the dialogs.                                   *)
(*                                                                         *)
(* The browser runs one handler at a time, so every action is a whole      *)
(* handler.  What races is the user, the answers of the requests in        *)
(* flight, which arrive in any order or fail, and the rows of the server.  *)
(***************************************************************************)
EXTENDS Integers, Sequences, FiniteSets, SequencesExt

CONSTANTS Panels,      \* the pages explored, among the names of PanelState
          Id,          \* uuids, as numbers: the server lists them in order
          Row,         \* maxrow, the rows of one page
          MaxPage,     \* bound on the page number the user types
          InitRows,    \* the sets of rows the server may start with
          MaxClicks,   \* bound on the clicks of the user on the page
          MaxRequests, \* bound on the requests in flight
          MaxChanges   \* bound on the changes of rows at the server

ASSUME ListAssumption == /\ Panels \subseteq {"instance", "volume", "backup", "network", "host_node",
                                        "storage_node"}
                         /\ Id \subseteq Nat /\ IsFiniteSet(Id)
                         /\ Row \in Nat \ {0}
                         /\ InitRows \subseteq SUBSET Id
                         /\ {MaxPage, MaxClicks, MaxRequests, MaxChanges} \subseteq Nat

VARIABLES
    panel,    \* which page this is
    srv,      \* the rows of the server: existing id -> state
    changes,  \* server changes so far
    cur,      \* c_pagenate.current_page
    total,    \* c_pagenate.total, of the last list answer
    arrows,   \* which of "prev" and "next" are enabled
    rows,     \* the table in the page: id -> the text of its .state cell
    dom,      \* ids whose check box is ticked in the table
    chk,      \* c_list.checked_list: its keys, in the order they were added
    att,      \* checked ids whose remembered <tr> is still in the table
    det,      \* how many copies of an id's detail #detail holds
    req,      \* the requests in flight, in the order they were sent
    masked,   \* #list_load_mask covers the buttons, the pager and the table
    btn,      \* the enabled dialog buttons and action menu
    dlg,      \* the modal dialog that is open, or "none"
    clicks,   \* clicks so far
    shown,    \* history: the page the table was rendered for
    hist      \* history: what has happened that the properties except

server == <<srv, changes>>
pager == <<cur, total, arrows>>
table == <<rows, dom, shown>>
selection == <<chk, att, det>>
vars == <<panel, server, pager, table, selection, req, masked, btn, dlg, clicks, hist>>

-----------------------------------------------------------------------------
(* The panels.                                                             *)

\* The row states a page can show.
PanelState(p) ==
    CASE p = "instance" -> {"running", "halted", "starting"}
      [] p = "volume"   -> {"available", "attached", "deleting", "creating"}
      [] p = "backup"   -> {"available", "deleting", "creating"}
      [] p \in {"network", "host_node", "storage_node"} -> {"online"}

\* changeButtonState of the three panels that have buttons, given the set S
\* of states the ticked rows show.
InstanceButtons(S) ==
    {b \in {"menu", "backup"} : /\ S # {}
                                /\ b = "menu" => S \subseteq {"running", "stopped", "halted"}
                                /\ b = "backup" => S \subseteq {"halted"}}

VolumeButtons(S) ==
    IF S \subseteq {"available", "attached", "deleting"}
      THEN {b \in {"delete", "backup", "menu"} :
              \/ b # "menu" /\ "available" \in S
              \/ b = "menu" /\ ("available" \in S) # ("attached" \in S)
              \/ b = "delete" /\ "deleting" \in S}
      ELSE {}

BackupButtons(S) ==
    {b \in {"create", "delete"} :
        \/ "available" \in S /\ S \subseteq {"available", "deleting"}
        \/ b = "delete" /\ "deleting" \in S}

PanelButtons(S) ==
    CASE panel = "instance" -> InstanceButtons(S)
      [] panel = "volume"   -> VolumeButtons(S)
      [] panel = "backup"   -> BackupButtons(S)
      [] OTHER              -> {}

\* Mutant: the volume panel forgets to subscribe its action menu.
VolumePageDisables_NoMenu == {"delete", "backup"}

\* The subscriptions to change_pagenate: the buttons a change of page disables.
\* The backup panel subscribes its delete button only.
InstancePageDisables == {"menu", "backup"}
VolumePageDisables == {"delete", "backup", "menu"}
BackupPageDisables == {"delete"}

PageDisables ==
    CASE panel = "instance" -> InstancePageDisables
      [] panel = "volume"   -> VolumePageDisables
      [] panel = "backup"   -> BackupPageDisables
      [] OTHER              -> {}

\* The state cells of the ticked rows, and of one checked id: '' when its row
\* is not in the table.
TickedStates(d) == {rows[i] : i \in d}
StateOf(i) == IF i \in DOMAIN rows THEN rows[i] ELSE ""

\* The dialogs a click can open now.  open() refuses an empty list of ids.
\* The action menu of the instances reads the ticked boxes, their backup
\* button the checked list.
InstanceOpens ==
    {d \in {"action", "poweroff", "poweron", "backup", "edit"} :
        CASE d = "edit"   -> \E i \in DOMAIN rows : rows[i] \in {"running", "stopped", "halted"}
          [] d = "backup" -> "backup" \in btn /\ chk # <<>>
          [] OTHER -> /\ "menu" \in btn /\ dom # {}
                      /\ d = "poweroff" => "halted" \notin TickedStates(dom)
                      /\ d = "poweron" => "running" \notin TickedStates(dom)}

\* $.each over the object {'ids': [...]} visits the array once, and the
\* selector made of it names the row of the first id only.
VolumeOpens ==
    {d \in {"create", "delete", "backup", "attach", "detach", "edit"} :
        CASE d = "create" -> TRUE
          [] d = "edit"   -> rows # <<>>
          [] d \in {"delete", "backup"} -> d \in btn /\ chk # <<>>
          [] d = "attach" -> "menu" \in btn /\ chk # <<>> /\ StateOf(chk[1]) = "available"
          [] d = "detach" -> "menu" \in btn /\ chk # <<>> /\ StateOf(chk[1]) = "attached"}

BackupOpens ==
    {d \in {"create", "delete", "edit"} :
        IF d = "edit" THEN rows # <<>> ELSE d \in btn /\ chk # <<>>}

NetworkOpens == {"create"} \cup (IF rows # <<>> THEN {"edit"} ELSE {})

PanelOpens ==
    CASE panel = "instance" -> InstanceOpens
      [] panel = "volume"   -> VolumeOpens
      [] panel = "backup"   -> BackupOpens
      [] panel = "network"  -> NetworkOpens
      [] OTHER              -> {}

\* The buttons the success handler of a dialog's request disables before it
\* triggers the refresh.
SubmitDisables(d) == IF panel \in {"volume", "backup"} /\ d = "delete" THEN {"delete"} ELSE {}

-----------------------------------------------------------------------------
(* Requests, and the server that answers them.                             *)

ListRequest(p) == [kind |-> "list", arg |-> p, off |-> {}]
DetailRequest(i) == [kind |-> "detail", arg |-> i, off |-> {}]
PostRequest(d) == [kind |-> "post", arg |-> 0, off |-> SubmitDisables(d)]

Updates == {"list", "detail"}     \* sent through ContentBase.update
InFlight(kinds) == {n \in DOMAIN req : req[n].kind \in kinds}
DetailInFlight(i) == \E n \in InFlight({"detail"}) : req[n].arg = i

\* The list handlers answer `limit' rows from `start', and the total.
Position(i) == Cardinality({j \in DOMAIN srv : j <= i})
StartCount(p) == (p - 1) * Row + 1
PageIds(p) == {i \in DOMAIN srv : Position(i) \in StartCount(p) .. StartCount(p) + Row - 1}

PageCount(t) == (t + Row - 1) \div Row

\* What the history records: an id's detail asked for while one is in flight,
\* and buttons left enabled over an emptied checked list.
Note(what, cond) == IF cond THEN {what} ELSE {}
RefreshNotes == Note("again", panel # "instance" /\ \E i \in ToSet(chk) : DetailInFlight(i))
                \cup Note("orphan", panel = "instance" /\ btn # {})

-----------------------------------------------------------------------------
(* Pieces of handlers.                                                     *)

\* ContentBase.update, for a sequence q of requests, when r are in flight.
Send(r, q) ==
    /\ Len(r) + Len(q) <= MaxRequests
    /\ req' = r \o q

\* The refresh handler of a panel, run when the requests r are in flight and
\* with the checked list c and the details d that its caller leaves.  Every
\* panel asks for the list of the current page p first.  The instance panel
\* then empties the checked list and #detail, so that its loop over the
\* checked list finds nothing; the other panels drop each checked row's detail
\* and ask for it again.
ClearingRefresh(r, p) ==
    /\ Send(r, <<ListRequest(p)>>)
    /\ chk' = <<>> /\ att' = {}
    /\ det' = [i \in Id |-> 0]

KeepingRefresh(r, p, c, d) ==
    /\ Send(r, <<ListRequest(p)>> \o [n \in DOMAIN c |-> DetailRequest(c[n])])
    /\ chk' = c /\ att' = att \cap ToSet(c)
    /\ det' = [i \in Id |-> IF i \in ToSet(c) THEN 0 ELSE d[i]]

InstanceRefresh(r, p) == ClearingRefresh(r, p)
VolumeRefresh(r, p, c, d) == KeepingRefresh(r, p, c, d)
BackupRefresh(r, p, c, d) == KeepingRefresh(r, p, c, d)
NetworkRefresh(r, p, c, d) == KeepingRefresh(r, p, c, d)
HostNodeRefresh(r, p, c, d) == KeepingRefresh(r, p, c, d)
StorageNodeRefresh(r, p, c, d) == KeepingRefresh(r, p, c, d)

Refresh(r, p, c, d) ==
    /\ CASE panel = "instance"     -> InstanceRefresh(r, p)
         [] panel = "volume"       -> VolumeRefresh(r, p, c, d)
         [] panel = "backup"       -> BackupRefresh(r, p, c, d)
         [] panel = "network"      -> NetworkRefresh(r, p, c, d)
         [] panel = "host_node"    -> HostNodeRefresh(r, p, c, d)
         [] panel = "storage_node" -> StorageNodeRefresh(r, p, c, d)
    /\ masked' = TRUE

\* Mutant: the page is asked for before current_page is changed.
UpdatePage_Swapped(p) ==
    /\ cur' = p
    /\ Refresh(req, cur, <<>>, [i \in Id |-> 0])
    /\ btn' = btn \ PageDisables
    /\ arrows' = (IF p # 1 THEN {"prev"} ELSE {})
                 \cup (IF p = 1 \/ p # PageCount(total) THEN {"next"} ELSE {})
    /\ hist' = hist \cup Note("orphan", panel = "backup" /\ btn' # {})
    /\ UNCHANGED <<panel, server, total, table, dlg>>

\* updatePage: the selection is given up, page p is asked for, and
\* change_pagenate disables the buttons; then changeArrowButton.
UpdatePage(p) ==
    /\ cur' = p
    /\ Refresh(req, p, <<>>, [i \in Id |-> 0])
    /\ btn' = btn \ PageDisables
    /\ arrows' = (IF p # 1 THEN {"prev"} ELSE {})
                 \cup (IF p = 1 \/ p # PageCount(total) THEN {"next"} ELSE {})
    /\ hist' = hist \cup Note("orphan", panel = "backup" /\ btn' # {})
    /\ UNCHANGED <<panel, server, total, table, dlg>>

\* The overlay takes every mouse click on the page while it is there.
UserClicks == ~masked /\ dlg = "none" /\ clicks < MaxClicks /\ clicks' = clicks + 1

-----------------------------------------------------------------------------
(* The user.                                                               *)

\* A check box is ticked (multiCheckList): the buttons are recomputed first,
\* then the row enters the checked list and its detail is asked for.
Check(i) ==
    /\ UserClicks
    /\ i \in DOMAIN rows \ dom
    /\ dom' = dom \cup {i}
    /\ btn' = PanelButtons(TickedStates(dom'))
    /\ chk' = IF i \in ToSet(chk) THEN chk ELSE Append(chk, i)
    /\ att' = att \cup {i}
    /\ Send(req, <<DetailRequest(i)>>)
    /\ masked' = TRUE
    /\ hist' = hist \cup Note("again", DetailInFlight(i))
                    \cup Note("late_click", InFlight({"list"}) # {})
    /\ UNCHANGED <<panel, server, pager, rows, shown, det, dlg>>

\* A check box is cleared: the detail goes if the row is in the checked list.
Uncheck(i) ==
    /\ UserClicks
    /\ i \in dom
    /\ dom' = dom \ {i}
    /\ btn' = PanelButtons(TickedStates(dom'))
    /\ chk' = RemoveFirst(chk, i)
    /\ att' = att \ {i}
    /\ det' = [det EXCEPT ![i] = IF i \in ToSet(chk) THEN 0 ELSE @]
    /\ hist' = hist \cup Note("late_click", InFlight({"list"}) # {})
    /\ UNCHANGED <<panel, server, pager, rows, shown, req, masked, dlg>>

\* The refresh link.
ClickRefresh ==
    /\ UserClicks
    /\ Refresh(req, cur, chk, det)
    /\ hist' = hist \cup RefreshNotes
    /\ UNCHANGED <<panel, server, pager, table, btn, dlg>>

\* The arrows: an enabled one may still leave the page where it is.
ClickNext ==
    /\ UserClicks
    /\ "next" \in arrows
    /\ UpdatePage(IF cur >= 1 /\ cur < PageCount(total) THEN cur + 1 ELSE cur)

ClickPrev ==
    /\ UserClicks
    /\ "prev" \in arrows
    /\ UpdatePage(IF cur > 1 /\ cur <= PageCount(total) THEN cur - 1 ELSE cur)

\* Enter in the page number field, which is there once a list has been shown:
\* the number is taken as it is.
TypePage ==
    /\ UserClicks
    /\ \E p \in 1 .. MaxPage : UpdatePage(p)

OpenDialog ==
    /\ UserClicks
    /\ dlg' \in PanelOpens
    /\ UNCHANGED <<panel, server, pager, table, selection, req, masked, btn, hist>>

CloseDialog ==
    /\ dlg # "none"
    /\ dlg' = "none"
    /\ UNCHANGED <<clicks, panel, server, pager, table, selection, req, masked, btn, hist>>

\* The dialog's own button: the request leaves and the dialog closes.  The
\* backup panel writes 'deleting' at once into the rows it still holds.
Submit ==
    /\ dlg # "none"
    /\ Send(req, <<PostRequest(dlg)>>)
    /\ rows' = IF panel = "backup" /\ dlg = "delete"
                 THEN [i \in DOMAIN rows |-> IF i \in att THEN "deleting" ELSE rows[i]]
                 ELSE rows
    /\ dlg' = "none"
    /\ UNCHANGED <<clicks, panel, server, pager, dom, shown, selection, masked, btn, hist>>

-----------------------------------------------------------------------------
(* The answers.                                                            *)

\* ContentBase.update's `complete' lifts the one mask of the page, whatever
\* else is in flight.
Completed(n) ==
    /\ req' = RemoveAt(req, n)
    /\ masked' = FALSE
    /\ UNCHANGED <<clicks, panel, server, dlg>>

\* Mutant: the checked rows are not ticked again in the new table.
ListAnswer_NoTicks(n) ==
    /\ req[n].kind = "list"
    /\ Completed(n)
    /\ total' = Cardinality(DOMAIN srv)
    /\ arrows' = (arrows \ {"next"}) \cup Note("next", total' > cur * Row)
    /\ rows' = [i \in PageIds(req[n].arg) |-> srv[i]]
    /\ dom' = {}
    /\ shown' = req[n].arg
    /\ att' = {}
    /\ hist' = hist \cup Note("overtaken", \E m \in InFlight({"list"}) : m < n)
    /\ UNCHANGED <<cur, chk, det, btn>>

\* changeTotal, setData, multiCheckList and afterUpdate, which ticks the rows
\* found in the checked list.
ListAnswer(n) ==
    /\ req[n].kind = "list"
    /\ Completed(n)
    /\ total' = Cardinality(DOMAIN srv)
    /\ arrows' = (arrows \ {"next"}) \cup Note("next", total' > cur * Row)
    /\ rows' = [i \in PageIds(req[n].arg) |-> srv[i]]
    /\ dom' = ToSet(chk) \cap PageIds(req[n].arg)
    /\ shown' = req[n].arg
    /\ att' = {}
    /\ hist' = hist \cup Note("overtaken", \E m \in InFlight({"list"}) : m < n)
    /\ UNCHANGED <<cur, chk, det, btn>>

\* Mutant: the answer is appended whether its row is still checked or not.
DetailAnswer_NoCheck(n) ==
    /\ req[n].kind = "detail"
    /\ Completed(n)
    /\ det' = [det EXCEPT ![req[n].arg] = @ + 1]
    /\ UNCHANGED <<pager, table, chk, att, btn, hist>>

\* The detail is appended if the row is still in the checked list.
DetailAnswer(n) ==
    /\ req[n].kind = "detail"
    /\ Completed(n)
    /\ det' = [det EXCEPT ![req[n].arg] = IF req[n].arg \in ToSet(chk) THEN @ + 1 ELSE @]
    /\ UNCHANGED <<pager, table, chk, att, btn, hist>>

\* A list or detail request fails: no success handler, the mask is lifted.
\* One failure is explored.
UpdateFails(n) ==
    /\ req[n].kind \in Updates
    /\ Completed(n)
    /\ "failed" \notin hist
    /\ hist' = hist \cup {"failed"}
    /\ UNCHANGED <<pager, table, selection, btn>>

\* The success handler of a dialog's request.
PostAnswer(n) ==
    /\ req[n].kind = "post"
    /\ btn' = btn \ req[n].off
    /\ Refresh(RemoveAt(req, n), cur, chk, det)
    /\ hist' = hist \cup RefreshNotes
    /\ UNCHANGED <<clicks, panel, server, pager, table, dlg>>

\* A dialog's request is refused: the error pop-up and nothing else.
PostFails(n) ==
    /\ req[n].kind = "post"
    /\ req' = RemoveAt(req, n)
    /\ UNCHANGED <<clicks, panel, server, pager, table, selection, masked, btn, dlg, hist>>

-----------------------------------------------------------------------------
(* The rows of the server change under the page.                           *)

RowsChange ==
    /\ changes < MaxChanges
    /\ changes' = changes + 1
    /\ \/ \E i \in DOMAIN srv : \E s \in PanelState(panel) \ {srv[i]} : srv' = [srv EXCEPT ![i] = s]
       \/ \E i \in DOMAIN srv : srv' = [j \in DOMAIN srv \ {i} |-> srv[j]]
       \/ \E i \in Id \ DOMAIN srv, s \in PanelState(panel) :
            srv' = [j \in DOMAIN srv \cup {i} |-> IF j = i THEN s ELSE srv[j]]
    /\ UNCHANGED <<clicks, panel, pager, table, selection, req, masked, btn, dlg, hist>>

-----------------------------------------------------------------------------

Init ==
    /\ panel \in Panels
    /\ \E X \in InitRows, s \in PanelState(panel) : srv = [i \in X |-> s]
    /\ changes = 0
    /\ cur = 1 /\ total = 0 /\ arrows = {}
    /\ rows = <<>> /\ dom = {} /\ shown = 1
    /\ chk = <<>> /\ att = {} /\ det = [i \in Id |-> 0]
    /\ req = <<ListRequest(1)>> /\ masked = TRUE
    /\ btn = {} /\ dlg = "none" /\ clicks = 0 /\ hist = {}

Answer == \E n \in DOMAIN req :
            ListAnswer(n) \/ DetailAnswer(n) \/ UpdateFails(n) \/ PostAnswer(n) \/ PostFails(n)

Next ==
    \/ \E i \in Id : Check(i) \/ Uncheck(i)
    \/ ClickRefresh \/ ClickNext \/ ClickPrev \/ TypePage
    \/ OpenDialog \/ CloseDialog \/ Submit
    \/ Answer
    \/ RowsChange

Spec == Init /\ [][Next]_vars

-----------------------------------------------------------------------------
(* Properties.                                                             *)

\* #detail holds details of checked rows only: a detail that arrives after its
\* box was cleared, or after the page was left, is dropped.  Once nothing is in
\* flight every checked row has exactly one detail, unless a request failed or
\* a detail was asked for twice at a time, when both answers are appended.
DetailsMatchChecked ==
    /\ \A i \in Id : det[i] > 0 => i \in ToSet(chk)
    /\ InFlight(Updates) = {} /\ hist \cap {"failed", "again"} = {}
         => \A i \in ToSet(chk) : det[i] = 1

\* Once no list is in flight the table and the pager agree: the table is that
\* of the current page, and "next" is enabled exactly when more rows follow;
\* unless a list failed, or a later list was answered before an earlier one.
PageIsCurrent ==
    InFlight({"list"}) = {} /\ hist \cap {"failed", "overtaken"} = {}
        => shown = cur /\ ("next" \in arrows <=> total > cur * Row)

\* Once no list is in flight the ticked boxes are the checked rows of the
\* table, so that buttons computed from the boxes and dialogs filled from the
\* checked list speak of the same rows.  A checked row that the table does not
\* show needs the server's rows to have changed, or a tick that landed while a
\* list was on its way.
BoxesMatchList ==
    InFlight({"list"}) = {} /\ "failed" \notin hist
        => /\ dom = ToSet(chk) \cap DOMAIN rows
           /\ ToSet(chk) \subseteq DOMAIN rows \/ changes > 0 \/ hist \cap {"late_click", "overtaken"} # {}

\* A button that acts on the selection is enabled only over a selection, but
\* for the two places that empty the checked list and leave a button enabled,
\* the instance panel's refresh and the backup panel's change of page, for a
\* click on a table that is about to be replaced, and for a failed list.
NoEmptyAction == btn # {} => chk # <<>> \/ hist \cap {"orphan", "failed", "late_click"} # {}

=============================================================================
