---------------------------- MODULE GuiResource ----------------------------
(***************************************************************************)
(* The dialogs of the resource management page (resource_manage_panel.js): *)
(* creating host nodes, storage nodes, instance specs and machine images,  *)
(* editing and deleting them, and the additional drives and interfaces of  *)
(* a spec; and the create dialogs of the user and group pages, which are   *)
(* written the same way.                                                   *)
(*                                                                         *)
(* The scripts find the elements of a dialog by id in the whole document,  *)
(* and its buttons through bt_X.content, the dialog opened last.  The      *)
(* close button of a dialog destroys its elements; the escape key and the  *)
(* cross hide the dialog and leave them in the document, where they come   *)
(* before those of the next dialog: a handler may be bound to the elements *)
(* of a hidden dialog, and read or fill them.  Requests are answered in    *)
(* any order, and a list also after its dialog was closed: it fills the    *)
(* list of the dialog opened next, whose cache it does not reach.          *)
(***************************************************************************)
EXTENDS Integers, Sequences, FiniteSets, SequencesExt

CONSTANTS Kinds,        \* the dialogs explored
          Account,      \* accounts, as numbers from 1
          NoItems,      \* the accounts that own no item
          MaxOpens,     \* bound on the times the dialog is opened
          MaxSteps,     \* bound on what the user does in dialogs
          MaxRequests   \* bound on the requests in flight

ASSUME ResourceAssumption == /\ Kinds \subseteq {"edit_hn", "delete_sn", "edit_is", "delete_wmi", "drives",
                                                 "create_hn", "create_sn", "create_is", "create_wmi",
                                                 "create_user", "create_group"}
                             /\ Account \subseteq Nat \ {0} /\ IsFiniteSet(Account) /\ 1 \in Account
                             /\ NoItems \subseteq Account
                             /\ {MaxOpens, MaxSteps, MaxRequests} \subseteq Nat

VARIABLES
    kind,     \* which dialog this is
    forms,    \* the dialogs' elements in the document, oldest first
    open,     \* the number of the visible dialog, 0 when there is none
    btn,      \* the enabled ones of the buttons "delete" and "update" of bt_X.content
    masked,   \* the mask over the body of the dialog that is reached
    req,      \* the requests in flight
    opens, steps,     \* counters of the bounds
    sent,     \* history: the last delete or update, and what was shown then
    hist      \* history: what has happened that the properties except

vars == <<kind, forms, open, btn, masked, req, opens, steps, sent, hist>>

Nil == 0

\* Two items per account that has any; account a owns 10a + 1 and 10a + 2, and
\* the second one is a node that is online.
Items(a) == IF a \in NoItems THEN {} ELSE {10 * a + 1, 10 * a + 2}
Owner(i) == i \div 10
Online(i) == i % 10 = 2
First(a) == IF a \in NoItems THEN Nil ELSE 10 * a + 1

PickKinds == {"edit_hn", "delete_sn", "edit_is", "delete_wmi"}
CreateKinds == {"create_hn", "create_sn", "create_is", "create_wmi", "create_user", "create_group"}

\* The elements of one dialog: its content has come; how many callbacks bound
\* their handlers to it; the selected account, the account whose items are
\* cached on its select and the one whose items fill the item list, the
\* selected item, the item whose values the fields show, the path field and the path whose md5 the md5 field holds, the spec is_uuid
\* and the specs whose drives and interfaces the two tables show.
Blank(n) == [num |-> n, loaded |-> FALSE, bound |-> 0, acct |-> 1, cache |-> Nil, list |-> Nil,
             item |-> Nil, fields |-> Nil, path |-> Nil, md5 |-> Nil, uuid |-> Nil, drives |-> Nil, vifs |-> Nil]

\* The elements that $('#id') finds in the dialogs fs: the first in the document.
Loaded(fs) == {f \in DOMAIN fs : fs[f].loaded}
ReachedIn(fs) == CHOOSE f \in Loaded(fs) : \A g \in Loaded(fs) : f <= g
Reached == ReachedIn(forms)
Visible == CHOOSE n \in DOMAIN forms : forms[n].num = open

Note(what, cond) == IF cond THEN {what} ELSE {}
\* by is the dialog that asks; of a list, the one whose select caches the answer.
Request(k, a, by) == [kind |-> k, arg |-> a, by |-> by]
InFlight(k) == {n \in DOMAIN req : req[n].kind = k}
Send(r, q) == Len(r) + Len(q) <= MaxRequests /\ req' = r \o q

\* The sequence q, k times.
Times(k, q) == [i \in 1 .. k * Len(q) |-> q[((i - 1) % Len(q)) + 1]]

\* The requests for the two tables of spec i.
TableRequests(i) == <<Request("drives", i, open), Request("vifs", i, open)>>

\* The mask covers the body of a dialog, not its buttons.
UserActs == open # 0 /\ forms[Visible].loaded /\ steps < MaxSteps /\ steps' = steps + 1
InBody == ~masked \/ Visible # Reached

-----------------------------------------------------------------------------
(* Opening and closing.                                                    *)

\* Dialog.open: a new element, whose content is asked for.
OpenDialog ==
    /\ open = 0
    /\ opens < MaxOpens
    /\ opens' = opens + 1
    /\ open' = opens'
    /\ forms' = Append(forms, Blank(opens'))
    /\ btn' = {"delete", "update"}
    /\ masked' = FALSE
    /\ Send(req, <<Request("content", Nil, opens')>>)
    /\ UNCHANGED <<kind, steps, sent, hist>>

\* The close button: the elements go.
CloseButton ==
    /\ open # 0
    /\ forms' = RemoveAt(forms, Visible)
    /\ open' = 0
    /\ hist' = hist \cup Note("reopened", req # <<>>)
    /\ UNCHANGED <<kind, btn, masked, req, opens, steps, sent>>

\* The escape key or the cross: the dialog is hidden, its elements stay.
Hide ==
    /\ open # 0
    /\ open' = 0
    /\ hist' = hist \cup {"hidden"}
    /\ UNCHANGED <<kind, forms, btn, masked, req, opens, steps, sent>>

\* The content has arrived and the callback runs: it makes the two tables of the
\* drives dialog, which ask for their first page, that of no spec, unless the
\* elements that are reached have them already; it binds its handlers to these
\* elements, and in the dialogs with an account triggers the change handlers of
\* the account.
WithContent(n) == [f \in DOMAIN forms |-> IF forms[f].num = n THEN [forms[f] EXCEPT !.loaded = TRUE]
                                                              ELSE forms[f]]
ContentAnswer(n) ==
    /\ req[n].kind = "content"
    /\ \/ /\ \E f \in DOMAIN forms : forms[f].num = req[n].by
          /\ LET fs == WithContent(req[n].by)
                 r == ReachedIn(fs)
                 lists == Times(fs[r].bound + 1, <<Request("list", fs[r].acct, fs[r].num)>>)
             IN  /\ forms' = [fs EXCEPT ![r].bound = @ + 1]
                 /\ Send(RemoveAt(req, n),
                         CASE kind \in CreateKinds                   -> <<>>
                           [] kind = "drives" /\ fs[r].bound = 0     -> TableRequests(Nil) \o lists
                           [] OTHER                                  -> lists)
       \/ /\ \A f \in DOMAIN forms : forms[f].num # req[n].by
          /\ req' = RemoveAt(req, n)
          /\ forms' = forms
    /\ UNCHANGED <<kind, open, btn, masked, opens, steps, sent, hist>>

-----------------------------------------------------------------------------
(* Choosing an account and an item.                                        *)

\* Mutant: the item is chosen and the fields keep the values of the last one.
ShowItem_KeepFields(f, i) == [f EXCEPT !.item = i]

\* The change handler of the item list, on the form f that is reached, looks for
\* the item i in the list cached on f: when it is there, the fields and the
\* buttons follow the item.  A node that is online cannot be deleted.
Cached(f, i) == i # Nil /\ f.cache = Owner(i)
HostNodeButtons(i) == {"update"} \cup Note("delete", ~Online(i))
StorageNodeButtons(i) == {"update"} \cup Note("delete", ~Online(i))
SpecButtons(i) == {"delete", "update"}
ImageButtons(i) == {"delete", "update"}
ItemButtons(i) ==
    CASE kind = "edit_hn"    -> HostNodeButtons(i)
      [] kind = "delete_sn"  -> StorageNodeButtons(i)
      [] kind = "edit_is"    -> SpecButtons(i)
      [] kind = "delete_wmi" -> ImageButtons(i)

ShowItem(f, i) == [f EXCEPT !.item = i, !.fields = IF Cached(f, i) THEN i ELSE @]

\* The spec's handler sets is_uuid and asks for both tables.
ShowSpec(f, i) == [f EXCEPT !.uuid = i]

\* Mutant: the change of the account does not ask for its items.
ChooseAccount_NoRequest ==
    /\ UserActs /\ InBody
    /\ kind \notin CreateKinds
    /\ \E a \in Account \ {forms[Visible].acct} : forms' = [forms EXCEPT ![Visible].acct = a]
    /\ UNCHANGED <<kind, open, btn, masked, req, opens, sent, hist>>

\* The user picks an account: each handler bound there asks for the items of
\* the account that is reached.
ChooseAccount ==
    /\ UserActs /\ InBody
    /\ kind \notin CreateKinds
    /\ \E a \in Account \ {forms[Visible].acct} :
         /\ forms' = [forms EXCEPT ![Visible].acct = a]
         /\ Send(req, Times(forms[Visible].bound, <<Request("list", forms'[Reached].acct, forms[Reached].num)>>))
    /\ UNCHANGED <<kind, open, btn, masked, opens, sent, hist>>

\* The items of account a have arrived for dialog by: they are cached on the
\* select that was reached when they were asked for, and fill the list that is
\* reached now.
Filled(a, by) == [f \in DOMAIN forms |->
    [forms[f] EXCEPT !.cache = IF forms[f].num = by THEN a ELSE @,
                     !.list  = IF f = Reached THEN a ELSE @]]

\* Without items the edit dialogs clear the fields that were reached at the
\* time, the others those that are reached now.
Emptied(fs, by) == [f \in DOMAIN fs |->
    [fs[f] EXCEPT !.item   = IF f = Reached THEN Nil ELSE @,
                  !.fields = IF kind \in {"edit_hn", "edit_is"} /\ fs[f].num = by THEN Nil
                             ELSE IF kind \in {"delete_sn", "delete_wmi"} /\ f = Reached THEN Nil
                             ELSE @]]

\* The first item is chosen.  Without items the pick dialogs clear the fields and
\* disable the buttons; the drives dialog clears the first table and no more.
ListAnswer(n) ==
    /\ req[n].kind = "list"
    /\ Loaded(forms) # {}
    /\ LET i == First(req[n].arg)
           fs == Filled(req[n].arg, req[n].by)
       IN  \/ /\ kind \in PickKinds /\ i # Nil
              /\ forms' = [fs EXCEPT ![Reached] = ShowItem(@, i)]
              /\ btn' = IF Cached(fs[Reached], i) THEN ItemButtons(i) ELSE btn
              /\ req' = RemoveAt(req, n)
           \/ /\ kind \in PickKinds /\ i = Nil
              /\ forms' = Emptied(fs, req[n].by)
              /\ btn' = {}
              /\ req' = RemoveAt(req, n)
           \/ /\ kind = "drives" /\ i # Nil
              /\ forms' = [fs EXCEPT ![Reached] = ShowSpec([@ EXCEPT !.item = i], i)]
              /\ Send(RemoveAt(req, n), Times(fs[Reached].bound, TableRequests(i)))
              /\ btn' = btn
           \/ /\ kind = "drives" /\ i = Nil
              /\ forms' = [fs EXCEPT ![Reached].item = Nil, ![Reached].drives = Nil]
              /\ req' = RemoveAt(req, n)
              /\ btn' = btn
    /\ hist' = hist \cup Note("overtaken", \E m \in InFlight("list") : m < n)
    /\ UNCHANGED <<kind, open, masked, opens, steps, sent>>

\* The user picks an item of the list: the handlers bound there look at the
\* item that is reached.
ChooseItem ==
    /\ UserActs /\ InBody
    /\ kind \notin CreateKinds /\ forms[Visible].list # Nil
    /\ \E i \in Items(forms[Visible].list) \ {forms[Visible].item} :
         LET fs == [forms EXCEPT ![Visible].item = i]
             j == fs[Reached].item
         IN  \/ /\ forms[Visible].bound = 0 \/ j = Nil
                /\ forms' = fs
                /\ UNCHANGED <<btn, req>>
             \/ /\ forms[Visible].bound > 0 /\ j # Nil /\ kind \in PickKinds
                /\ forms' = [fs EXCEPT ![Reached] = ShowItem(@, j)]
                /\ btn' = IF Cached(fs[Reached], j) THEN ItemButtons(j) ELSE btn
                /\ req' = req
             \/ /\ forms[Visible].bound > 0 /\ j # Nil /\ kind = "drives"
                /\ forms' = [fs EXCEPT ![Visible] = ShowSpec(@, j)]
                /\ Send(req, Times(forms[Visible].bound, TableRequests(j)))
                /\ btn' = btn
    /\ UNCHANGED <<kind, open, masked, opens, sent, hist>>

\* A table of the drives dialog has arrived.
TableAnswer(n) ==
    /\ req[n].kind \in {"drives", "vifs"}
    /\ Loaded(forms) # {}
    /\ forms' = IF req[n].kind = "drives"
                  THEN [forms EXCEPT ![Reached].drives = req[n].arg]
                  ELSE [forms EXCEPT ![Reached].vifs = req[n].arg]
    /\ req' = RemoveAt(req, n)
    /\ hist' = hist \cup Note("crossed", \E m \in InFlight(req[n].kind) : m < n)
    /\ UNCHANGED <<kind, open, btn, masked, opens, steps, sent>>

-----------------------------------------------------------------------------
(* Deleting, updating and creating.                                        *)

\* The buttons beside "close" of each dialog that picks an item.
EditHostNode == {"delete", "update"}
DeleteStorageNode == {"delete"}
EditSpec == {"delete", "update"}
DeleteImage == {"delete"}
PickButtons == CASE kind = "edit_hn"    -> EditHostNode
                 [] kind = "delete_sn"  -> DeleteStorageNode
                 [] kind = "edit_is"    -> EditSpec
                 [] kind = "delete_wmi" -> DeleteImage

PressButton ==
    /\ UserActs
    /\ kind \in PickKinds
    /\ \E b \in btn \cap PickButtons :
         /\ Send(req, <<Request("post", Nil, open)>>)
         /\ sent' = [button |-> b, acct |-> forms[Visible].acct, item |-> forms[Visible].item,
                     fields |-> forms[Visible].fields, pending |-> InFlight("list") # {},
                     stale |-> forms[Visible].list # forms[Visible].cache]
    /\ masked' = TRUE
    /\ UNCHANGED <<kind, forms, open, btn, opens, hist>>

\* What the create button of each dialog asks of the form f that is reached,
\* beside fields the user can fill at any time, and whether it masks the dialog
\* until the answer.
CreateHostNode(f) == [valid |-> TRUE, masks |-> TRUE]
CreateStorageNode(f) == [valid |-> TRUE, masks |-> TRUE]
CreateSpec(f) == [valid |-> TRUE, masks |-> TRUE]
CreateImage(f) == [valid |-> f.md5 # Nil, masks |-> TRUE]
CreateUser(f) == [valid |-> TRUE, masks |-> FALSE]
CreateGroup(f) == [valid |-> TRUE, masks |-> FALSE]
CreateButton(f) == CASE kind = "create_hn"    -> CreateHostNode(f)
                     [] kind = "create_sn"    -> CreateStorageNode(f)
                     [] kind = "create_is"    -> CreateSpec(f)
                     [] kind = "create_wmi"   -> CreateImage(f)
                     [] kind = "create_user"  -> CreateUser(f)
                     [] kind = "create_group" -> CreateGroup(f)

\* The create button, once the form is valid.
PressCreate ==
    /\ UserActs
    /\ kind \in CreateKinds
    /\ CreateButton(forms[Reached]).valid
    /\ Send(req, <<Request("post", Nil, open)>>)
    /\ masked' = CreateButton(forms[Reached]).masks
    /\ UNCHANGED <<kind, forms, open, btn, opens, sent, hist>>

\* Success with exit code 0: the dialog of bt_X.content is destroyed, which is
\* the one opened last.
Destroyed(num) ==
    LET at == {f \in DOMAIN forms : forms[f].num = num}
    IN  IF at = {} THEN forms ELSE RemoveAt(forms, CHOOSE f \in at : TRUE)
PostSucceeds(n) ==
    /\ req[n].kind = "post"
    /\ req' = RemoveAt(req, n)
    /\ forms' = Destroyed(opens)
    /\ open' = 0
    /\ masked' = FALSE
    /\ hist' = hist \cup Note("taken", open # 0 /\ open # req[n].by)
                    \cup Note("reopened", req' # <<>>)
                    \cup Note("unmasked", InFlight("md5") # {})
    /\ UNCHANGED <<kind, btn, opens, steps, sent>>

\* Another exit code, or an error: a message and the unmasking.
PostFails(n) ==
    /\ req[n].kind = "post"
    /\ req' = RemoveAt(req, n)
    /\ masked' = FALSE
    /\ hist' = hist \cup Note("unmasked", InFlight("md5") # {})
    /\ UNCHANGED <<kind, forms, open, btn, opens, steps, sent>>

\* A list, a table or an md5 is not answered.
RequestFails(n) ==
    /\ req[n].kind \in {"list", "drives", "vifs", "md5"} /\ "failed" \notin hist
    /\ req' = RemoveAt(req, n)
    /\ masked' = (masked /\ req[n].kind # "md5")
    /\ hist' = hist \cup {"failed"}
    /\ UNCHANGED <<kind, forms, open, btn, opens, steps, sent>>

\* An answer that finds no elements in the document; an empty list still
\* disables the buttons of bt_X.content.
LateAnswer(n) ==
    /\ req[n].kind \in {"list", "drives", "vifs", "md5"}
    /\ Loaded(forms) = {}
    /\ req' = RemoveAt(req, n)
    /\ btn' = IF req[n].kind = "list" /\ kind \in PickKinds /\ First(req[n].arg) = Nil THEN {} ELSE btn
    /\ masked' = (masked /\ req[n].kind # "md5")
    /\ UNCHANGED <<kind, forms, open, opens, steps, sent, hist>>

-----------------------------------------------------------------------------
(* The md5 of a new machine image.                                         *)

\* Mutant: the md5 of the old path stays.
PathChanged_KeepMd5(fs) == fs

\* The path field changes: its handler, if it has one, empties the md5 field
\* that is reached.
PathChanged(fs) == [fs EXCEPT ![ReachedIn(fs)].md5 = Nil]
ChangePath ==
    /\ UserActs /\ InBody
    /\ kind = "create_wmi"
    /\ \E p \in {1, 2} \ {forms[Visible].path} :
         LET fs == [forms EXCEPT ![Visible].path = p]
         IN  forms' = IF forms[Visible].bound > 0 THEN PathChanged(fs) ELSE fs
    /\ UNCHANGED <<kind, open, btn, masked, req, opens, sent, hist>>

\* The md5 button, which asks for the md5 of the path that is reached.
PressMd5 ==
    /\ UserActs /\ InBody
    /\ kind = "create_wmi"
    /\ forms[Visible].bound > 0 /\ forms[Reached].path # Nil
    /\ Send(req, Times(forms[Visible].bound, <<Request("md5", forms[Reached].path, open)>>))
    /\ masked' = TRUE
    /\ UNCHANGED <<kind, forms, open, btn, opens, sent, hist>>

Md5Answer(n) ==
    /\ req[n].kind = "md5"
    /\ Loaded(forms) # {}
    /\ forms' = [forms EXCEPT ![Reached].md5 = req[n].arg]
    /\ req' = RemoveAt(req, n)
    /\ masked' = FALSE
    /\ UNCHANGED <<kind, open, btn, opens, steps, sent, hist>>

-----------------------------------------------------------------------------

Init ==
    /\ kind \in Kinds
    /\ forms = <<>> /\ open = 0 /\ btn = {} /\ masked = FALSE /\ req = <<>>
    /\ opens = 0 /\ steps = 0
    /\ sent = [button |-> "none", acct |-> Nil, item |-> Nil, fields |-> Nil, pending |-> FALSE,
             stale |-> FALSE]
    /\ hist = {}

Answer(n) == \/ ContentAnswer(n) \/ ListAnswer(n) \/ TableAnswer(n) \/ PostSucceeds(n)
             \/ PostFails(n) \/ RequestFails(n) \/ LateAnswer(n) \/ Md5Answer(n)

Next ==
    \/ OpenDialog \/ CloseButton \/ Hide
    \/ ChooseAccount \/ ChooseItem \/ PressButton \/ PressCreate \/ ChangePath \/ PressMd5
    \/ \E n \in DOMAIN req : Answer(n)

Spec == Init /\ [][Next]_vars

-----------------------------------------------------------------------------
(* Properties.                                                             *)

\* A delete or an update is for the item whose values the dialog showed when
\* its button was pressed, as long as no dialog was hidden with its elements
\* left in the document; except when the list shown is not the one the dialog has
\* cached, and the only way to that is a list asked for by a dialog that was
\* closed before the list came.
ActsOnWhatIsShown ==
    "hidden" \notin hist => sent.item = sent.fields \/ (sent.stale /\ "reopened" \in hist)

\* An update gives the item's own account, unless the account was changed and
\* its items had not arrived, or the lists of two accounts crossed.
UpdateKeepsAccount ==
    sent.button = "update" /\ ~sent.pending
        /\ hist \cap {"hidden", "failed", "overtaken", "reopened"} = {}
      => sent.item = Nil \/ Owner(sent.item) = sent.acct

\* What a dialog fetches for a field is of that field.  Once nothing is in
\* flight, the two tables of the drives dialog are those of the spec is_uuid
\* that an edit of them would be sent for, and is_uuid is the selected spec,
\* unless an answer for a table overtook another one for the same table; an
\* account without specs leaves is_uuid and the second table as they were.  The
\* md5 field of a new machine image is empty or of the path, unless a create
\* that was answered lifted the mask of an md5 in flight, or the dialog was
\* closed and opened again before the answer.
FetchedIsOfField ==
    open # 0 /\ "hidden" \notin hist
      => LET f == forms[Visible]
         IN  /\ kind = "drives" /\ req = <<>> /\ hist \cap {"failed", "crossed"} = {} =>
                  /\ f.vifs = f.uuid
                  /\ f.item # Nil => f.item = f.uuid /\ f.drives = f.uuid
             /\ kind = "create_wmi" /\ hist \cap {"reopened", "unmasked"} = {} =>
                  f.md5 \in {Nil, f.path}

=============================================================================
