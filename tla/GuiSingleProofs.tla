-------------------------- MODULE GuiSingleProofs --------------------------
(***************************************************************************)
(* For any number of rows, pages, clicks and requests in flight: a dialog  *)
(* acts on the row it was opened for, the detail shown is the selected     *)
(* row's, and the user's own writes are seen.                              *)
(***************************************************************************)
EXTENDS GuiSingle, TLAPS

(***************************************************************************)
(* Types                                                                   *)
(***************************************************************************)
PanelNames == {"image", "load_balancer", "security_group", "keypair", "user", "group"}
DialogNames == {"none", "launch", "delete", "edit", "create", "link", "register",
                "unregister", "poweron", "poweroff", "active_standby"}
PostKinds == DialogNames \cup {"all"}
Texts == {"available", "foreign", "pending", "running", "halted", "present"}
Tables == UNION {[D -> Texts] : D \in SUBSET (Nat \ {0})}
Answers == [done : BOOLEAN, rows : Tables]
Request == [kind : PostKinds \cup {"list", "detail"}, arg : Nat, ans : Answers]
Dialogs == [name : DialogNames, id : Nat]

TypeOK ==
    /\ panel \in PanelNames
    /\ srv \in Tables /\ rows \in Tables
    /\ cur \in Nat /\ radio \in Nat /\ det \in Nat
    /\ req \in Seq(Request)
    /\ dlg \in Dialogs

LEMMA TableRows ==
  /\ <<>> \in Tables
  /\ \A f \in Tables : DOMAIN f \subseteq Nat \ {0} /\ \A i \in DOMAIN f : f[i] \in Texts
<1>1. <<>> \in [{} -> Texts]
  OBVIOUS
<1> QED
  BY <1>1 DEF Tables

LEMMA TableFun ==
  ASSUME NEW D \in SUBSET (Nat \ {0}), NEW f, f \in [D -> Texts]
  PROVE  f \in Tables
BY DEF Tables

LEMMA PageIsTable ==
  ASSUME TypeOK, NEW p
  PROVE  PageRows(p) \in Tables
<1> DEFINE D == {j \in DOMAIN srv : Position(j) \in (p - 1) * Row + 1 .. p * Row}
           f == [i \in D |-> srv[i]]
<1>1. DOMAIN srv \subseteq Nat \ {0} /\ \A i \in DOMAIN srv : srv[i] \in Texts
  BY TableRows DEF TypeOK
<1>2. D \in SUBSET (Nat \ {0}) /\ D \subseteq DOMAIN srv
  BY <1>1
<1>3. PageRows(p) = f
  BY DEF PageRows
<1> HIDE DEF D
<1>4. f \in [D -> Texts]
  BY <1>1, <1>2
<1> HIDE DEF f
<1> QED
  BY <1>2, <1>3, <1>4, TableFun

(***************************************************************************)
(* What the actions do to the requests in flight                           *)
(***************************************************************************)
Grown(s, t, a) ==
    /\ t \in Seq(Request) /\ DOMAIN s = 1 .. Len(s) /\ DOMAIN t = 1 .. Len(s) + 1 /\ Len(s) \in Nat
    /\ t[Len(s) + 1] = a /\ \A k \in 1 .. Len(s) : t[k] = s[k]

Old(n, k) == IF k < n THEN k ELSE k + 1
Cut(s, t, n) ==
    /\ t \in Seq(Request)
    /\ \A k \in DOMAIN t : Old(n, k) \in DOMAIN s /\ Old(n, k) # n /\ t[k] = s[Old(n, k)]
    /\ \A k, m \in DOMAIN t : k < m <=> Old(n, k) < Old(n, m)
    /\ \A j \in DOMAIN s : j # n => \E k \in DOMAIN t : Old(n, k) = j
    /\ DOMAIN s \subseteq Nat /\ DOMAIN t \subseteq Nat

LEMMA Growing ==
  ASSUME NEW s \in Seq(Request), NEW a \in Request
  PROVE  Grown(s, s \o <<a>>, a)
<1> DEFINE t == s \o <<a>>
<1>1. t \in Seq(Request) /\ Len(t) = Len(s) + 1 /\ Len(s) \in Nat
  OBVIOUS
<1>2. t[Len(s) + 1] = a /\ \A k \in 1 .. Len(s) : t[k] = s[k]
  OBVIOUS
<1>3. DOMAIN s = 1 .. Len(s) /\ DOMAIN t = 1 .. Len(s) + 1
  BY <1>1
<1> QED
  BY <1>1, <1>2, <1>3 DEF Grown

LEMMA Joined ==
  ASSUME NEW u \in Seq(Request), NEW v \in Seq(Request)
  PROVE  u \o v \in Seq(Request) /\ Len(u \o v) = Len(u) + Len(v)
OBVIOUS

LEMMA Part ==
  ASSUME NEW s \in Seq(Request), NEW a \in Nat \ {0}, NEW b \in Nat, a <= b + 1, b <= Len(s)
  PROVE  /\ SubSeq(s, a, b) \in Seq(Request)
         /\ Len(SubSeq(s, a, b)) = b - a + 1
         /\ \A k \in 1 .. b - a + 1 : SubSeq(s, a, b)[k] = s[a + k - 1]
<1>1. \A k \in a .. b : s[k] \in Request
  OBVIOUS
<1> QED
  BY <1>1

LEMMA Cutting ==
  ASSUME NEW s \in Seq(Request), NEW n \in DOMAIN s
  PROVE  Cut(s, RemoveAt(s, n), n)
<1> DEFINE u == SubSeq(s, 1, n - 1)
           v == SubSeq(s, n + 1, Len(s))
           t == u \o v
<1>0. n \in 1 .. Len(s) /\ Len(s) \in Nat /\ DOMAIN s = 1 .. Len(s)
  OBVIOUS
<1>1. /\ u \in Seq(Request) /\ Len(u) = n - 1 /\ \A k \in 1 .. n - 1 : u[k] = s[k]
      /\ v \in Seq(Request) /\ Len(v) = Len(s) - n /\ \A k \in 1 .. Len(s) - n : v[k] = s[k + n]
  <2>1. /\ u \in Seq(Request) /\ Len(u) = (n - 1) - 1 + 1
        /\ \A k \in 1 .. (n - 1) - 1 + 1 : u[k] = s[1 + k - 1]
    BY <1>0, Part
  <2>2. /\ v \in Seq(Request) /\ Len(v) = Len(s) - (n + 1) + 1
        /\ \A k \in 1 .. Len(s) - (n + 1) + 1 : v[k] = s[(n + 1) + k - 1]
    BY <1>0, Part
  <2> HIDE DEF u, v
  <2>3. /\ (n - 1) - 1 + 1 = n - 1 /\ Len(s) - (n + 1) + 1 = Len(s) - n
        /\ \A k \in 1 .. n - 1 : 1 + k - 1 = k
        /\ \A k \in 1 .. Len(s) - n : (n + 1) + k - 1 = k + n
    BY <1>0
  <2> QED
    BY <2>1, <2>2, <2>3
<1>2. RemoveAt(s, n) = t
  BY DEF RemoveAt
<1> HIDE DEF u, v
<1>3. t \in Seq(Request) /\ Len(t) = Len(s) - 1
  <2>1. u \o v \in Seq(Request) /\ Len(u \o v) = Len(u) + Len(v)
    BY <1>1, Joined
  <2>2. Len(u) + Len(v) = Len(s) - 1
    BY <1>0, <1>1
  <2> QED
    BY <2>1, <2>2
<1>4. DOMAIN t = 1 .. Len(s) - 1
  BY <1>3
<1>5. ASSUME NEW k \in 1 .. Len(s) - 1 PROVE t[k] = s[Old(n, k)]
  <2>1. CASE k < n
    BY <1>0, <1>1, <2>1 DEF Old
  <2>2. CASE ~(k < n)
    <3>1. (k - (n - 1)) \in 1 .. Len(s) - n /\ (k - (n - 1)) + n = k + 1 /\ k > Len(u) /\ k <= Len(u) + Len(v)
      BY <1>0, <1>1, <2>2
    <3>2. t[k] = v[k - Len(u)]
      BY <1>1, <3>1
    <3> QED
      BY <1>1, <2>2, <3>1, <3>2 DEF Old
  <2> QED
    BY <2>1, <2>2
<1> HIDE DEF t
<1>6. \A k \in DOMAIN t : Old(n, k) \in DOMAIN s /\ Old(n, k) # n
  BY <1>0, <1>4 DEF Old
<1>7. \A k, m \in DOMAIN t : k < m <=> Old(n, k) < Old(n, m)
  BY <1>0, <1>4 DEF Old
<1>8. ASSUME NEW j \in DOMAIN s, j # n PROVE \E k \in DOMAIN t : Old(n, k) = j
  <2>1. CASE j < n
    BY <1>0, <1>4, <2>1 DEF Old
  <2>2. CASE ~(j < n)
    <3>1. j - 1 \in 1 .. Len(s) - 1 /\ ~(j - 1 < n) /\ (j - 1) + 1 = j
      BY <1>0, <1>8, <2>2
    <3> QED
      BY <1>4, <3>1 DEF Old
  <2> QED
    BY <2>1, <2>2
<1> QED
  BY <1>0, <1>2, <1>3, <1>4, <1>5, <1>6, <1>7, <1>8 DEF Cut

LEMMA RequestTypes ==
  /\ \A p \in Nat : ListRequest(p) \in Request /\ DetailRequest(p) \in Request
  /\ \A d \in PostKinds, i \in Nat : PostRequest(d, i) \in Request
<1>1. Unserved \in Answers
  BY TableRows DEF Unserved, Answers
<1> QED
  BY <1>1 DEF ListRequest, DetailRequest, PostRequest, Request

(***************************************************************************)
(* The invariants, stated for a queue q of requests so that an action that *)
(* removes one request and appends another is done in two steps            *)
(***************************************************************************)
Lists(q) == {n \in DOMAIN q : q[n].kind = "list"}
Details(q) == {n \in DOMAIN q : q[n].kind = "detail"}

\* The dialog that is open: the row it will act on is its own, or none.
DialogInv ==
    dlg # Closed /\ panel = "load_balancer"
      /\ dlg.name \in {"edit", "register", "unregister", "poweron", "poweroff", "active_standby"}
    => radio = dlg.id \/ (radio = Nil /\ "redrawn" \in hist)

\* The detail: one is on its way for the selected row rd and no list is, or
\* the one shown, dt, is the selected row's; a list on its way clears it.
DetailOf(q, rd, dt, cl) ==
    /\ \A m, n \in Details(q) : m = n
    /\ \A n \in Details(q) : q[n].arg = rd /\ rd # Nil /\ Lists(q) = {}
    /\ Details(q) = {} /\ Lists(q) = {} => (rd # Nil => dt = rd) /\ (rd = Nil /\ cl => dt = Nil)
    /\ Lists(q) # {} /\ cl => dt = Nil

DetailInv ==
    hist \cap {"crossed", "failed", "ticked"} = {} => DetailOf(req, radio, det, PanelRefresh.clears)

\* The list sent last asks for page p, ...
Newest(q, n) == \A m \in Lists(q) : m <= n
AsksFor(q, p) == \A n \in Lists(q) : Newest(q, n) => q[n].arg = p
\* ... and will show pg, as the table tb does when no list is on its way; ...
FreshOf(q, tb, pg) ==
    /\ Lists(q) = {} => tb = pg
    /\ \A n \in Lists(q) : Newest(q, n) => ~q[n].ans.done \/ q[n].ans.rows = pg
\* ... or a request is on its way whose answer asks for the list again.
Triggers(r, pn) ==
    \/ r.kind = "all"
    \/ r.kind \notin {"list", "detail"} /\ r.ans.done /\ ~(pn = "keypair" /\ r.kind = "create")
TriggerIn(q, pn) == \E n \in DOMAIN q : Triggers(q[n], pn)
\* While a new key pair is not made yet, the list of all of them is awaited.
AllAwaited(q, pn) ==
    pn = "keypair" /\ (\E n \in DOMAIN q : q[n].kind = "create" /\ ~q[n].ans.done)
    => \E n \in DOMAIN q : q[n].kind = "all"

Page == PageRows(cur)
Spoilt == hist \cap {"overtaken", "failed", "raced"} # {}
WritesInv ==
    ~Spoilt => /\ AsksFor(req, cur)
               /\ AllAwaited(req, panel)
               /\ FreshOf(req, rows, Page) \/ TriggerIn(req, panel)

SingleInv == TypeOK /\ TargetIsTheDialogs /\ DialogInv /\ DetailInv /\ WritesInv

(***************************************************************************)
(* Types                                                                   *)
(***************************************************************************)
LEMMA Constants ==
  /\ Id \subseteq Nat \ {0} /\ MaxPage \in Nat /\ Nil = 0
  /\ \A p \in Panels : p \in PanelNames
BY SingleAssumption DEF PanelNames, Nil

LEMMA Appending ==
  ASSUME NEW r \in Seq(Request), NEW a \in Request, Send(r, <<a>>)
  PROVE  Grown(r, req', a)
BY Growing DEF Send

LEMMA Refreshing ==
  ASSUME NEW r \in Seq(Request), NEW p \in Nat, NEW d, NEW off, Refresh(r, p, d, off)
  PROVE  /\ Grown(r, req', ListRequest(p)) /\ req' \in Seq(Request)
         /\ det' = IF PanelRefresh.clears /\ d = radio THEN Nil ELSE d
         /\ hist' = hist \cup Note("crossed", InFlight({"detail"}) # {})
                         \cup Note("raced", ListsAllEarly(r))
<1>1. ListRequest(p) \in Request
  BY RequestTypes
<1>2. Send(r, <<ListRequest(p)>>)
  BY DEF Refresh
<1>3. Grown(r, req', ListRequest(p))
  BY <1>1, <1>2, Appending
<1>4. req' \in Seq(Request)
  BY <1>3 DEF Grown
<1> QED
  BY <1>3, <1>4 DEF Refresh

\* The dialogs that can be opened: each is about a row, but for the new ones
\* and the load balancer's delete, and those that ask the list again are
\* opened for the selected row.
LEMMA Opens ==
  ASSUME TypeOK, NEW d \in PanelOpens
  PROVE  /\ d \in Dialogs
         /\ \/ d.name = "create"
            \/ d.id # Nil
            \/ panel = "load_balancer" /\ d.name = "delete"
         /\ panel = "load_balancer" /\ d.name \in {"register", "unregister", "poweron", "poweroff", "active_standby"}
              => d.id = radio
<1>1. DOMAIN rows \subseteq Nat \ {0} /\ radio \in Nat /\ Nil = 0
  BY TableRows, Constants DEF TypeOK
<1>2. CASE panel = "image"
  <2>1. d \in ImageOpens
    BY <1>2 DEF PanelOpens
  <2> QED
    BY <1>1, <1>2, <2>1 DEF ImageOpens, Dialogs, DialogNames
<1>3. CASE panel = "load_balancer"
  <2>1. d \in LoadBalancerOpens
    BY <1>3 DEF PanelOpens
  <2>2. StateOf(radio) \in {"running", "halted"} => radio # Nil
    BY <1>1 DEF StateOf
  <2>3. \/ d \in {[name |-> "edit", id |-> i] : i \in {j \in DOMAIN rows : rows[j] = "running"}}
        \/ d = [name |-> "create", id |-> Nil]
        \/ \E a \in {"register", "unregister", "delete", "poweron", "poweroff", "active_standby"} :
             /\ d = [name |-> a, id |-> radio]
             /\ a # "delete" => StateOf(radio) \in {"running", "halted"}
    BY <2>1 DEF LoadBalancerOpens
  <2>4. CASE d \in {[name |-> "edit", id |-> i] : i \in {j \in DOMAIN rows : rows[j] = "running"}}
    BY <1>1, <2>4 DEF Dialogs, DialogNames
  <2>5. CASE d = [name |-> "create", id |-> Nil]
    BY <1>1, <2>5 DEF Dialogs, DialogNames
  <2>6. ASSUME NEW a \in {"register", "unregister", "delete", "poweron", "poweroff", "active_standby"},
               d = [name |-> a, id |-> radio],
               a # "delete" => StateOf(radio) \in {"running", "halted"}
        PROVE  d \in Dialogs /\ (d.id # Nil \/ d.name = "delete") /\ d.id = radio
    BY <1>1, <2>2, <2>6 DEF Dialogs, DialogNames
  <2> QED
    BY <1>3, <2>3, <2>4, <2>5, <2>6
<1>4. CASE panel \in {"security_group", "keypair", "user", "group"}
  <2>1. d \in RowOpens("edit") \cup RowOpens("link") \cup SelectedOpens("delete") \cup {[name |-> "create", id |-> Nil]}
    BY <1>4 DEF PanelOpens, SecurityGroupOpens, KeypairOpens, UserOpens, GroupOpens
  <2> QED
    BY <1>1, <1>4, <2>1 DEF RowOpens, SelectedOpens, Dialogs, DialogNames
<1> QED
  BY <1>2, <1>3, <1>4 DEF TypeOK, PanelNames

LEMMA TicksType ==
  ASSUME TypeOK, NEW d \in Dialogs
  PROVE  OpenTicks(d) \in Nat /\ SubmitTarget(d) \in Nat
BY DEF TypeOK, Dialogs, OpenTicks, LoadBalancerTicks, OtherTicks, SubmitTarget, LoadBalancerTarget

\* The dialog's button sends the post, and for a new key pair asks for all of
\* them as well.
LEMMA Submitted ==
  ASSUME TypeOK, Submit
  PROVE  \E mid :
           /\ Grown(req, mid, PostRequest(dlg.name, SubmitTarget(dlg)))
           /\ \/ KeypairCreates(dlg) /\ Grown(mid, req', PostRequest("all", Nil))
              \/ ~KeypairCreates(dlg) /\ req' = mid
<1> DEFINE a == PostRequest(dlg.name, SubmitTarget(dlg))
           b == PostRequest("all", Nil)
<1>1. a \in Request /\ b \in Request /\ req \in Seq(Request)
  <2>1. dlg.name \in PostKinds /\ SubmitTarget(dlg) \in Nat /\ "all" \in PostKinds /\ Nil \in Nat
    BY TicksType, Constants DEF TypeOK, Dialogs, PostKinds
  <2> QED
    BY <2>1, RequestTypes DEF TypeOK
<1>2. req' = req \o (<<a>> \o (IF KeypairCreates(dlg) THEN <<b>> ELSE <<>>))
  BY DEF Submit, Send
<1> HIDE DEF a, b
<1>3. Grown(req, req \o <<a>>, a) /\ req \o <<a>> \in Seq(Request)
  BY <1>1, Growing DEF Grown
<1>4. Grown(req \o <<a>>, (req \o <<a>>) \o <<b>>, b)
  BY <1>1, <1>3, Growing
<1>5. req \o (<<a>> \o <<b>>) = (req \o <<a>>) \o <<b>> /\ req \o (<<a>> \o <<>>) = req \o <<a>>
  BY <1>1
<1>6. CASE KeypairCreates(dlg)
  BY <1>2, <1>3, <1>4, <1>5, <1>6 DEF a, b
<1>7. CASE ~KeypairCreates(dlg)
  BY <1>2, <1>3, <1>5, <1>7 DEF a, b
<1> QED
  BY <1>6, <1>7

LEMMA StatesAreText == \A p \in PanelNames : PanelState(p) \subseteq Texts
<1>1. PanelState("image") = {"available", "foreign", "pending"}
  BY DEF PanelState
<1>2. PanelState("load_balancer") = {"running", "halted"}
  BY DEF PanelState
<1>3. \A p \in {"security_group", "keypair", "user", "group"} : PanelState(p) = {"present"}
  BY DEF PanelState
<1>4. \A p \in PanelNames : p = "image" \/ p = "load_balancer" \/ p \in {"security_group", "keypair", "user", "group"}
  BY DEF PanelNames
<1> QED
  BY <1>1, <1>2, <1>3, <1>4 DEF Texts

LEMMA EffectType ==
  ASSUME TypeOK, NEW r \in Request, Effect(r)
  PROVE  srv' \in Tables /\ (r.kind \in {"list", "detail"} => srv' = srv)
<1>1. DOMAIN srv \subseteq Nat \ {0} /\ \A i \in DOMAIN srv : srv[i] \in Texts
  BY TableRows DEF TypeOK
<1>2. CASE r.kind = "create"
  <2>1. PICK i \in Id \ DOMAIN srv, s \in PanelState(panel) :
            srv' = [j \in DOMAIN srv \cup {i} |-> IF j = i THEN s ELSE srv[j]]
    BY <1>2 DEF Effect
  <2>2. s \in Texts
    BY StatesAreText DEF TypeOK
  <2>3. DOMAIN srv \cup {i} \in SUBSET (Nat \ {0})
    BY <1>1, Constants
  <2>4. srv' \in [DOMAIN srv \cup {i} -> Texts]
    BY <1>1, <2>1, <2>2
  <2> QED
    BY <1>2, <2>3, <2>4, TableFun
<1>3. CASE r.kind = "delete"
  <2>1. srv' = [j \in DOMAIN srv \ {r.arg} |-> srv[j]]
    BY <1>3 DEF Effect
  <2>2. DOMAIN srv \ {r.arg} \in SUBSET (Nat \ {0})
    BY <1>1
  <2> DEFINE D == DOMAIN srv \ {r.arg}
  <2>3. srv' \in [D -> Texts]
    <3>1. srv' = [j \in D |-> srv[j]] /\ D \subseteq DOMAIN srv
      BY <2>1
    <3> HIDE DEF D
    <3> QED
      BY <1>1, <3>1
  <2> QED
    BY <1>3, <2>2, <2>3, TableFun
<1>4. CASE r.kind \in {"poweron", "poweroff"}
  <2>1. srv' = [j \in DOMAIN srv |-> IF j # r.arg THEN srv[j]
                                     ELSE IF r.kind = "poweron" THEN "running" ELSE "halted"]
    BY <1>4 DEF Effect
  <2>2. DOMAIN srv \in SUBSET (Nat \ {0}) /\ srv' \in [DOMAIN srv -> Texts]
    BY <1>1, <2>1 DEF Texts
  <2> QED
    BY <1>4, <2>2, TableFun
<1>5. CASE r.kind \notin {"create", "delete", "poweron", "poweroff"}
  BY <1>5 DEF Effect, TypeOK
<1> QED
  BY <1>2, <1>3, <1>4, <1>5

\* The server's work on a request changes its answer and nothing else of it.
ServedOnly(s, t, n, tb) ==
    /\ t \in Seq(Request) /\ DOMAIN t = DOMAIN s
    /\ \A k \in DOMAIN s : t[k].kind = s[k].kind /\ t[k].arg = s[k].arg /\ (k # n => t[k] = s[k])
    /\ t[n].ans.done /\ t[n].ans.rows = tb

LEMMA Serving ==
  ASSUME TypeOK, NEW n \in DOMAIN req, Serve(n)
  PROVE  \E tb \in Tables : /\ ServedOnly(req, req', n, tb)
                            /\ req[n].kind = "list" => tb = PageRows(req[n].arg)
<1> DEFINE tb == IF req[n].kind = "list" THEN PageRows(req[n].arg) ELSE <<>>
           r == [req[n] EXCEPT !.ans = Served(tb)]
<1>1. tb \in Tables
  BY PageIsTable, TableRows
<1>2. req' = [req EXCEPT ![n] = r]
  BY DEF Serve
<1> HIDE DEF tb
<1>3. Served(tb) \in Answers /\ Served(tb).done /\ Served(tb).rows = tb
  BY <1>1 DEF Served, Answers
<1>4. req \in Seq(Request) /\ req[n] \in Request
  BY DEF TypeOK
<1>5. r \in Request /\ r.kind = req[n].kind /\ r.arg = req[n].arg /\ r.ans = Served(tb)
  BY <1>3, <1>4 DEF Request
<1> HIDE DEF r
<1>6. req' \in Seq(Request) /\ DOMAIN req' = DOMAIN req
  BY <1>2, <1>4, <1>5
<1>7. \A k \in DOMAIN req : req'[k] = IF k = n THEN r ELSE req[k]
  BY <1>2, <1>4
<1>8. ServedOnly(req, req', n, tb)
  BY <1>3, <1>5, <1>6, <1>7 DEF ServedOnly
<1> QED
  BY <1>1, <1>8 DEF tb

LEMMA TypeStep ==
  ASSUME TypeOK, [Next]_vars
  PROVE  TypeOK'
<1> USE DEF TypeOK
<1>1. CASE UNCHANGED vars
  BY <1>1 DEF vars
<1>2. ASSUME NEW i \in Id, Select(i) PROVE TypeOK'
  <2>1. i \in Nat /\ DetailRequest(i) \in Request
    BY Constants, RequestTypes
  <2>2. Grown(req, req', DetailRequest(i))
    BY <1>2, <2>1, Appending DEF Select
  <2> QED
    BY <1>2, <2>1, <2>2 DEF Select, Grown
<1>3. CASE ClickRefresh
  <2>1. req' \in Seq(Request) /\ det' = IF PanelRefresh.clears /\ det = radio THEN Nil ELSE det
    BY <1>3, Refreshing DEF ClickRefresh
  <2>2. det' \in Nat
    BY <2>1, Constants
  <2> QED
    BY <1>3, <2>1, <2>2 DEF ClickRefresh
<1>4. CASE ChangePage
  <2>1. PICK p \in 1 .. MaxPage : cur' = p /\ Refresh(req, p, Nil, PageDisables)
    BY <1>4 DEF ChangePage
  <2>2. p \in Nat
    BY Constants
  <2>3. req' \in Seq(Request) /\ det' = Nil
    BY <2>1, <2>2, Refreshing
  <2> QED
    BY <1>4, <2>1, <2>2, <2>3, Constants DEF ChangePage
<1>5. CASE OpenDialog
  <2>1. PICK d \in PanelOpens : dlg' = d /\ radio' = OpenTicks(d)
    BY <1>5 DEF OpenDialog
  <2>2. d \in Dialogs /\ OpenTicks(d) \in Nat
    BY Opens, TicksType
  <2> QED
    BY <1>5, <2>1, <2>2 DEF OpenDialog
<1>11. CASE TickRow
  <2>1. radio' \in DOMAIN rows /\ DOMAIN rows \subseteq Nat
    BY <1>11, Constants DEF TickRow, Tables
  <2> QED
    BY <1>11, <2>1 DEF TickRow
<1>6. CASE CloseDialog
  BY <1>6 DEF CloseDialog, Closed, Nil, Dialogs, DialogNames
<1>7. CASE Submit
  <2>1. req' \in Seq(Request)
    BY <1>7, Submitted DEF Grown
  <2> QED
    BY <1>7, <2>1 DEF Submit, Closed, Nil, Dialogs, DialogNames
<1>8. ASSUME NEW n \in DOMAIN req, Serve(n) PROVE TypeOK'
  <2>1. req' \in Seq(Request)
    BY <1>8, Serving DEF ServedOnly
  <2>2. srv' \in Tables
    BY <1>8, EffectType DEF Serve
  <2> QED
    BY <1>8, <2>1, <2>2 DEF Serve
<1>9. ASSUME NEW n \in DOMAIN req, ListAnswer(n) \/ DetailAnswer(n) \/ UpdateFails(n) \/ PostFails(n) PROVE TypeOK'
  <2>1. req' = RemoveAt(req, n)
    BY <1>9 DEF ListAnswer, DetailAnswer, UpdateFails, PostFails, Completed
  <2>2. req' \in Seq(Request)
    BY <2>1, Cutting DEF Cut
  <2>3. req[n].arg \in Nat /\ req[n].ans.rows \in Tables
    <3>1. req[n] \in Request
      OBVIOUS
    <3> QED
      BY <3>1 DEF Request, Answers
  <2> HIDE DEF TypeOK
  <2>4. CASE ListAnswer(n)
    BY <2>2, <2>3, <2>4, Constants DEF ListAnswer, TypeOK
  <2>5. CASE DetailAnswer(n)
    BY <2>2, <2>3, <2>5 DEF DetailAnswer, TypeOK
  <2>6. CASE UpdateFails(n) \/ PostFails(n)
    BY <2>2, <2>6 DEF UpdateFails, PostFails, TypeOK
  <2> QED
    BY <1>9, <2>4, <2>5, <2>6
<1>10. ASSUME NEW n \in DOMAIN req, PostAnswer(n) PROVE TypeOK'
  <2>1. RemoveAt(req, n) \in Seq(Request)
    BY Cutting DEF Cut
  <2>2. req' \in Seq(Request) /\ det' \in Nat
    <3>1. CASE req' = RemoveAt(req, n) /\ UNCHANGED <<det, btn, masked, hist>>
      BY <2>1, <3>1
    <3>2. ASSUME NEW off, Refresh(RemoveAt(req, n), cur, det, off) PROVE req' \in Seq(Request) /\ det' \in Nat
      BY <2>1, <3>2, Refreshing, Constants
    <3> QED
      BY <1>10, <3>1, <3>2 DEF PostAnswer
  <2> QED
    BY <1>10, <2>2 DEF PostAnswer
<1> QED
  BY <1>1, <1>2, <1>3, <1>4, <1>5, <1>6, <1>7, <1>8, <1>9, <1>10, <1>11 DEF Next, Answer

(***************************************************************************)
(* The dialog and its row                                                  *)
(***************************************************************************)
LEMMA TargetStep ==
  ASSUME TypeOK, TargetIsTheDialogs, DialogInv, [Next]_vars
  PROVE  TargetIsTheDialogs' /\ DialogInv'
<1> USE DEF TargetIsTheDialogs, DialogInv
<1>1. ASSUME UNCHANGED <<panel, dlg, sent, radio>>, hist \subseteq hist'
      PROVE  TargetIsTheDialogs' /\ DialogInv'
  BY <1>1
<1>2. ASSUME NEW i \in Id, Select(i) PROVE TargetIsTheDialogs' /\ DialogInv'
  BY <1>2 DEF Select, UserClicks
<1>3. CASE ClickRefresh \/ ChangePage
  BY <1>3 DEF ClickRefresh, ChangePage, UserClicks
<1>4. CASE OpenDialog
  <2>1. PICK d \in PanelOpens : dlg' = d /\ radio' = OpenTicks(d)
    BY <1>4 DEF OpenDialog
  <2>2. UNCHANGED <<panel, sent>>
    BY <1>4 DEF OpenDialog
  <2>3. TargetIsTheDialogs'
    BY <2>1, <2>2, Opens
  <2>4. DialogInv'
    BY <2>1, <2>2, Opens DEF OpenTicks, LoadBalancerTicks
  <2> QED
    BY <2>3, <2>4
<1>10. CASE TickRow
  BY <1>10 DEF TickRow, UserClicks, Closed
<1>5. CASE CloseDialog
  BY <1>5 DEF CloseDialog, Closed
<1>6. CASE Submit
  <2>1. /\ sent' = [dialog |-> dlg, target |-> SubmitTarget(dlg), redrawn |-> "redrawn" \in hist]
        /\ dlg' = Closed /\ dlg # Closed /\ UNCHANGED panel
    BY <1>6 DEF Submit
  <2>2. SubmitTarget(dlg) = dlg.id \/ (panel = "load_balancer" /\ SubmitTarget(dlg) = Nil /\ "redrawn" \in hist)
    BY <2>1 DEF SubmitTarget, LoadBalancerTarget
  <2>3. dlg'.name = "none"
    BY <2>1 DEF Closed
  <2> QED
    BY <2>1, <2>2, <2>3
<1>7. ASSUME NEW n \in DOMAIN req, Serve(n) \/ DetailAnswer(n) \/ UpdateFails(n) \/ PostAnswer(n) \/ PostFails(n)
      PROVE  TargetIsTheDialogs' /\ DialogInv'
  BY <1>1, <1>7 DEF Serve, DetailAnswer, UpdateFails, PostAnswer, PostFails, Refresh
<1>8. ASSUME NEW n \in DOMAIN req, ListAnswer(n) PROVE TargetIsTheDialogs' /\ DialogInv'
  BY <1>8 DEF ListAnswer, Note
<1>9. CASE UNCHANGED vars
  BY <1>1, <1>9 DEF vars
<1> QED
  BY <1>2, <1>3, <1>4, <1>5, <1>6, <1>7, <1>8, <1>9, <1>10 DEF Next, Answer

(***************************************************************************)
(* What appending and removing a request does to the queue                 *)
(***************************************************************************)
LEMMA AppendList ==
  ASSUME NEW s, NEW t, NEW p, Grown(s, t, ListRequest(p))
  PROVE  /\ Lists(t) # {} /\ Details(t) = Details(s) /\ AsksFor(t, p)
         /\ \A tb, pg : FreshOf(t, tb, pg)
         /\ \A pn : AllAwaited(s, pn) => AllAwaited(t, pn)
<1> DEFINE l == Len(s) + 1
<1>1. /\ Len(s) \in Nat /\ l \in Nat /\ DOMAIN s = 1 .. Len(s) /\ DOMAIN t = 1 .. l
      /\ t[l] = ListRequest(p) /\ \A k \in DOMAIN s : t[k] = s[k] /\ k \in DOMAIN t
  BY DEF Grown
<1>2. t[l].kind = "list" /\ t[l].arg = p /\ ~t[l].ans.done
  BY <1>1 DEF ListRequest, Unserved
<1>3. \A k \in DOMAIN t : k = l \/ k \in DOMAIN s
  BY <1>1
<1>4. l \in DOMAIN t /\ \A k \in DOMAIN t : l <= k => k = l
  BY <1>1
<1> HIDE DEF l
<1>5. l \in Lists(t) /\ \A n \in Lists(t) : Newest(t, n) => n = l
  BY <1>2, <1>4 DEF Lists, Newest
<1>6. Details(t) = Details(s)
  BY <1>1, <1>2, <1>3 DEF Details
<1>7. AsksFor(t, p) /\ \A tb, pg : FreshOf(t, tb, pg)
  BY <1>2, <1>5 DEF AsksFor, FreshOf
<1>8. \A pn : AllAwaited(s, pn) => AllAwaited(t, pn)
  BY <1>1, <1>2, <1>3 DEF AllAwaited
<1> QED
  BY <1>5, <1>6, <1>7, <1>8

LEMMA AppendOther ==
  ASSUME NEW s, NEW t, NEW a, Grown(s, t, a), a.kind # "list"
  PROVE  /\ Lists(t) = Lists(s)
         /\ a.kind # "detail" => Details(t) = Details(s)
         /\ \A n \in DOMAIN s : n \in DOMAIN t /\ t[n] = s[n]
         /\ \A p : AsksFor(s, p) => AsksFor(t, p)
         /\ \A tb, pg : FreshOf(s, tb, pg) => FreshOf(t, tb, pg)
         /\ \A pn : TriggerIn(s, pn) => TriggerIn(t, pn)
         /\ \A pn : AllAwaited(s, pn) /\ a.kind # "create" => AllAwaited(t, pn)
         /\ \A pn : a.kind = "all" => AllAwaited(t, pn)
<1> DEFINE l == Len(s) + 1
<1>1. t[l] = a /\ l \in DOMAIN t /\ \A k \in DOMAIN s : t[k] = s[k] /\ k \in DOMAIN t
  BY DEF Grown
<1>2. \A k \in DOMAIN t : k = l \/ k \in DOMAIN s
  BY DEF Grown
<1> HIDE DEF l
<1>3. Lists(t) = Lists(s)
  BY <1>1, <1>2 DEF Lists
<1>4. a.kind # "detail" => Details(t) = Details(s)
  BY <1>1, <1>2 DEF Details
<1>5. \A n \in Lists(s) : t[n] = s[n] /\ (Newest(t, n) <=> Newest(s, n))
  BY <1>1, <1>3 DEF Newest, Lists
<1>6. \A p : AsksFor(s, p) => AsksFor(t, p)
  BY <1>3, <1>5 DEF AsksFor
<1>7. \A tb, pg : FreshOf(s, tb, pg) => FreshOf(t, tb, pg)
  BY <1>3, <1>5 DEF FreshOf
<1>8. \A pn : TriggerIn(s, pn) => TriggerIn(t, pn)
  BY <1>1 DEF TriggerIn
<1>9. \A pn : AllAwaited(s, pn) /\ a.kind # "create" => AllAwaited(t, pn)
  BY <1>1, <1>2 DEF AllAwaited
<1>10. \A pn : a.kind = "all" => AllAwaited(t, pn)
  BY <1>1 DEF AllAwaited
<1> QED
  BY <1>1, <1>3, <1>4, <1>6, <1>7, <1>8, <1>9, <1>10

LEMMA RemoveAny ==
  ASSUME NEW s, NEW t, NEW n \in DOMAIN s, Cut(s, t, n)
  PROVE  /\ \A k \in DOMAIN t : /\ k \in Lists(t) <=> Old(n, k) \in Lists(s)
                                /\ k \in Details(t) <=> Old(n, k) \in Details(s)
         /\ \A j \in DOMAIN s : j # n => \E k \in DOMAIN t : Old(n, k) = j /\ t[k] = s[j]
         /\ \A k, m \in DOMAIN t : k = m <=> Old(n, k) = Old(n, m)
         /\ s[n].kind # "list" => (Lists(s) = {} <=> Lists(t) = {})
         /\ s[n].kind # "detail" => (Details(s) = {} <=> Details(t) = {})
<1>1. \A k \in DOMAIN t : Old(n, k) \in DOMAIN s /\ Old(n, k) # n /\ t[k] = s[Old(n, k)]
  BY DEF Cut
<1>2. \A j \in DOMAIN s : j # n => \E k \in DOMAIN t : Old(n, k) = j /\ t[k] = s[j]
  BY DEF Cut
<1>3. \A k, m \in DOMAIN t : k = m <=> Old(n, k) = Old(n, m)
  <2>1. \A k, m \in DOMAIN t : k \in Nat /\ m \in Nat /\ Old(n, k) \in Nat /\ Old(n, m) \in Nat
                               /\ (k < m <=> Old(n, k) < Old(n, m)) /\ (m < k <=> Old(n, m) < Old(n, k))
    BY DEF Cut
  <2> QED
    BY <2>1
<1>4. \A k \in DOMAIN t : /\ k \in Lists(t) <=> Old(n, k) \in Lists(s)
                          /\ k \in Details(t) <=> Old(n, k) \in Details(s)
  BY <1>1 DEF Lists, Details
<1>5. s[n].kind # "list" => (Lists(s) = {} <=> Lists(t) = {})
  <2>1. \A j \in Lists(s) : j \in DOMAIN s /\ s[j].kind = "list"
    BY DEF Lists
  <2>2. \A k \in Lists(t) : k \in DOMAIN t
    BY DEF Lists
  <2> QED
    BY <1>2, <1>4, <2>1, <2>2
<1>6. s[n].kind # "detail" => (Details(s) = {} <=> Details(t) = {})
  <2>1. \A j \in Details(s) : j \in DOMAIN s /\ s[j].kind = "detail"
    BY DEF Details
  <2>2. \A k \in Details(t) : k \in DOMAIN t
    BY DEF Details
  <2> QED
    BY <1>2, <1>4, <2>1, <2>2
<1> QED
  BY <1>2, <1>3, <1>4, <1>5, <1>6

LEMMA OrderKept ==
  ASSUME NEW s, NEW t, NEW n \in DOMAIN s, Cut(s, t, n), NEW k \in Lists(t), Newest(t, k),
         s[n].kind # "list" \/ \A m \in Lists(s) : ~(m < n)
  PROVE  Old(n, k) \in Lists(s) /\ Newest(s, Old(n, k)) /\ t[k] = s[Old(n, k)]
<1>1. k \in DOMAIN t /\ Old(n, k) \in Lists(s) /\ t[k] = s[Old(n, k)] /\ Old(n, k) # n /\ Old(n, k) \in DOMAIN s
  BY RemoveAny DEF Lists, Cut
<1>2. DOMAIN s \subseteq Nat /\ DOMAIN t \subseteq Nat
  BY DEF Cut
<1>3. ASSUME NEW j \in Lists(s) PROVE j <= Old(n, k)
  <2>1. j \in DOMAIN s /\ j \in Nat /\ Old(n, k) \in Nat /\ n \in Nat
    BY <1>1, <1>2 DEF Lists
  <2>2. CASE j = n
    <3>1. ~(Old(n, k) < n)
      BY <1>1, <1>3, <2>2 DEF Lists
    <3> QED
      BY <2>1, <2>2, <3>1
  <2>3. CASE j # n
    <3>1. PICK i \in DOMAIN t : Old(n, i) = j
      BY <2>1, <2>3 DEF Cut
    <3>2. i \in Lists(t)
      BY <3>1, RemoveAny
    <3>3. i <= k /\ i \in Nat /\ k \in Nat
      BY <1>1, <1>2, <3>2 DEF Newest
    <3>4. ~(k < i)
      BY <3>3
    <3>5. ~(Old(n, k) < Old(n, i))
      BY <1>1, <3>1, <3>4 DEF Cut
    <3> QED
      BY <2>1, <3>1, <3>5
  <2> QED
    BY <2>2, <2>3
<1> QED
  BY <1>1, <1>3 DEF Newest

LEMMA RemoveOther ==
  ASSUME NEW s, NEW t, NEW n \in DOMAIN s, Cut(s, t, n), s[n].kind # "list"
  PROVE  /\ \A p : AsksFor(s, p) => AsksFor(t, p)
         /\ \A tb, pg : FreshOf(s, tb, pg) => FreshOf(t, tb, pg)
<1>1. \A p : AsksFor(s, p) => AsksFor(t, p)
  BY OrderKept DEF AsksFor
<1>2. Lists(s) = {} <=> Lists(t) = {}
  BY RemoveAny
<1>3. \A tb, pg : FreshOf(s, tb, pg) => FreshOf(t, tb, pg)
  BY <1>2, OrderKept DEF FreshOf
<1> QED
  BY <1>1, <1>3

LEMMA RemovePosts ==
  ASSUME NEW s, NEW t, NEW n \in DOMAIN s, Cut(s, t, n)
  PROVE  /\ \A pn : TriggerIn(s, pn) /\ ~Triggers(s[n], pn) => TriggerIn(t, pn)
         /\ \A pn : AllAwaited(s, pn) /\ s[n].kind # "all" => AllAwaited(t, pn)
<1>1. \A j \in DOMAIN s : j # n => \E k \in DOMAIN t : t[k] = s[j]
  BY RemoveAny
<1>2. \A k \in DOMAIN t : \E j \in DOMAIN s : t[k] = s[j]
  BY DEF Cut
<1>3. \A pn : TriggerIn(s, pn) /\ ~Triggers(s[n], pn) => TriggerIn(t, pn)
  <2> SUFFICES ASSUME NEW pn, TriggerIn(s, pn), ~Triggers(s[n], pn) PROVE TriggerIn(t, pn)
    OBVIOUS
  <2>1. PICK j \in DOMAIN s : Triggers(s[j], pn)
    BY DEF TriggerIn
  <2>2. PICK k \in DOMAIN t : t[k] = s[j]
    BY <1>1, <2>1
  <2> QED
    BY <2>1, <2>2 DEF TriggerIn
<1>4. \A pn : AllAwaited(s, pn) /\ s[n].kind # "all" => AllAwaited(t, pn)
  <2> SUFFICES ASSUME NEW pn, AllAwaited(s, pn), s[n].kind # "all" PROVE AllAwaited(t, pn)
    OBVIOUS
  <2> SUFFICES ASSUME pn = "keypair", NEW k \in DOMAIN t, t[k].kind = "create", ~t[k].ans.done
               PROVE  \E m \in DOMAIN t : t[m].kind = "all"
    BY DEF AllAwaited
  <2>1. PICK i \in DOMAIN s : t[k] = s[i]
    BY <1>2
  <2>2. PICK j \in DOMAIN s : s[j].kind = "all"
    BY <2>1 DEF AllAwaited
  <2> QED
    BY <1>1, <2>2
<1> QED
  BY <1>3, <1>4

(***************************************************************************)
(* The detail                                                              *)
(***************************************************************************)
LEMMA DetailKept ==
  ASSUME NEW s, NEW t, NEW n \in DOMAIN s, Cut(s, t, n), s[n].kind \notin {"list", "detail"}
  PROVE  \A rd, dt, cl : DetailOf(s, rd, dt, cl) => DetailOf(t, rd, dt, cl)
<1>1. /\ Lists(s) = {} <=> Lists(t) = {}
      /\ Details(s) = {} <=> Details(t) = {}
  BY RemoveAny
<1>2. \A k, m \in Details(t) : /\ Old(n, k) \in Details(s) /\ Old(n, m) \in Details(s)
                               /\ k = m <=> Old(n, k) = Old(n, m)
                               /\ t[k] = s[Old(n, k)]
  BY RemoveAny DEF Details, Cut
<1> QED
  BY <1>1, <1>2 DEF DetailOf

LEMMA DetailQuiet ==
  ASSUME NEW s, NEW t, NEW a, Grown(s, t, a), a.kind \notin {"list", "detail"}
  PROVE  \A rd, dt, cl : DetailOf(s, rd, dt, cl) => DetailOf(t, rd, dt, cl)
<1>1. Lists(s) = Lists(t) /\ Details(s) = Details(t)
  BY AppendOther
<1>2. \A k \in Details(t) : t[k] = s[k]
  BY <1>1, AppendOther DEF Details
<1> QED
  BY <1>1, <1>2 DEF DetailOf

\* A refresh that crosses no detail: the detail of the selected row goes.
LEMMA DetailCleared ==
  ASSUME NEW s, NEW t, NEW p, Grown(s, t, ListRequest(p)), Details(s) = {},
         NEW rd, NEW dt, NEW cl, NEW nd, cl => nd = Nil
  PROVE  DetailOf(t, rd, nd, cl)
<1>1. Lists(t) # {} /\ Details(t) = {}
  BY AppendList
<1> QED
  BY <1>1 DEF DetailOf

LEMMA DetailStep ==
  ASSUME TypeOK, DetailInv, [Next]_vars
  PROVE  DetailInv'
<1> DEFINE Bad == {"crossed", "failed", "ticked"}
           cl == PanelRefresh.clears
           Calm == hist \cap Bad = {}
<1> SUFFICES ASSUME Calm' PROVE DetailOf(req, radio, det, cl)'
  BY DEF DetailInv
<1>0. req \in Seq(Request) /\ cur \in Nat
  BY DEF TypeOK
<1>a. UNCHANGED panel => cl' = cl
  BY DEF PanelRefresh
<1>b. Calm => DetailOf(req, radio, det, cl)
  BY DEF DetailInv
<1>c. Details(req) = InFlight({"detail"})
  BY DEF Details, InFlight
<1> HIDE DEF cl
<1>d. ASSUME NEW r, NEW d, NEW rd, DetailOf(r, radio, d, cl), Details(r) = {}, det' = IF cl /\ d = radio THEN Nil ELSE d
      PROVE  cl => det' = Nil
  BY <1>d DEF DetailOf
<1>1. CASE UNCHANGED vars
  BY <1>1, <1>a, <1>b DEF vars, DetailOf, Lists, Details
<1>2. ASSUME NEW i \in Id, Select(i) PROVE DetailOf(req, radio, det, cl)'
  <2>1. InFlight({"detail", "list"}) = {} /\ radio' = i
    BY <1>2 DEF Select, Note
  <2>2. i \in Nat /\ DetailRequest(i) \in Request /\ i # Nil
    BY Constants, RequestTypes
  <2>3. Grown(req, req', DetailRequest(i))
    BY <1>0, <1>2, <2>2, Appending DEF Select
  <2>4. Lists(req) = {} /\ Details(req) = {}
    BY <2>1 DEF Lists, Details, InFlight
  <2>5. DetailRequest(i).kind = "detail" /\ DetailRequest(i).arg = i
    BY DEF DetailRequest
  <2>6. Lists(req') = {}
    BY <2>3, <2>4, <2>5, AppendOther
  <2> DEFINE l == Len(req) + 1
  <2>7. req'[l] = DetailRequest(i) /\ l \in DOMAIN req' /\ \A k \in DOMAIN req' : k = l \/ (k \in DOMAIN req /\ req'[k] = req[k])
    BY <2>3 DEF Grown
  <2> HIDE DEF l
  <2>8. Details(req') = {l}
    BY <2>4, <2>5, <2>7 DEF Details
  <2>9. DetailOf(req', radio', det', cl')
    BY <2>1, <2>2, <2>5, <2>6, <2>7, <2>8 DEF DetailOf
  <2> QED
    BY <2>9 DEF DetailOf, Lists, Details
<1>3. ASSUME NEW r \in Seq(Request), NEW p \in Nat, NEW d, NEW off, Refresh(r, p, d, off),
             UNCHANGED <<panel, radio>>,
             Calm /\ DetailOf(req, radio, det, cl) => DetailOf(r, radio, d, cl) \/ d = Nil,
             Details(req) = {} => Details(r) = {}
      PROVE  DetailOf(req, radio, det, cl)'
  <2>1. /\ Grown(r, req', ListRequest(p))
        /\ det' = IF cl /\ d = radio THEN Nil ELSE d
        /\ hist' = hist \cup Note("crossed", InFlight({"detail"}) # {}) \cup Note("raced", ListsAllEarly(r))
    BY <1>3, Refreshing DEF cl
  <2>2. InFlight({"detail"}) = {} /\ Calm
    BY <2>1 DEF Note
  <2>3. Details(r) = {}
    BY <1>3, <1>c, <2>2
  <2>4. cl => det' = Nil
    BY <1>3, <1>b, <1>d, <2>1, <2>2, <2>3
  <2>5. DetailOf(req', radio', det', cl')
    BY <1>3, <1>a, <2>1, <2>3, <2>4, DetailCleared
  <2> QED
    BY <2>5 DEF DetailOf, Lists, Details
<1>4. CASE ClickRefresh
  <2>1. Refresh(req, cur, det, {}) /\ UNCHANGED <<panel, radio>>
    BY <1>4 DEF ClickRefresh
  <2> QED
    BY <1>0, <1>3, <2>1
<1>5. CASE ChangePage
  <2>1. PICK p \in 1 .. MaxPage : Refresh(req, p, Nil, PageDisables)
    BY <1>5 DEF ChangePage
  <2>2. p \in Nat /\ UNCHANGED <<panel, radio>>
    BY <1>5, Constants DEF ChangePage
  <2> QED
    BY <1>0, <1>3, <2>1, <2>2
<1>6. CASE OpenDialog
  <2>1. Calm /\ radio' = radio /\ UNCHANGED <<panel, req, det>>
    BY <1>6 DEF OpenDialog, Note
  <2> QED
    BY <1>a, <1>b, <2>1 DEF DetailOf, Lists, Details
<1>16. CASE TickRow
  <2>1. Calm /\ radio' = radio /\ UNCHANGED <<panel, req, det>>
    BY <1>16 DEF TickRow, Note
  <2> QED
    BY <1>a, <1>b, <2>1 DEF DetailOf, Lists, Details
<1>7. CASE CloseDialog
  <2>1. Calm /\ UNCHANGED <<panel, req, det, radio>>
    BY <1>7 DEF CloseDialog
  <2> QED
    BY <1>a, <1>b, <2>1 DEF DetailOf, Lists, Details
<1>8. CASE Submit
  <2>1. Calm /\ UNCHANGED <<panel, det, radio>>
    BY <1>8 DEF Submit
  <2>2. DetailOf(req, radio, det, cl)
    BY <1>b, <2>1
  <2>3. PICK mid : /\ Grown(req, mid, PostRequest(dlg.name, SubmitTarget(dlg)))
                   /\ \/ KeypairCreates(dlg) /\ Grown(mid, req', PostRequest("all", Nil))
                      \/ ~KeypairCreates(dlg) /\ req' = mid
    BY <1>8, Submitted
  <2>4. /\ PostRequest(dlg.name, SubmitTarget(dlg)).kind \notin {"list", "detail"}
        /\ PostRequest("all", Nil).kind \notin {"list", "detail"}
    BY DEF PostRequest, TypeOK, Dialogs, DialogNames
  <2>5. DetailOf(mid, radio, det, cl)
    BY <2>2, <2>3, <2>4, DetailQuiet
  <2>6. DetailOf(req', radio, det, cl)
    BY <2>3, <2>4, <2>5, DetailQuiet
  <2> QED
    BY <1>a, <2>1, <2>6 DEF DetailOf, Lists, Details
<1>9. ASSUME NEW n \in DOMAIN req, Serve(n) PROVE DetailOf(req, radio, det, cl)'
  <2>1. Calm /\ UNCHANGED <<panel, det, radio>>
    BY <1>9 DEF Serve
  <2>2. DetailOf(req, radio, det, cl)
    BY <1>b, <2>1
  <2>3. PICK tb \in Tables : ServedOnly(req, req', n, tb)
    BY <1>9, Serving
  <2>4. Lists(req') = Lists(req) /\ Details(req') = Details(req)
    BY <2>3 DEF ServedOnly, Lists, Details
  <2>5. \A k \in Details(req) : req'[k].arg = req[k].arg
    BY <2>3 DEF ServedOnly, Details
  <2>6. DetailOf(req', radio, det, cl)
    BY <2>2, <2>4, <2>5 DEF DetailOf
  <2> QED
    BY <1>a, <2>1, <2>6 DEF DetailOf, Lists, Details
<1>10. ASSUME NEW n \in DOMAIN req, ListAnswer(n) PROVE DetailOf(req, radio, det, cl)'
  <2>1. /\ Calm /\ UNCHANGED <<panel, det>> /\ radio' = Nil /\ req[n].kind = "list"
        /\ req' = RemoveAt(req, n)
    BY <1>10 DEF ListAnswer, Completed
  <2>2. Cut(req, req', n)
    BY <1>0, <2>1, Cutting
  <2>3. Lists(req) # {} /\ Details(req) = {} /\ (cl => det = Nil)
    BY <1>b, <2>1 DEF DetailOf, Lists
  <2>4. Details(req') = {}
    BY <2>1, <2>2, <2>3, RemoveAny
  <2>5. DetailOf(req', radio', det', cl')
    BY <1>a, <2>1, <2>3, <2>4 DEF DetailOf
  <2> QED
    BY <2>5 DEF DetailOf, Lists, Details
<1>11. ASSUME NEW n \in DOMAIN req, DetailAnswer(n) PROVE DetailOf(req, radio, det, cl)'
  <2>1. /\ Calm /\ UNCHANGED <<panel, radio>> /\ det' = req[n].arg /\ req[n].kind = "detail"
        /\ req' = RemoveAt(req, n)
    BY <1>11 DEF DetailAnswer, Completed
  <2>2. Cut(req, req', n)
    BY <1>0, <2>1, Cutting
  <2>3. n \in Details(req)
    BY <2>1 DEF Details
  <2>4. Lists(req) = {} /\ (\A m \in Details(req) : m = n) /\ det' = radio /\ radio # Nil
    BY <1>b, <2>1, <2>3 DEF DetailOf
  <2>5. Lists(req') = {}
    BY <2>1, <2>2, <2>4, RemoveAny
  <2>6. Details(req') = {}
    BY <2>2, <2>4, RemoveAny DEF Details, Cut
  <2>7. DetailOf(req', radio', det', cl')
    BY <2>1, <2>4, <2>5, <2>6 DEF DetailOf
  <2> QED
    BY <2>7 DEF DetailOf, Lists, Details
<1>12. ASSUME NEW n \in DOMAIN req, UpdateFails(n) PROVE DetailOf(req, radio, det, cl)'
  BY <1>12 DEF UpdateFails
<1>13. ASSUME NEW n \in DOMAIN req, req[n].kind \notin {"list", "detail"}, NEW r, r = RemoveAt(req, n)
       PROVE  /\ Cut(req, r, n) /\ r \in Seq(Request)
              /\ DetailOf(req, radio, det, cl) => DetailOf(r, radio, det, cl)
              /\ Details(req) = {} => Details(r) = {}
  <2>1. Cut(req, r, n)
    BY <1>0, <1>13, Cutting
  <2>2. DetailOf(req, radio, det, cl) => DetailOf(r, radio, det, cl)
    BY <1>13, <2>1, DetailKept
  <2>3. Details(req) = {} => Details(r) = {}
    BY <1>13, <2>1, RemoveAny
  <2>4. r \in Seq(Request)
    BY <2>1 DEF Cut
  <2> QED
    BY <2>1, <2>2, <2>3, <2>4
<1>14. ASSUME NEW n \in DOMAIN req, PostAnswer(n) PROVE DetailOf(req, radio, det, cl)'
  <2> DEFINE r == RemoveAt(req, n)
  <2>1. UNCHANGED <<panel, radio>> /\ req[n].kind \notin {"list", "detail"}
    BY <1>14 DEF PostAnswer
  <2>2. /\ r \in Seq(Request)
        /\ DetailOf(req, radio, det, cl) => DetailOf(r, radio, det, cl)
        /\ Details(req) = {} => Details(r) = {}
    BY <1>13, <2>1
  <2>3. CASE req' = r /\ UNCHANGED <<det, btn, masked, hist>>
    <3>1. DetailOf(r, radio, det, cl)
      BY <1>b, <2>2, <2>3
    <3> HIDE DEF r
    <3> QED
      BY <1>a, <2>1, <2>3, <3>1 DEF DetailOf, Lists, Details
  <2>4. ASSUME NEW off, Refresh(r, cur, det, off) PROVE DetailOf(req, radio, det, cl)'
    <3> HIDE DEF r
    <3> QED
      BY <1>0, <1>3, <2>1, <2>2, <2>4
  <2> QED
    BY <1>14, <2>3, <2>4 DEF PostAnswer
<1>15. ASSUME NEW n \in DOMAIN req, PostFails(n) PROVE DetailOf(req, radio, det, cl)'
  <2>1. Calm /\ UNCHANGED <<panel, radio, det>> /\ req' = RemoveAt(req, n) /\ req[n].kind \notin {"list", "detail"}
    BY <1>15 DEF PostFails
  <2>2. DetailOf(req', radio, det, cl)
    BY <1>b, <1>13, <2>1
  <2> QED
    BY <1>a, <2>1, <2>2 DEF DetailOf, Lists, Details
<1> QED
  BY <1>1, <1>2, <1>4, <1>5, <1>6, <1>7, <1>8, <1>9, <1>10, <1>11, <1>12, <1>14, <1>15, <1>16 DEF Next, Answer

(***************************************************************************)
(* The user's own writes                                                   *)
(***************************************************************************)
WritesOf(q, p, pn, tb, pg) ==
    AsksFor(q, p) /\ AllAwaited(q, pn) /\ (FreshOf(q, tb, pg) \/ TriggerIn(q, pn))

LEMMA WritesQuiet ==
  ASSUME NEW s, NEW t, NEW a, Grown(s, t, a), a.kind \notin {"list", "create"}
  PROVE  \A p, pn, tb, pg : WritesOf(s, p, pn, tb, pg) => WritesOf(t, p, pn, tb, pg)
BY AppendOther DEF WritesOf

\* A post of a kind that needs no list of all rows, or is followed by one.
LEMMA WritesPost ==
  ASSUME NEW s, NEW t, NEW a, Grown(s, t, a), a.kind # "list"
  PROVE  \A p, pn, tb, pg : WritesOf(s, p, pn, tb, pg)
           => /\ pn # "keypair" => WritesOf(t, p, pn, tb, pg)
              /\ AsksFor(t, p) /\ (FreshOf(t, tb, pg) \/ TriggerIn(t, pn))
<1>1. \A pn : pn # "keypair" => AllAwaited(t, pn)
  BY DEF AllAwaited
<1> QED
  BY <1>1, AppendOther DEF WritesOf

LEMMA WritesRefreshed ==
  ASSUME NEW s, NEW t, NEW p, Grown(s, t, ListRequest(p))
  PROVE  \A pn, tb, pg : AllAwaited(s, pn) => WritesOf(t, p, pn, tb, pg)
BY AppendList DEF WritesOf

LEMMA WritesStep ==
  ASSUME TypeOK, WritesInv, [Next]_vars
  PROVE  WritesInv'
<1> SUFFICES ASSUME ~Spoilt' PROVE WritesOf(req, cur, panel, rows, Page)'
  BY DEF WritesInv, WritesOf
<1>0. req \in Seq(Request) /\ cur \in Nat
  BY DEF TypeOK
<1>a. UNCHANGED <<srv, cur>> => Page' = Page
  BY DEF Page, PageRows, Position
<1>b. ~Spoilt => WritesOf(req, cur, panel, rows, Page)
  BY DEF WritesInv, WritesOf
<1>c. ~Spoilt
  <2>1. hist \ {"ticked", "redrawn"} \subseteq hist'
    BY DEF Next, Answer, Select, ClickRefresh, ChangePage, OpenDialog, TickRow, CloseDialog, Submit, Serve,
           ListAnswer, DetailAnswer, UpdateFails, PostAnswer, PostFails, Refresh, vars
  <2> QED
    BY <2>1 DEF Spoilt
<1>d. WritesOf(req, cur, panel, rows, Page)
  BY <1>b, <1>c
<1>e. WritesOf(req', cur', panel', rows', Page') => WritesOf(req, cur, panel, rows, Page)'
  BY DEF WritesOf, AsksFor, AllAwaited, FreshOf, TriggerIn, Lists, Newest, Triggers
<1>1. CASE UNCHANGED vars
  <2>1. UNCHANGED <<req, cur, panel, rows, srv>>
    BY <1>1 DEF vars
  <2> QED
    BY <1>a, <1>d, <1>e, <2>1
<1>2. ASSUME NEW i \in Id, Select(i) PROVE WritesOf(req, cur, panel, rows, Page)'
  <2>1. i \in Nat /\ DetailRequest(i) \in Request
    BY Constants, RequestTypes
  <2>2. Grown(req, req', DetailRequest(i))
    BY <1>0, <1>2, <2>1, Appending DEF Select
  <2>3. DetailRequest(i).kind = "detail"
    BY DEF DetailRequest
  <2>4. UNCHANGED <<panel, srv, cur, rows>>
    BY <1>2 DEF Select
  <2>5. WritesOf(req', cur, panel, rows, Page)
    BY <1>d, <2>2, <2>3, WritesQuiet
  <2> QED
    BY <1>a, <1>e, <2>4, <2>5
<1>3. ASSUME NEW r \in Seq(Request), NEW p \in Nat, NEW d, NEW off, Refresh(r, p, d, off), cur' = p,
             UNCHANGED <<panel, rows>>, AllAwaited(r, panel)
      PROVE  WritesOf(req, cur, panel, rows, Page)'
  <2>1. Grown(r, req', ListRequest(p))
    BY <1>3, Refreshing
  <2>2. WritesOf(req', p, panel, rows, Page')
    BY <1>3, <2>1, WritesRefreshed
  <2> QED
    BY <1>3, <1>e, <2>2
<1>4. CASE ClickRefresh
  <2>1. Refresh(req, cur, det, {}) /\ UNCHANGED <<panel, rows, cur>>
    BY <1>4 DEF ClickRefresh
  <2>2. AllAwaited(req, panel)
    BY <1>d DEF WritesOf
  <2> QED
    BY <1>0, <1>3, <2>1, <2>2
<1>5. CASE ChangePage
  <2>1. PICK p \in 1 .. MaxPage : cur' = p /\ Refresh(req, p, Nil, PageDisables)
    BY <1>5 DEF ChangePage
  <2>2. p \in Nat /\ UNCHANGED <<panel, rows>>
    BY <1>5, Constants DEF ChangePage
  <2>3. AllAwaited(req, panel)
    BY <1>d DEF WritesOf
  <2> QED
    BY <1>0, <1>3, <2>1, <2>2, <2>3
<1>6. CASE OpenDialog \/ TickRow \/ CloseDialog
  <2>1. UNCHANGED <<req, cur, panel, rows, srv>>
    BY <1>6 DEF OpenDialog, TickRow, CloseDialog
  <2> QED
    BY <1>a, <1>d, <1>e, <2>1
<1>7. CASE Submit
  <2> DEFINE a == PostRequest(dlg.name, SubmitTarget(dlg))
             b == PostRequest("all", Nil)
  <2>1. UNCHANGED <<cur, panel, rows, srv>>
    BY <1>7 DEF Submit
  <2>2. PICK mid : /\ Grown(req, mid, a)
                   /\ \/ KeypairCreates(dlg) /\ Grown(mid, req', b)
                      \/ ~KeypairCreates(dlg) /\ req' = mid
    BY <1>7, Submitted
  <2>3. a.kind = dlg.name /\ a.kind # "list" /\ b.kind = "all"
    BY DEF PostRequest, TypeOK, Dialogs, DialogNames
  <2> HIDE DEF a, b
  <2>4. AsksFor(mid, cur) /\ (FreshOf(mid, rows, Page) \/ TriggerIn(mid, panel))
    BY <1>d, <2>2, <2>3, WritesPost
  <2>5. CASE KeypairCreates(dlg)
    <3>1. Grown(mid, req', b)
      BY <2>2, <2>5
    <3>2. WritesOf(req', cur, panel, rows, Page)
      BY <2>3, <2>4, <3>1, AppendOther DEF WritesOf
    <3> QED
      BY <1>a, <1>e, <2>1, <3>2
  <2>6. CASE ~KeypairCreates(dlg)
    <3>1. req' = mid
      BY <2>2, <2>6
    <3>2. panel # "keypair" \/ a.kind # "create"
      BY <2>3, <2>6 DEF KeypairCreates
    <3>3. WritesOf(mid, cur, panel, rows, Page)
      BY <1>d, <2>2, <2>3, <3>2, WritesQuiet, WritesPost
    <3> QED
      BY <1>a, <1>e, <2>1, <3>1, <3>3
  <2> QED
    BY <2>5, <2>6
<1>8. ASSUME NEW n \in DOMAIN req, Serve(n) PROVE WritesOf(req, cur, panel, rows, Page)'
  <2>1. UNCHANGED <<cur, panel, rows>> /\ Effect(req[n]) /\ ~req[n].ans.done
    BY <1>8 DEF Serve
  <2>2. req[n].kind \in {"list", "detail"} => srv' = srv
    BY <1>0, <2>1, EffectType
  <2>3. PICK tb \in Tables : /\ ServedOnly(req, req', n, tb)
                             /\ req[n].kind = "list" => tb = PageRows(req[n].arg)
    BY <1>8, Serving
  <2>4. /\ DOMAIN req' = DOMAIN req
        /\ \A k \in DOMAIN req : req'[k].kind = req[k].kind /\ req'[k].arg = req[k].arg /\ (k # n => req'[k] = req[k])
        /\ req'[n].ans.done /\ req'[n].ans.rows = tb
    BY <2>3 DEF ServedOnly
  <2>5. Lists(req') = Lists(req) /\ \A k : Newest(req', k) <=> Newest(req, k)
    BY <2>4 DEF Lists, Newest
  <2>6. AsksFor(req', cur)
    BY <1>d, <2>4, <2>5 DEF AsksFor, WritesOf, Lists
  <2>7. AllAwaited(req', panel)
    BY <1>d, <2>4 DEF AllAwaited, WritesOf
  <2>8. TriggerIn(req, panel) => TriggerIn(req', panel)
    <3>1. \A k \in DOMAIN req : Triggers(req[k], panel) => Triggers(req'[k], panel)
      BY <2>4 DEF Triggers
    <3> QED
      BY <2>4, <3>1 DEF TriggerIn
  <2>9. CASE req[n].kind = "list"
    <3>1. Page' = Page
      BY <1>a, <2>1, <2>2, <2>9
    <3>2. n \in Lists(req)
      BY <2>9 DEF Lists
    <3>3. Newest(req, n) => req'[n].ans.rows = Page
      BY <1>d, <2>3, <2>4, <2>9, <3>2 DEF WritesOf, AsksFor, Page
    <3>4. FreshOf(req, rows, Page) => FreshOf(req', rows, Page)
      BY <2>4, <2>5, <3>2, <3>3 DEF FreshOf, Lists
    <3>5. WritesOf(req', cur, panel, rows, Page)
      BY <1>d, <2>6, <2>7, <2>8, <3>4 DEF WritesOf
    <3> QED
      BY <1>e, <2>1, <3>1, <3>5
  <2>10. CASE req[n].kind = "detail"
    <3>1. Page' = Page
      BY <1>a, <2>1, <2>2, <2>10
    <3>2. \A k \in Lists(req) : req'[k] = req[k]
      BY <2>4, <2>10 DEF Lists
    <3>3. FreshOf(req, rows, Page) => FreshOf(req', rows, Page)
      BY <2>5, <3>2 DEF FreshOf
    <3>4. WritesOf(req', cur, panel, rows, Page)
      BY <1>d, <2>6, <2>7, <2>8, <3>3 DEF WritesOf
    <3> QED
      BY <1>e, <2>1, <3>1, <3>4
  <2>11. CASE req[n].kind \notin {"list", "detail"}
    <3>1. TriggerIn(req', panel)
      <4>1. CASE panel = "keypair" /\ req[n].kind = "create"
        <5>1. \E k \in DOMAIN req : req[k].kind = "all"
          BY <1>d, <2>1, <4>1 DEF WritesOf, AllAwaited
        <5> QED
          BY <2>4, <5>1 DEF TriggerIn, Triggers
      <4>2. CASE ~(panel = "keypair" /\ req[n].kind = "create")
        BY <2>4, <2>11, <4>2 DEF TriggerIn, Triggers
      <4> QED
        BY <4>1, <4>2
    <3>2. WritesOf(req', cur, panel, rows, Page')
      BY <2>6, <2>7, <3>1 DEF WritesOf
    <3> QED
      BY <1>e, <2>1, <3>2
  <2> QED
    BY <2>9, <2>10, <2>11
<1>9. ASSUME NEW n \in DOMAIN req, NEW r, r = RemoveAt(req, n)
      PROVE  Cut(req, r, n) /\ r \in Seq(Request)
  BY <1>0, <1>9, Cutting DEF Cut
<1>10. ASSUME NEW n \in DOMAIN req, ListAnswer(n) PROVE WritesOf(req, cur, panel, rows, Page)'
  <2>1. /\ req[n].kind = "list" /\ req[n].ans.done /\ rows' = req[n].ans.rows
        /\ UNCHANGED <<panel, srv, cur>> /\ req' = RemoveAt(req, n)
        /\ ~ \E m \in InFlight({"list"}) : m < n
    BY <1>10 DEF ListAnswer, Completed, Spoilt, Note
  <2>2. Cut(req, req', n)
    BY <1>9, <2>1
  <2>3. n \in Lists(req) /\ \A m \in Lists(req) : ~(m < n)
    BY <2>1 DEF Lists, InFlight
  <2>4. ASSUME NEW k \in Lists(req'), Newest(req', k)
        PROVE  Old(n, k) \in Lists(req) /\ Newest(req, Old(n, k)) /\ req'[k] = req[Old(n, k)]
    BY <2>2, <2>3, <2>4, OrderKept
  <2>5. AsksFor(req', cur)
    BY <1>d, <2>4 DEF AsksFor, WritesOf
  <2>6. AllAwaited(req', panel) /\ (TriggerIn(req, panel) => TriggerIn(req', panel))
    <3>1. ~Triggers(req[n], panel) /\ req[n].kind # "all"
      BY <2>1 DEF Triggers
    <3> QED
      BY <1>d, <2>2, <3>1, RemovePosts DEF WritesOf
  <2>7. ASSUME Lists(req') = {}, FreshOf(req, rows, Page) PROVE rows' = Page
    <3>1. \A m \in Lists(req) : m = n
      <4>1. \A j \in DOMAIN req : j # n => \E k \in DOMAIN req' : Old(n, k) = j
        BY <2>2 DEF Cut
      <4>2. \A k \in DOMAIN req' : Old(n, k) \notin Lists(req)
        BY <2>2, <2>7, RemoveAny
      <4> QED
        BY <4>1, <4>2 DEF Lists
    <3>2. Newest(req, n)
      <4>1. n \in Nat
        BY <1>0
      <4> QED
        BY <3>1, <4>1 DEF Newest
    <3> QED
      BY <2>1, <2>3, <2>7, <3>2 DEF FreshOf
  <2>8. FreshOf(req, rows, Page) => FreshOf(req', rows', Page)
    BY <2>4, <2>7 DEF FreshOf
  <2>9. WritesOf(req', cur, panel, rows', Page)
    BY <1>d, <2>5, <2>6, <2>8 DEF WritesOf
  <2> QED
    BY <1>a, <1>e, <2>1, <2>9
<1>11. ASSUME NEW n \in DOMAIN req, NEW r, r = RemoveAt(req, n), req[n].kind \notin {"list", "all"},
              ~Triggers(req[n], panel)
       PROVE  WritesOf(r, cur, panel, rows, Page)
  <2>1. Cut(req, r, n)
    BY <1>9, <1>11
  <2>2. AsksFor(r, cur) /\ (FreshOf(req, rows, Page) => FreshOf(r, rows, Page))
    BY <1>11, <1>d, <2>1, RemoveOther DEF WritesOf
  <2>3. AllAwaited(r, panel) /\ (TriggerIn(req, panel) => TriggerIn(r, panel))
    BY <1>11, <1>d, <2>1, RemovePosts DEF WritesOf
  <2> QED
    BY <1>d, <2>2, <2>3 DEF WritesOf
<1>12. ASSUME NEW n \in DOMAIN req, DetailAnswer(n) PROVE WritesOf(req, cur, panel, rows, Page)'
  <2>1. req[n].kind = "detail" /\ UNCHANGED <<panel, srv, cur, rows>> /\ req' = RemoveAt(req, n)
    BY <1>12 DEF DetailAnswer, Completed
  <2>2. WritesOf(req', cur, panel, rows, Page)
    BY <1>11, <2>1 DEF Triggers
  <2> QED
    BY <1>a, <1>e, <2>1, <2>2
<1>13. ASSUME NEW n \in DOMAIN req, UpdateFails(n) PROVE WritesOf(req, cur, panel, rows, Page)'
  BY <1>13 DEF UpdateFails, Spoilt
<1>14. ASSUME NEW n \in DOMAIN req, PostFails(n) PROVE WritesOf(req, cur, panel, rows, Page)'
  <2>1. /\ req[n].kind \notin {"list", "detail"} /\ UNCHANGED <<panel, srv, cur, rows>> /\ req' = RemoveAt(req, n)
        /\ ~req[n].ans.done /\ req[n].kind # "all"
    BY <1>14 DEF PostFails, Note, Spoilt
  <2>2. WritesOf(req', cur, panel, rows, Page)
    BY <1>11, <2>1 DEF Triggers
  <2> QED
    BY <1>a, <1>e, <2>1, <2>2
<1>15. ASSUME NEW n \in DOMAIN req, PostAnswer(n) PROVE WritesOf(req, cur, panel, rows, Page)'
  <2> DEFINE r == RemoveAt(req, n)
  <2>1. UNCHANGED <<panel, srv, cur, rows>> /\ req[n].kind \notin {"list", "detail"} /\ req[n].ans.done
    BY <1>15 DEF PostAnswer
  <2>2. Cut(req, r, n) /\ r \in Seq(Request)
    BY <1>9
  <2>3. CASE panel = "keypair" /\ req[n].kind = "create"
    <3>1. req' = RemoveAt(req, n)
      BY <1>15, <2>3 DEF PostAnswer
    <3>2. WritesOf(req', cur, panel, rows, Page)
      BY <1>11, <2>3, <3>1 DEF Triggers
    <3> QED
      BY <1>a, <1>e, <2>1, <3>2
  <2>4. CASE ~(panel = "keypair" /\ req[n].kind = "create")
    <3>1. PICK off : Refresh(r, cur, det, off)
      BY <1>15, <2>4 DEF PostAnswer
    <3>2. ~ListsAllEarly(r)
      BY <3>1 DEF Refresh, Note, Spoilt
    <3> HIDE DEF r
    <3>3. AllAwaited(r, panel)
      BY <3>2 DEF AllAwaited, ListsAllEarly
    <3> QED
      BY <1>0, <1>3, <2>1, <2>2, <3>1, <3>3
  <2> QED
    BY <2>3, <2>4
<1> QED
  BY <1>1, <1>2, <1>4, <1>5, <1>6, <1>7, <1>8, <1>10, <1>12, <1>13, <1>14, <1>15 DEF Next, Answer

(***************************************************************************)
(* The invariant and the theorems                                          *)
(***************************************************************************)
LEMMA InitSingle == Init => SingleInv
<1> SUFFICES ASSUME Init PROVE SingleInv
  OBVIOUS
<1> DEFINE a == ListRequest(1)
<1>1. /\ panel \in PanelNames /\ cur = 1 /\ rows = <<>> /\ radio = Nil /\ det = Nil /\ req = <<a>>
      /\ dlg = Closed /\ sent = [dialog |-> Closed, target |-> Nil, redrawn |-> FALSE]
  BY Constants DEF Init
<1>2. a \in Request /\ a.kind = "list" /\ a.arg = 1 /\ ~a.ans.done
  BY RequestTypes DEF ListRequest, Unserved
<1>3. srv \in Tables
  <2>1. PICK s \in PanelState(panel) : srv = [i \in {1, 2} |-> s]
    BY DEF Init
  <2>2. s \in Texts
    BY <1>1, StatesAreText
  <2>3. srv \in [{1, 2} -> Texts] /\ {1, 2} \in SUBSET (Nat \ {0})
    BY <2>1, <2>2
  <2> QED
    BY <2>3, TableFun
<1> HIDE DEF a
<1>4. req \in Seq(Request) /\ DOMAIN req = {1} /\ req[1] = a
  BY <1>1, <1>2
<1>5. TypeOK
  BY <1>1, <1>3, <1>4, TableRows, Constants DEF TypeOK, Closed, Dialogs, DialogNames
<1>6. TargetIsTheDialogs /\ DialogInv
  BY <1>1 DEF TargetIsTheDialogs, DialogInv, Closed
<1>7. Lists(req) = {1} /\ Details(req) = {}
  BY <1>2, <1>4 DEF Lists, Details
<1>8. DetailInv
  BY <1>1, <1>7 DEF DetailInv, DetailOf
<1>9. WritesInv
  BY <1>1, <1>2, <1>4, <1>7 DEF WritesInv, AsksFor, AllAwaited, FreshOf
<1> QED
  BY <1>5, <1>6, <1>8, <1>9 DEF SingleInv

LEMMA SingleInvariant == Spec => []SingleInv
<1>1. SingleInv /\ [Next]_vars => SingleInv'
  BY TypeStep, TargetStep, DetailStep, WritesStep DEF SingleInv
<1> QED
  BY <1>1, InitSingle, PTL DEF Spec

\* The page's state keeps its shape: a row's id is never the script's null,
\* every request in flight is one the page sends, every answer a table.
THEOREM TypeCorrect == Spec => []TypeOK
BY SingleInvariant, PTL DEF SingleInv

\* For any number of rows and requests in flight, a dialog's request is for
\* the row the dialog was opened for: the load balancer's edit link ticks the
\* row before its dialog reads the selection again (load_balancer_panel.js).
THEOREM DialogActsOnItsRow == Spec => []TargetIsTheDialogs
BY SingleInvariant, PTL DEF SingleInv

\* When no answers crossed, failed or were preceded by a ticking edit link,
\* the detail shown is the selected row's: a refresh removes the detail before
\* the table is rendered anew, and a click asks for the detail of its row.
THEOREM DetailFollowsSelection == Spec => []DetailIsOfSelected
<1>1. SingleInv => DetailIsOfSelected
  <2> SUFFICES ASSUME SingleInv, Quiet, hist \cap {"crossed", "failed", "ticked"} = {}
               PROVE  (radio # Nil => det = radio) /\ (radio = Nil /\ PanelRefresh.clears => det = Nil)
    BY DEF DetailIsOfSelected
  <2>1. Lists(req) = {} /\ Details(req) = {}
    BY DEF Quiet, Lists, Details
  <2> QED
    BY <2>1 DEF SingleInv, DetailInv, DetailOf
<1> QED
  BY <1>1, SingleInvariant, PTL

\* The rows shown once all is quiet are the server's, the user's own writes
\* included: from the moment the server works on a post until its success
\* handler asks for the list, some request in flight leads to that handler.
THEOREM WritesAreSeen == Spec => []OwnWritesAreSeen
<1>1. SingleInv => OwnWritesAreSeen
  <2> SUFFICES ASSUME SingleInv, Quiet, hist \cap {"overtaken", "failed", "raced"} = {} PROVE rows = PageRows(cur)
    BY DEF OwnWritesAreSeen
  <2>1. Lists(req) = {} /\ ~TriggerIn(req, panel)
    BY DEF Quiet, Lists, TriggerIn
  <2> QED
    BY <2>1 DEF SingleInv, WritesInv, Spoilt, FreshOf, Page
<1> QED
  BY <1>1, SingleInvariant, PTL

=============================================================================
