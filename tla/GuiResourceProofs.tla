------------------------- MODULE GuiResourceProofs -------------------------
(***************************************************************************)
(* For any accounts and items, and any number of openings, steps of the    *)
(* user and requests in flight: a button of a dialog acts on the item the  *)
(* dialog shows, an update keeps the account of the item, and what was     *)
(* fetched for a field is of that field.                                   *)
(***************************************************************************)
EXTENDS GuiResource, WellFoundedInduction, TLAPS

(***************************************************************************)
(* Types                                                                   *)
(***************************************************************************)
RequestKind == {"content", "list", "drives", "vifs", "post", "md5"}
Req == {r \in [kind : RequestKind, arg : Nat, by : Nat] : r.kind = "list" => r.arg \in Account}
Form == [num : Nat, loaded : BOOLEAN, bound : Nat, acct : Account, cache : Account \cup {Nil},
         list : Account \cup {Nil}, item : Nat, fields : Nat, path : Nat, md5 : Nat, uuid : Nat, drives : Nat, vifs : Nat]
Sent == [button : {"none", "delete", "update"}, acct : Account \cup {Nil},
         item : Nat, fields : Nat, pending : BOOLEAN, stale : BOOLEAN]

TypeOK ==
    /\ kind \in Kinds
    /\ forms \in Seq(Form)
    /\ open \in Nat /\ opens \in Nat /\ steps \in Nat
    /\ btn \subseteq {"delete", "update"}
    /\ masked \in BOOLEAN
    /\ req \in Seq(Req)
    /\ sent \in Sent

(***************************************************************************)
(* The invariants, of a form f and a queue q of requests                   *)
(***************************************************************************)
\* The visible dialog is the one opened last, and its elements are in the
\* document.
OpenInv == open # 0 => open = opens /\ \E n \in DOMAIN forms : forms[n].num = open

\* A dialog whose content has not come is as it was made; one whose content is
\* there has its handlers.  The fields are those of the item as long as the list
\* shown is the one the dialog has cached.
Fresh(f) == /\ f.loaded => f.bound > 0
            /\ ~f.loaded => f = Blank(f.num)
Shows(f) == /\ f.item = f.fields \/ f.list # f.cache
            /\ f.cache \in NoItems => f.fields = Nil

\* As long as no dialog was hidden there are no other elements in the document
\* than those of the visible dialog.
Alone == "hidden" \notin hist
AloneInv ==
    Alone => /\ open = 0 => forms = <<>>
             /\ open # 0 => Len(forms) = 1 /\ forms[1].num = open
             /\ \A n \in DOMAIN forms : Fresh(forms[n]) /\ (kind \in PickKinds => Shows(forms[n]))

\* A dialog waits for its content and nothing else, or its handlers are bound
\* once, nothing of an earlier dialog is in flight and the list shown is the
\* cached one.
Waiting(f, q, o) == f = Blank(o) /\ Len(q) = 1 /\ q[1].kind = "content"
Bound(f, q) == f.loaded /\ f.bound = 1 /\ \A n \in DOMAIN q : q[n].kind # "content"
DialogOk(f, q, o) == /\ Waiting(f, q, o) \/ Bound(f, q)
                     /\ f.list = f.cache
                     /\ \A n \in DOMAIN q : q[n].by = o

Tidy == hist \cap {"hidden", "reopened"} = {}
DialogInv == Tidy => /\ open = 0 => req = <<>>
                     /\ open # 0 => DialogOk(forms[1], req, open)

\* The request of kind k asked for last is of v; once none is on its way, what is
\* shown, w, is that of v.
Of(q, k) == {n \in DOMAIN q : q[n].kind = k}
Newest(q, k, n) == \A m \in Of(q, k) : m <= n
KindOk(q, k, v, w) == /\ \A n \in Of(q, k) : Newest(q, k, n) => q[n].arg = v
                      /\ Of(q, k) = {} => w = v

\* The list asked for last is that of the selected account; once it is there
\* the item list is the account's, and so is the item.
AccountOk(f, q) == /\ KindOk(q, "list", f.acct, f.list)
                   /\ f.item = Nil \/ Owner(f.item) = f.list

Clean == hist \cap {"hidden", "failed", "overtaken", "reopened"} = {}
AccountInv ==
    Clean /\ open # 0 /\ kind \notin CreateKinds /\ forms[1].loaded => AccountOk(forms[1], req)

\* The tables asked for last are those of is_uuid, which is the selected item.
TablesOk(f, q) ==
    /\ f.item # Nil => f.item = f.uuid
    /\ KindOk(q, "vifs", f.uuid, f.vifs)
    /\ f.item # Nil => KindOk(q, "drives", f.uuid, f.drives)

InOrder == hist \cap {"hidden", "failed", "crossed"} = {}
TablesInv == InOrder /\ open # 0 /\ kind = "drives" /\ forms[1].loaded => TablesOk(forms[1], req)

\* An md5 that is on its way is of the path, is the only one, and masks the
\* dialog, so that the path cannot change before it arrives.
Md5Ok(f, q, m) ==
    /\ f.md5 \in {Nil, f.path}
    /\ \A n \in DOMAIN q : q[n].kind = "md5" =>
         m /\ q[n].arg = f.path /\ \A k \in DOMAIN q : q[k].kind = "md5" => k = n

Masked == hist \cap {"hidden", "reopened", "unmasked"} = {}
Md5Inv == Masked /\ open # 0 /\ kind = "create_wmi" => Md5Ok(forms[1], req, masked)

(***************************************************************************)
(* Sequences                                                               *)
(***************************************************************************)
Old(n, k) == IF k < n THEN k ELSE k + 1
Cut(s, t, n) ==
    /\ \A k \in DOMAIN t : Old(n, k) \in DOMAIN s /\ Old(n, k) # n /\ t[k] = s[Old(n, k)]
    /\ \A k, m \in DOMAIN t : k < m <=> Old(n, k) < Old(n, m)
    /\ \A j \in DOMAIN s : j # n => \E k \in DOMAIN t : Old(n, k) = j
    /\ DOMAIN s \subseteq Nat /\ DOMAIN t \subseteq Nat

LEMMA Joined ==
  ASSUME NEW T, NEW u \in Seq(T), NEW v \in Seq(T)
  PROVE  u \o v \in Seq(T) /\ Len(u \o v) = Len(u) + Len(v)
OBVIOUS

LEMMA Part ==
  ASSUME NEW T, NEW s \in Seq(T), NEW a \in Nat \ {0}, NEW b \in Nat, a <= b + 1, b <= Len(s)
  PROVE  /\ SubSeq(s, a, b) \in Seq(T)
         /\ Len(SubSeq(s, a, b)) = b - a + 1
         /\ \A k \in 1 .. b - a + 1 : SubSeq(s, a, b)[k] = s[a + k - 1]
<1>1. \A k \in a .. b : s[k] \in T
  OBVIOUS
<1> QED
  BY <1>1

LEMMA Cutting ==
  ASSUME NEW T, NEW s \in Seq(T), NEW n \in DOMAIN s
  PROVE  RemoveAt(s, n) \in Seq(T) /\ Cut(s, RemoveAt(s, n), n)
<1> DEFINE u == SubSeq(s, 1, n - 1)
           v == SubSeq(s, n + 1, Len(s))
           t == u \o v
<1>0. n \in 1 .. Len(s) /\ Len(s) \in Nat /\ DOMAIN s = 1 .. Len(s)
  OBVIOUS
<1>1. /\ u \in Seq(T) /\ Len(u) = n - 1 /\ \A k \in 1 .. n - 1 : u[k] = s[k]
      /\ v \in Seq(T) /\ Len(v) = Len(s) - n /\ \A k \in 1 .. Len(s) - n : v[k] = s[k + n]
  <2>1. /\ u \in Seq(T) /\ Len(u) = (n - 1) - 1 + 1
        /\ \A k \in 1 .. (n - 1) - 1 + 1 : u[k] = s[1 + k - 1]
    BY <1>0, Part
  <2>2. /\ v \in Seq(T) /\ Len(v) = Len(s) - (n + 1) + 1
        /\ \A k \in 1 .. Len(s) - (n + 1) + 1 : v[k] = s[(n + 1) + k - 1]
    BY <1>0, Part
  <2> HIDE DEF u, v
  <2>3. /\ (n - 1) - 1 + 1 = n - 1 /\ Len(s) - (n + 1) + 1 = Len(s) - n
        /\ \A k \in 1 .. n - 1 : 1 + k - 1 = k
        /\ \A k \in 1 .. Len(s) - n : (n + 1) + k - 1 = k + n
    BY <1>0
  <2> QED
    BY <2>1, <2>2, <2>3
<1>2. RemoveAt(s, n) = t
  BY DEF RemoveAt
<1> HIDE DEF u, v
<1>3. t \in Seq(T) /\ Len(t) = Len(s) - 1
  <2>1. u \o v \in Seq(T) /\ Len(u \o v) = Len(u) + Len(v)
    BY <1>1, Joined
  <2>2. Len(u) + Len(v) = Len(s) - 1
    BY <1>0, <1>1
  <2> QED
    BY <2>1, <2>2
<1>4. DOMAIN t = 1 .. Len(s) - 1
  BY <1>3
<1>5. ASSUME NEW k \in 1 .. Len(s) - 1 PROVE t[k] = s[Old(n, k)]
  <2>1. CASE k < n
    BY <1>0, <1>1, <2>1 DEF Old
  <2>2. CASE ~(k < n)
    <3>1. (k - (n - 1)) \in 1 .. Len(s) - n /\ (k - (n - 1)) + n = k + 1 /\ k > Len(u) /\ k <= Len(u) + Len(v)
      BY <1>0, <1>1, <2>2
    <3>2. t[k] = v[k - Len(u)]
      BY <1>1, <3>1
    <3> QED
      BY <1>1, <2>2, <3>1, <3>2 DEF Old
  <2> QED
    BY <2>1, <2>2
<1> HIDE DEF t
<1>6. \A k \in DOMAIN t : Old(n, k) \in DOMAIN s /\ Old(n, k) # n
  BY <1>0, <1>4 DEF Old
<1>7. \A k, m \in DOMAIN t : k < m <=> Old(n, k) < Old(n, m)
  BY <1>0, <1>4 DEF Old
<1>8. ASSUME NEW j \in DOMAIN s, j # n PROVE \E k \in DOMAIN t : Old(n, k) = j
  <2>1. CASE j < n
    BY <1>0, <1>4, <2>1 DEF Old
  <2>2. CASE ~(j < n)
    <3>1. j - 1 \in 1 .. Len(s) - 1 /\ ~(j - 1 < n) /\ (j - 1) + 1 = j
      BY <1>0, <1>8, <2>2
    <3> QED
      BY <1>4, <3>1 DEF Old
  <2> QED
    BY <2>1, <2>2
<1> QED
  BY <1>0, <1>2, <1>3, <1>4, <1>5, <1>6, <1>7, <1>8 DEF Cut

Longer(s, t, q) ==
    /\ t \in Seq(Req) /\ Len(s) \in Nat /\ Len(q) \in Nat
    /\ DOMAIN s = 1 .. Len(s) /\ DOMAIN q = 1 .. Len(q) /\ DOMAIN t = 1 .. Len(s) + Len(q)
    /\ \A k \in 1 .. Len(s) : t[k] = s[k]
    /\ \A k \in 1 .. Len(q) : t[Len(s) + k] = q[k]

LEMMA Lengthening ==
  ASSUME NEW s \in Seq(Req), NEW q \in Seq(Req)
  PROVE  Longer(s, s \o q, q)
<1> DEFINE t == s \o q
<1>1. /\ t \in Seq(Req) /\ Len(t) = Len(s) + Len(q)
      /\ Len(s) \in Nat /\ Len(q) \in Nat
  BY Joined
<1>2. \A k \in 1 .. Len(s) : t[k] = s[k]
  OBVIOUS
<1>3. \A k \in 1 .. Len(q) : t[Len(s) + k] = q[k]
  <2> TAKE k \in 1 .. Len(q)
  <2>1. Len(s) + k > Len(s) /\ Len(s) + k <= Len(s) + Len(q) /\ (Len(s) + k) - Len(s) = k
    BY <1>1
  <2>2. t[Len(s) + k] = q[(Len(s) + k) - Len(s)]
    BY <1>1, <2>1
  <2> QED
    BY <2>1, <2>2
<1>4. DOMAIN s = 1 .. Len(s) /\ DOMAIN q = 1 .. Len(q) /\ DOMAIN t = 1 .. Len(s) + Len(q)
  BY <1>1
<1> QED
  BY <1>1, <1>2, <1>3, <1>4 DEF Longer

\* The numbers of a set of natural numbers have a first one.
LEMMA FirstOf ==
  ASSUME NEW S, S \subseteq Nat, S # {}
  PROVE  \E n \in S : \A m \in S : n <= m
<1>1. IsWellFoundedOn(OpToRel(<, Nat), Nat)
  BY NatLessThanWellFounded
<1>2. PICK n \in S : \A m \in S : ~(<<m, n>> \in OpToRel(<, Nat))
  BY <1>1, WFMin
<1>3. \A m \in S : ~(m < n)
  BY <1>2 DEF OpToRel
<1> QED
  BY <1>3

LEMMA TimesType ==
  ASSUME NEW k \in Nat, NEW q \in Seq(Req), Len(q) \in {1, 2}
  PROVE  /\ Times(k, q) \in Seq(Req)
         /\ \A j \in DOMAIN Times(k, q) : \E i \in DOMAIN q : Times(k, q)[j] = q[i]
         /\ k > 0 => \A i \in DOMAIN q : i \in DOMAIN Times(k, q) /\ Times(k, q)[i] = q[i]
<1>1. k * Len(q) \in Nat
  OBVIOUS
<1>2. \A i \in 1 .. k * Len(q) : ((i - 1) % Len(q)) + 1 \in 1 .. Len(q)
  <2>1. CASE Len(q) = 1
    BY <1>1, <2>1
  <2>2. CASE Len(q) = 2
    BY <1>1, <2>2
  <2> QED
    BY <2>1, <2>2
<1>3. \A n \in 1 .. Len(q) : q[n] \in Req
  OBVIOUS
<1>4. Times(k, q) \in [1 .. k * Len(q) -> Req]
  BY <1>2, <1>3 DEF Times
<1>5. DOMAIN Times(k, q) = 1 .. k * Len(q) /\ DOMAIN q = 1 .. Len(q)
  BY DEF Times
<1>6. \A j \in DOMAIN Times(k, q) : \E i \in DOMAIN q : Times(k, q)[j] = q[i]
  BY <1>2, <1>5 DEF Times
<1>7. ASSUME k > 0, NEW i \in DOMAIN q PROVE i \in DOMAIN Times(k, q) /\ Times(k, q)[i] = q[i]
  <2>1. i \in 1 .. k * Len(q)
    <3>1. CASE Len(q) = 1
      BY <1>5, <1>7, <3>1
    <3>2. CASE Len(q) = 2
      BY <1>5, <1>7, <3>2
    <3> QED
      BY <3>1, <3>2
  <2>2. ((i - 1) % Len(q)) + 1 = i
    <3>1. CASE Len(q) = 1
      BY <1>5, <3>1
    <3>2. CASE Len(q) = 2
      <4>1. (1 - 1) % 2 = 0 /\ (2 - 1) % 2 = 1
        OBVIOUS
      <4>2. i = 1 \/ i = 2
        BY <1>5, <3>2
      <4> QED
        BY <3>2, <4>1, <4>2
    <3> QED
      BY <3>1, <3>2
  <2> QED
    BY <1>5, <2>1, <2>2 DEF Times
<1>8. Times(k, q) \in Seq(Req)
  BY <1>1, <1>4
<1> QED
  BY <1>6, <1>7, <1>8

LEMMA TimesOne ==
  ASSUME NEW q \in Seq(Req), Len(q) \in {1, 2}
  PROVE  Times(1, q) = q
<1>1. 1 * Len(q) = Len(q)
  OBVIOUS
<1>2. \A i \in 1 .. Len(q) : ((i - 1) % Len(q)) + 1 = i
  <2>1. CASE Len(q) = 1
    BY <2>1
  <2>2. CASE Len(q) = 2
    <3>1. (1 - 1) % 2 = 0 /\ (2 - 1) % 2 = 1
      OBVIOUS
    <3>2. \A i \in 1 .. 2 : i = 1 \/ i = 2
      OBVIOUS
    <3> QED
      BY <2>2, <3>1, <3>2
  <2> QED
    BY <2>1, <2>2
<1>3. Times(1, q) = [i \in 1 .. Len(q) |-> q[i]]
  BY <1>1, <1>2 DEF Times
<1> QED
  BY <1>3

(***************************************************************************)
(* Constants, requests and forms                                           *)
(***************************************************************************)
LEMMA Constants ==
  /\ Account \subseteq Nat \ {0} /\ 1 \in Account /\ Nil = 0 /\ Nil \notin Account
  /\ \A k \in Kinds : k \in PickKinds \/ k = "drives" \/ k \in CreateKinds
  /\ "drives" \notin PickKinds /\ "drives" \notin CreateKinds /\ PickKinds \cap CreateKinds = {}
BY ResourceAssumption DEF Nil, PickKinds, CreateKinds

LEMMA ItemFacts ==
  ASSUME NEW a \in Account
  PROVE  /\ First(a) \in Nat /\ (First(a) = Nil \/ Owner(First(a)) = a) /\ (First(a) = Nil <=> a \in NoItems)
         /\ \A i \in Items(a) : i \in Nat /\ i # Nil /\ Owner(i) = a /\ a \notin NoItems
<1>1. a \in Nat /\ 10 * a + 1 \in Nat \ {0} /\ 10 * a + 2 \in Nat \ {0}
  BY Constants
<1>2. (10 * a + 1) \div 10 = a /\ (10 * a + 2) \div 10 = a
  BY <1>1
<1> QED
  BY <1>1, <1>2 DEF First, Items, Owner, Nil

LEMMA RequestTypes ==
  /\ \A k \in RequestKind \ {"list"} : \A a, b \in Nat : Request(k, a, b) \in Req
  /\ \A a \in Account : \A b \in Nat : Request("list", a, b) \in Req
  /\ \A k, a, b : Request(k, a, b).kind = k /\ Request(k, a, b).arg = a /\ Request(k, a, b).by = b
BY Constants DEF Request, Req, RequestKind

LEMMA RequestOf ==
  ASSUME NEW r \in Req
  PROVE  r.kind \in RequestKind /\ r.arg \in Nat /\ r.by \in Nat /\ (r.kind = "list" => r.arg \in Account)
BY DEF Req

LEMMA BlankType == \A n \in Nat : Blank(n) \in Form
BY Constants DEF Blank, Form, Nil

LEMMA FormParts ==
  ASSUME NEW f \in Form
  PROVE  /\ f.num \in Nat /\ f.loaded \in BOOLEAN /\ f.bound \in Nat /\ f.acct \in Account
         /\ f.cache \in Account \cup {Nil} /\ f.list \in Account \cup {Nil} /\ f.item \in Nat /\ f.fields \in Nat /\ f.path \in Nat
         /\ f.md5 \in Nat /\ f.uuid \in Nat /\ f.drives \in Nat /\ f.vifs \in Nat
BY DEF Form

LEMMA FormUpdates ==
  ASSUME NEW f \in Form
  PROVE  /\ [f EXCEPT !.loaded = TRUE] \in Form
         /\ \A k \in Nat : /\ [f EXCEPT !.bound = k] \in Form /\ [f EXCEPT !.item = k] \in Form
                           /\ [f EXCEPT !.path = k] \in Form /\ [f EXCEPT !.md5 = k] \in Form
                           /\ [f EXCEPT !.drives = k] \in Form /\ [f EXCEPT !.vifs = k] \in Form
                           /\ ShowItem(f, k) \in Form /\ ShowSpec(f, k) \in Form
         /\ \A a \in Account : [f EXCEPT !.acct = a] \in Form /\ [f EXCEPT !.list = a] \in Form
BY DEF Form, ShowItem, ShowSpec, Cached

\* One form of the document is replaced.
LEMMA Replacing ==
  ASSUME NEW fs \in Seq(Form), NEW n \in DOMAIN fs, NEW g \in Form
  PROVE  /\ [fs EXCEPT ![n] = g] \in Seq(Form) /\ Len([fs EXCEPT ![n] = g]) = Len(fs)
         /\ DOMAIN [fs EXCEPT ![n] = g] = DOMAIN fs
         /\ [fs EXCEPT ![n] = g][n] = g
         /\ \A m \in DOMAIN fs \ {n} : [fs EXCEPT ![n] = g][m] = fs[m]
OBVIOUS

LEMMA VisibleIn ==
  ASSUME TypeOK, OpenInv, open # 0
  PROVE  /\ Visible \in DOMAIN forms /\ forms[Visible].num = open /\ forms[Visible] \in Form
         /\ open = opens
<1>1. Visible \in DOMAIN forms /\ forms[Visible].num = open
  BY DEF OpenInv, Visible
<1> QED
  BY <1>1 DEF TypeOK, OpenInv

LEMMA ReachedAt ==
  ASSUME NEW fs \in Seq(Form), Loaded(fs) # {}
  PROVE  ReachedIn(fs) \in DOMAIN fs /\ fs[ReachedIn(fs)].loaded /\ fs[ReachedIn(fs)] \in Form
<1>1. Loaded(fs) \subseteq Nat
  BY DEF Loaded
<1>2. \E f \in Loaded(fs) : \A g \in Loaded(fs) : f <= g
  BY <1>1, FirstOf
<1>3. ReachedIn(fs) \in Loaded(fs)
  BY <1>2 DEF ReachedIn
<1> QED
  BY <1>3 DEF Loaded

\* What the user does in a dialog is done in one whose content is there.
LEMMA Acting ==
  ASSUME TypeOK, OpenInv, UserActs
  PROVE  /\ Visible \in DOMAIN forms /\ forms[Visible].num = open /\ forms[Visible] \in Form
         /\ forms[Visible].loaded /\ open = opens /\ open # 0 /\ steps' \in Nat
         /\ Reached \in DOMAIN forms /\ forms[Reached].loaded /\ forms[Reached] \in Form
<1>1. /\ Visible \in DOMAIN forms /\ forms[Visible].num = open /\ forms[Visible] \in Form
      /\ forms[Visible].loaded /\ open = opens /\ open # 0 /\ steps' \in Nat
  BY VisibleIn DEF UserActs, TypeOK
<1>2. Loaded(forms) # {} /\ forms \in Seq(Form)
  BY <1>1 DEF Loaded, TypeOK
<1> QED
  BY <1>1, <1>2, ReachedAt DEF Reached

(***************************************************************************)
(* Requests                                                                *)
(***************************************************************************)
\* The request n is answered and nothing is sent.
LEMMA Answering ==
  ASSUME TypeOK, NEW n \in DOMAIN req
  PROVE  /\ RemoveAt(req, n) \in Seq(Req) /\ Cut(req, RemoveAt(req, n), n)
         /\ req[n] \in Req
BY Cutting DEF TypeOK

LEMMA Sending ==
  ASSUME NEW s \in Seq(Req), NEW q \in Seq(Req), Send(s, q)
  PROVE  req' \in Seq(Req) /\ Longer(s, req', q)
<1>1. Longer(s, req', q)
  BY Lengthening DEF Send
<1> QED
  BY <1>1 DEF Longer

LEMMA SendingOne ==
  ASSUME NEW s \in Seq(Req), NEW r \in Req, Send(s, <<r>>)
  PROVE  req' \in Seq(Req) /\ Longer(s, req', <<r>>)
<1>1. <<r>> \in Seq(Req)
  OBVIOUS
<1> QED
  BY <1>1, Sending

LEMMA SendingTimes ==
  ASSUME NEW s \in Seq(Req), NEW k \in Nat, NEW q \in Seq(Req), Len(q) \in {1, 2}, Send(s, Times(k, q))
  PROVE  /\ req' \in Seq(Req)
         /\ k = 1 => Longer(s, req', q)
BY TimesType, TimesOne, Sending

LEMMA ListsAndTables ==
  /\ \A a \in Account : \A b \in Nat : <<Request("list", a, b)>> \in Seq(Req)
  /\ open \in Nat => \A i \in Nat : TableRequests(i) \in Seq(Req) /\ Len(TableRequests(i)) = 2
<1>1. ASSUME open \in Nat, NEW i \in Nat PROVE TableRequests(i) \in Seq(Req) /\ Len(TableRequests(i)) = 2
  <2>1. Request("drives", i, open) \in Req /\ Request("vifs", i, open) \in Req
    BY <1>1, RequestTypes DEF RequestKind
  <2> QED
    BY <2>1 DEF TableRequests
<1> QED
  BY <1>1, RequestTypes

(***************************************************************************)
(* Types                                                                   *)
(***************************************************************************)
Typed == TypeOK /\ OpenInv

LEMMA TypeStart == Init => Typed
<1> SUFFICES ASSUME Init PROVE Typed
  OBVIOUS
<1>1. sent \in Sent
  BY Constants DEF Init, Sent
<1>2. forms \in Seq(Form) /\ req \in Seq(Req)
  BY DEF Init
<1>3. TypeOK
  BY <1>1, <1>2 DEF Init, TypeOK
<1> QED
  BY <1>3 DEF Init, Typed, OpenInv

LEMMA ButtonTypes ==
  ASSUME kind \in PickKinds, NEW i
  PROVE  ItemButtons(i) \subseteq {"delete", "update"}
BY DEF PickKinds, ItemButtons, HostNodeButtons, StorageNodeButtons, SpecButtons, ImageButtons, Note

LEMMA OpenTypes == Typed /\ OpenDialog => Typed'
<1> SUFFICES ASSUME Typed, OpenDialog PROVE Typed'
  OBVIOUS
<1>1. opens' \in Nat /\ open' = opens' /\ Blank(opens') \in Form /\ Blank(opens').num = opens'
  BY BlankType DEF OpenDialog, Typed, TypeOK, Blank
<1>2. /\ forms' \in Seq(Form) /\ Len(forms') = Len(forms) + 1 /\ Len(forms) \in Nat
      /\ forms'[Len(forms) + 1] = Blank(opens')
  BY <1>1 DEF OpenDialog, Typed, TypeOK
<1>3. Request("content", Nil, opens') \in Req
  BY <1>1, RequestTypes DEF RequestKind, Nil
<1>4. req' \in Seq(Req)
  BY <1>3, SendingOne DEF OpenDialog, Typed, TypeOK
<1>5. Len(forms) + 1 \in DOMAIN forms'
  BY <1>2
<1> QED
  BY <1>1, <1>2, <1>4, <1>5 DEF OpenDialog, Typed, TypeOK, OpenInv

LEMMA CloseTypes == Typed /\ CloseButton => Typed'
<1> SUFFICES ASSUME Typed, CloseButton PROVE Typed'
  OBVIOUS
<1>1. Visible \in DOMAIN forms
  BY VisibleIn DEF CloseButton, Typed
<1>2. forms' \in Seq(Form)
  BY <1>1, Cutting DEF CloseButton, Typed, TypeOK
<1> QED
  BY <1>2 DEF CloseButton, Typed, TypeOK, OpenInv

LEMMA HideTypes == Typed /\ Hide => Typed'
BY DEF Hide, Typed, TypeOK, OpenInv

\* The forms keep their numbers.
SameForms(fs, gs) == /\ gs \in Seq(Form) /\ DOMAIN gs = DOMAIN fs
                     /\ \A n \in DOMAIN fs : gs[n].num = fs[n].num

LEMMA SameOpen ==
  ASSUME Typed, SameForms(forms, forms'), UNCHANGED <<open, opens>>
  PROVE  OpenInv'
BY DEF Typed, OpenInv, SameForms

LEMMA SameReplaced ==
  ASSUME NEW fs \in Seq(Form), NEW n \in DOMAIN fs, NEW g \in Form, g.num = fs[n].num
  PROVE  SameForms(fs, [fs EXCEPT ![n] = g])
BY Replacing DEF SameForms

LEMMA ContentForms ==
  ASSUME TypeOK, NEW k
  PROVE  /\ SameForms(forms, WithContent(k))
         /\ \A f \in DOMAIN forms : forms[f].num = k => f \in Loaded(WithContent(k))
<1>1. \A f \in DOMAIN forms : forms[f] \in Form /\ [forms[f] EXCEPT !.loaded = TRUE] \in Form
                              /\ [forms[f] EXCEPT !.loaded = TRUE].loaded
                              /\ [forms[f] EXCEPT !.loaded = TRUE].num = forms[f].num
  <2> TAKE f \in DOMAIN forms
  <2>1. forms[f] \in Form
    BY DEF TypeOK
  <2>2. [forms[f] EXCEPT !.loaded = TRUE] \in Form
    BY <2>1, FormUpdates
  <2> QED
    BY <2>1, <2>2 DEF Form
<1>2. Len(forms) \in Nat /\ DOMAIN forms = 1 .. Len(forms)
  BY DEF TypeOK
<1>3. WithContent(k) \in [1 .. Len(forms) -> Form]
  BY <1>1, <1>2 DEF WithContent
<1>4. WithContent(k) \in Seq(Form) /\ DOMAIN WithContent(k) = DOMAIN forms
  BY <1>2, <1>3
<1> QED
  BY <1>1, <1>4 DEF WithContent, SameForms, Loaded

\* The lists that the handlers of form f ask for once the content is there.
AskedLists(f) == Times(f.bound + 1, <<Request("list", f.acct, f.num)>>)
LEMMA AskingLists ==
  ASSUME NEW f \in Form
  PROVE  AskedLists(f) \in Seq(Req)
<1>1. f.bound + 1 \in Nat /\ f.acct \in Account /\ f.num \in Nat
  BY FormParts
<1>2. <<Request("list", f.acct, f.num)>> \in Seq(Req) /\ Len(<<Request("list", f.acct, f.num)>>) = 1
  BY <1>1, ListsAndTables
<1> QED
  BY <1>1, <1>2, TimesType DEF AskedLists

LEMMA ContentTypes ==
  ASSUME Typed, NEW n \in DOMAIN req, ContentAnswer(n)
  PROVE  Typed'
<1> DEFINE r == RemoveAt(req, n)
<1>1. r \in Seq(Req) /\ req[n].by \in Nat /\ open \in Nat
  BY Answering, RequestOf DEF Typed, TypeOK
<1> HIDE DEF r
<1>2. CASE /\ \A f \in DOMAIN forms : forms[f].num # req[n].by
           /\ req' = r /\ forms' = forms
  BY <1>1, <1>2 DEF ContentAnswer, Typed, TypeOK, OpenInv
<1>3. ASSUME NEW f \in DOMAIN forms, forms[f].num = req[n].by,
             NEW fs, fs = WithContent(req[n].by),
             forms' = [fs EXCEPT ![ReachedIn(fs)].bound = @ + 1],
             \E p : /\ \/ p = <<>>
                       \/ p = AskedLists(fs[ReachedIn(fs)])
                       \/ p = TableRequests(Nil) \o AskedLists(fs[ReachedIn(fs)])
                    /\ Send(r, p)
      PROVE  Typed'
  <2> DEFINE k == ReachedIn(fs)
             g == [fs[k] EXCEPT !.bound = @ + 1]
  <2>1. SameForms(forms, fs) /\ f \in Loaded(fs)
    BY <1>3, ContentForms DEF Typed
  <2>2. k \in DOMAIN fs /\ fs[k] \in Form
    BY <2>1, ReachedAt DEF SameForms
  <2> HIDE DEF k
  <2>3. fs[k].bound \in Nat /\ fs[k].acct \in Account /\ fs[k].bound + 1 \in Nat
    BY <2>2, FormParts
  <2>4. g \in Form /\ g.num = fs[k].num
    <3>1. g = [fs[k] EXCEPT !.bound = fs[k].bound + 1]
      OBVIOUS
    <3> QED
      BY <2>2, <2>3, <3>1, FormUpdates DEF Form
  <2>5. forms' = [fs EXCEPT ![k] = g]
    BY <1>3 DEF k
  <2> HIDE DEF g
  <2>6. SameForms(forms, forms')
    <3>1. SameForms(fs, forms')
      BY <2>1, <2>2, <2>4, <2>5, SameReplaced DEF SameForms
    <3> QED
      BY <2>1, <3>1 DEF SameForms
  <2>7. req' \in Seq(Req)
    <3>1. PICK p : /\ \/ p = <<>>
                      \/ p = AskedLists(fs[k])
                      \/ p = TableRequests(Nil) \o AskedLists(fs[k])
                   /\ Send(r, p)
      BY <1>3 DEF k
    <3>2. AskedLists(fs[k]) \in Seq(Req)
      BY <2>2, AskingLists
    <3>3. TableRequests(Nil) \in Seq(Req)
      BY <1>1, ListsAndTables DEF Nil
    <3>a. <<>> \in Seq(Req)
      OBVIOUS
    <3>b. TableRequests(Nil) \o AskedLists(fs[k]) \in Seq(Req)
      BY <3>2, <3>3, Joined
    <3>4. p \in Seq(Req)
      BY <3>1, <3>2, <3>a, <3>b
    <3> QED
      BY <1>1, <3>1, <3>4, Sending
  <2> HIDE DEF Send
  <2>8. OpenInv'
    BY <2>6, SameOpen DEF ContentAnswer
  <2> QED
    BY <2>6, <2>7, <2>8 DEF ContentAnswer, Typed, TypeOK, SameForms
<1>4. \/ /\ \A f \in DOMAIN forms : forms[f].num # req[n].by
         /\ req' = r /\ forms' = forms
      \/ \E f \in DOMAIN forms : \E fs, p :
            /\ forms[f].num = req[n].by /\ fs = WithContent(req[n].by)
            /\ forms' = [fs EXCEPT ![ReachedIn(fs)].bound = @ + 1]
            /\ \/ p = <<>>
               \/ p = AskedLists(fs[ReachedIn(fs)])
               \/ p = TableRequests(Nil) \o AskedLists(fs[ReachedIn(fs)])
            /\ Send(r, p)
  BY DEF ContentAnswer, r, AskedLists
<1> QED
  BY <1>2, <1>3, <1>4

LEMMA ChooseAccountTypes == Typed /\ ChooseAccount => Typed'
<1> SUFFICES ASSUME Typed, ChooseAccount PROVE Typed'
  OBVIOUS
<1> DEFINE v == Visible
           b == forms[v].bound
<1>1. PICK a \in Account :
        /\ forms' = [forms EXCEPT ![v].acct = a]
        /\ Send(req, Times(b, <<Request("list", forms'[Reached].acct, forms[Reached].num)>>))
  BY DEF ChooseAccount
<1>2. v \in DOMAIN forms /\ forms[v] \in Form /\ Reached \in DOMAIN forms /\ steps' \in Nat
  BY Acting DEF ChooseAccount, Typed
<1> HIDE DEF v
<1>3. [forms[v] EXCEPT !.acct = a] \in Form /\ [forms[v] EXCEPT !.acct = a].num = forms[v].num
      /\ b \in Nat
  BY <1>2, FormUpdates, FormParts DEF Form
<1>4. forms' = [forms EXCEPT ![v] = [forms[v] EXCEPT !.acct = a]]
  BY <1>1
<1>5. SameForms(forms, forms')
  BY <1>2, <1>3, <1>4, SameReplaced DEF Typed, TypeOK
<1>6. forms'[Reached].acct \in Account /\ forms[Reached].num \in Nat
  BY <1>2, <1>5, FormParts DEF SameForms
<1>7. req' \in Seq(Req)
  <2>1. <<Request("list", forms'[Reached].acct, forms[Reached].num)>> \in Seq(Req)
    BY <1>6, ListsAndTables
  <2>2. Len(<<Request("list", forms'[Reached].acct, forms[Reached].num)>>) = 1
    OBVIOUS
  <2> QED
    BY <1>1, <1>3, <2>1, <2>2, SendingTimes DEF Typed, TypeOK
<1>8. OpenInv'
  BY <1>5, SameOpen DEF ChooseAccount
<1> QED
  BY <1>2, <1>5, <1>7, <1>8 DEF ChooseAccount, Typed, TypeOK, SameForms

\* The dialogs once a list is cached and shown, and once an empty one has cleared
\* the fields.
LEMMA FilledForms ==
  ASSUME TypeOK, NEW a \in Account, NEW by
  PROVE  SameForms(forms, Filled(a, by))
<1>1. \A f \in DOMAIN forms : forms[f] \in Form
  BY DEF TypeOK
<1>2. Len(forms) \in Nat /\ DOMAIN forms = 1 .. Len(forms)
  BY DEF TypeOK
<1>3. \A f \in DOMAIN forms : Filled(a, by)[f] \in Form /\ Filled(a, by)[f].num = forms[f].num
  BY <1>1 DEF Filled, Form
<1>4. Filled(a, by) \in [1 .. Len(forms) -> Form]
  BY <1>2, <1>3 DEF Filled
<1>5. Filled(a, by) \in Seq(Form) /\ DOMAIN Filled(a, by) = DOMAIN forms
  BY <1>2, <1>4
<1> QED
  BY <1>3, <1>5 DEF SameForms

LEMMA EmptiedForms ==
  ASSUME NEW fs \in Seq(Form), NEW by
  PROVE  SameForms(fs, Emptied(fs, by))
<1>1. \A f \in DOMAIN fs : fs[f] \in Form
  OBVIOUS
<1>2. Len(fs) \in Nat /\ DOMAIN fs = 1 .. Len(fs)
  OBVIOUS
<1>3. ASSUME NEW f \in DOMAIN fs
      PROVE  Emptied(fs, by)[f] \in Form /\ Emptied(fs, by)[f].num = fs[f].num
  <2>1. fs[f].item \in Nat /\ fs[f].fields \in Nat /\ Nil \in Nat
    BY <1>1, FormParts DEF Nil
  <2>2. PICK i, j \in Nat : Emptied(fs, by)[f] = [fs[f] EXCEPT !.item = i, !.fields = j]
    <3> DEFINE i == IF f = Reached THEN Nil ELSE fs[f].item
               j == IF kind \in {"edit_hn", "edit_is"} /\ fs[f].num = by THEN Nil
                    ELSE IF kind \in {"delete_sn", "delete_wmi"} /\ f = Reached THEN Nil
                    ELSE fs[f].fields
    <3>1. i \in Nat /\ j \in Nat
      BY <2>1
    <3>2. Emptied(fs, by)[f] = [fs[f] EXCEPT !.item = i, !.fields = j]
      BY <1>1 DEF Emptied
    <3> QED
      BY <3>1, <3>2
  <2> QED
    BY <1>1, <2>2 DEF Form
<1>4. Emptied(fs, by) \in [1 .. Len(fs) -> Form]
  BY <1>2, <1>3 DEF Emptied
<1>5. Emptied(fs, by) \in Seq(Form) /\ DOMAIN Emptied(fs, by) = DOMAIN fs
  BY <1>2, <1>4
<1> QED
  BY <1>3, <1>5 DEF SameForms

LEMMA ListTypes ==
  ASSUME Typed, NEW n \in DOMAIN req, ListAnswer(n)
  PROVE  Typed'
<1> DEFINE k == Reached
           a == req[n].arg
           fs == Filled(a, req[n].by)
           f == fs[k]
<1>1. RemoveAt(req, n) \in Seq(Req) /\ a \in Account /\ req[n].kind = "list"
  BY Answering, RequestOf DEF ListAnswer, Typed
<1>2. k \in DOMAIN forms
  BY ReachedAt DEF ListAnswer, Reached, Typed, TypeOK
<1>3. SameForms(forms, fs) /\ SameForms(fs, Emptied(fs, req[n].by))
  <2>1. SameForms(forms, fs)
    BY <1>1, FilledForms DEF Typed
  <2> HIDE DEF fs
  <2>2. SameForms(fs, Emptied(fs, req[n].by))
    BY <2>1, EmptiedForms DEF SameForms
  <2> QED
    BY <2>1, <2>2
<1>4. First(a) \in Nat
  BY <1>1, ItemFacts
<1>5. \/ /\ forms' = [fs EXCEPT ![k] = ShowItem(f, First(a))]
         /\ btn' \subseteq {"delete", "update"} /\ req' = RemoveAt(req, n)
      \/ /\ forms' = Emptied(fs, req[n].by)
         /\ btn' \subseteq {"delete", "update"} /\ req' = RemoveAt(req, n)
      \/ /\ forms' = [fs EXCEPT ![k] = ShowSpec([f EXCEPT !.item = First(a)], First(a))]
         /\ Send(RemoveAt(req, n), Times(f.bound, TableRequests(First(a))))
         /\ btn' = btn
      \/ /\ forms' = [fs EXCEPT ![k] = [f EXCEPT !.item = Nil, !.drives = Nil]]
         /\ req' = RemoveAt(req, n)
         /\ btn' = btn
  <2>1. btn \subseteq {"delete", "update"}
    BY DEF Typed, TypeOK
  <2>2. kind \in PickKinds => ItemButtons(First(a)) \subseteq {"delete", "update"}
    BY ButtonTypes
  <2> QED
    BY <2>1, <2>2 DEF ListAnswer
<1>0. kind' = kind /\ UNCHANGED <<open, opens, masked, steps, sent>>
  BY DEF ListAnswer
<1> HIDE DEF f, k, a, fs
<1>f. f \in Form /\ f.bound \in Nat
  <2>1. f \in Form
    BY <1>2, <1>3 DEF SameForms, f
  <2> QED
    BY <2>1, FormParts
<1>6. /\ ShowItem(f, First(a)) \in Form /\ ShowItem(f, First(a)).num = f.num
      /\ ShowSpec([f EXCEPT !.item = First(a)], First(a)) \in Form
      /\ ShowSpec([f EXCEPT !.item = First(a)], First(a)).num = f.num
      /\ [f EXCEPT !.item = Nil, !.drives = Nil] \in Form
      /\ [f EXCEPT !.item = Nil, !.drives = Nil].num = f.num
  BY <1>f, <1>4, Constants DEF Form, ShowItem, ShowSpec
<1>7. SameForms(forms, forms')
  <2>1. \A g \in Form : g.num = f.num => SameForms(fs, [fs EXCEPT ![k] = g])
    BY <1>2, <1>3, SameReplaced DEF SameForms, f
  <2>2. SameForms(fs, forms')
    BY <1>3, <1>5, <1>6, <2>1
  <2> QED
    BY <1>3, <2>2 DEF SameForms
<1>8. req' \in Seq(Req) /\ btn' \subseteq {"delete", "update"}
  <2>1. TableRequests(First(a)) \in Seq(Req) /\ Len(TableRequests(First(a))) = 2
    BY <1>4, ListsAndTables DEF Typed, TypeOK
  <2>2. btn \subseteq {"delete", "update"}
    BY DEF Typed, TypeOK
  <2>3. CASE req' = RemoveAt(req, n)
    BY <1>1, <1>5, <2>2, <2>3
  <2>4. CASE Send(RemoveAt(req, n), Times(f.bound, TableRequests(First(a)))) /\ btn' = btn
    BY <1>1, <1>f, <2>1, <2>2, <2>4, SendingTimes
  <2> QED
    BY <1>5, <2>3, <2>4
<1>9. OpenInv'
  BY <1>0, <1>7, SameOpen
<1> QED
  BY <1>0, <1>7, <1>8, <1>9 DEF Typed, TypeOK, SameForms

LEMMA ChooseItemTypes == Typed /\ ChooseItem => Typed'
<1> SUFFICES ASSUME Typed, ChooseItem PROVE Typed'
  OBVIOUS
<1> DEFINE v == Visible
           k == Reached
           f == forms[v]
<1>1. /\ v \in DOMAIN forms /\ f \in Form /\ k \in DOMAIN forms /\ forms[k] \in Form
      /\ f.list \in Account /\ steps' \in Nat /\ f.bound \in Nat
  <2>1. v \in DOMAIN forms /\ f \in Form /\ k \in DOMAIN forms /\ forms[k] \in Form /\ steps' \in Nat
    BY Acting DEF ChooseItem, Typed
  <2> QED
    BY <2>1, FormParts DEF ChooseItem
<1>i. PICK i \in Items(f.list) : \E fs, j :
        /\ fs = [forms EXCEPT ![v].item = i] /\ j = fs[k].item
        /\ \/ forms' = fs /\ UNCHANGED <<btn, req>>
           \/ /\ kind \in PickKinds
              /\ forms' = [fs EXCEPT ![k] = ShowItem(@, j)]
              /\ btn' \in {ItemButtons(j), btn} /\ req' = req
           \/ /\ forms' = [fs EXCEPT ![v] = ShowSpec(@, j)]
              /\ Send(req, Times(f.bound, TableRequests(j)))
              /\ btn' = btn
  BY DEF ChooseItem
<1>2. PICK fs, j :
        /\ fs = [forms EXCEPT ![v].item = i] /\ j = fs[k].item
        /\ \/ forms' = fs /\ UNCHANGED <<btn, req>>
           \/ /\ kind \in PickKinds
              /\ forms' = [fs EXCEPT ![k] = ShowItem(@, j)]
              /\ btn' \in {ItemButtons(j), btn} /\ req' = req
           \/ /\ forms' = [fs EXCEPT ![v] = ShowSpec(@, j)]
              /\ Send(req, Times(f.bound, TableRequests(j)))
              /\ btn' = btn
  BY <1>i
<1>0. UNCHANGED <<kind, open, masked, opens, sent>>
  BY DEF ChooseItem
<1> HIDE DEF v, k
<1>3. i \in Nat
  BY <1>1, ItemFacts
<1>4. SameForms(forms, fs)
  <2>1. [f EXCEPT !.item = i] \in Form /\ [f EXCEPT !.item = i].num = f.num
    BY <1>1, <1>3, FormUpdates DEF Form
  <2>2. fs = [forms EXCEPT ![v] = [f EXCEPT !.item = i]]
    BY <1>2
  <2> QED
    BY <1>1, <2>1, <2>2, SameReplaced DEF Typed, TypeOK
<1>5. fs[k] \in Form /\ fs[v] \in Form /\ j \in Nat
  <2>1. fs[k] \in Form /\ fs[v] \in Form
    BY <1>1, <1>4 DEF SameForms
  <2> QED
    BY <1>2, <2>1, FormParts
<1>6. /\ ShowItem(fs[k], j) \in Form /\ ShowItem(fs[k], j).num = fs[k].num
      /\ ShowSpec(fs[v], j) \in Form /\ ShowSpec(fs[v], j).num = fs[v].num
  BY <1>5 DEF ShowItem, ShowSpec, Form
<1>7. SameForms(forms, forms')
  <2>1. forms' = fs \/ forms' = [fs EXCEPT ![k] = ShowItem(fs[k], j)] \/ forms' = [fs EXCEPT ![v] = ShowSpec(fs[v], j)]
    BY <1>2
  <2>2. SameForms(fs, [fs EXCEPT ![k] = ShowItem(fs[k], j)]) /\ SameForms(fs, [fs EXCEPT ![v] = ShowSpec(fs[v], j)])
    BY <1>1, <1>4, <1>6, SameReplaced DEF SameForms
  <2> QED
    BY <1>4, <2>1, <2>2 DEF SameForms
<1>8. req' \in Seq(Req)
  <2>1. TableRequests(j) \in Seq(Req) /\ Len(TableRequests(j)) = 2
    BY <1>5, ListsAndTables DEF Typed, TypeOK
  <2> QED
    BY <1>1, <1>2, <2>1, SendingTimes DEF Typed, TypeOK
<1>9. btn' \subseteq {"delete", "update"}
  BY <1>2, ButtonTypes DEF Typed, TypeOK
<1>10. OpenInv'
  BY <1>0, <1>7, SameOpen
<1> QED
  BY <1>0, <1>1, <1>7, <1>8, <1>9, <1>10 DEF Typed, TypeOK, SameForms

LEMMA TableTypes ==
  ASSUME Typed, NEW n \in DOMAIN req, TableAnswer(n)
  PROVE  Typed'
<1> DEFINE k == Reached
           f == forms[k]
           a == req[n].arg
<1>1. RemoveAt(req, n) \in Seq(Req) /\ a \in Nat
  BY Answering, RequestOf DEF Typed
<1>2. k \in DOMAIN forms /\ f \in Form
  BY ReachedAt DEF TableAnswer, Reached, Typed, TypeOK
<1>3. forms' = [forms EXCEPT ![k] = [f EXCEPT !.drives = a]] \/ forms' = [forms EXCEPT ![k] = [f EXCEPT !.vifs = a]]
  BY DEF TableAnswer
<1> HIDE DEF k, a
<1>4. /\ [f EXCEPT !.drives = a] \in Form /\ [f EXCEPT !.drives = a].num = f.num
      /\ [f EXCEPT !.vifs = a] \in Form /\ [f EXCEPT !.vifs = a].num = f.num
  BY <1>1, <1>2 DEF Form
<1>5. SameForms(forms, forms')
  <2>1. \A g \in Form : g.num = f.num => SameForms(forms, [forms EXCEPT ![k] = g])
    BY <1>2, SameReplaced DEF Typed, TypeOK
  <2> QED
    BY <1>3, <1>4, <2>1
<1>6. OpenInv'
  BY <1>5, SameOpen DEF TableAnswer
<1> QED
  BY <1>1, <1>5, <1>6 DEF TableAnswer, Typed, TypeOK, SameForms

LEMMA PressTypes == Typed /\ (PressButton \/ PressCreate) => Typed'
<1> SUFFICES ASSUME Typed, PressButton \/ PressCreate PROVE Typed'
  OBVIOUS
<1>1. /\ Visible \in DOMAIN forms /\ forms[Visible] \in Form /\ steps' \in Nat
  BY Acting DEF PressButton, PressCreate, Typed
<1>2. Request("post", Nil, open) \in Req
  BY RequestTypes DEF RequestKind, Nil, Typed, TypeOK
<1>3. req' \in Seq(Req)
  BY <1>2, SendingOne DEF PressButton, PressCreate, Typed, TypeOK
<1>4. sent' \in Sent
  <2>1. CASE PressCreate
    BY <2>1 DEF PressCreate, Typed, TypeOK
  <2>2. CASE PressButton
    <3>1. PICK b \in btn \cap PickButtons :
             sent' = [button |-> b, acct |-> forms[Visible].acct, item |-> forms[Visible].item,
                      fields |-> forms[Visible].fields, pending |-> InFlight("list") # {},
                      stale |-> forms[Visible].list # forms[Visible].cache]
      BY <2>2 DEF PressButton
    <3>2. b \in {"delete", "update"}
      BY DEF Typed, TypeOK
    <3>3. /\ forms[Visible].acct \in Account /\ forms[Visible].item \in Nat /\ forms[Visible].fields \in Nat
          /\ (InFlight("list") # {}) \in BOOLEAN /\ (forms[Visible].list # forms[Visible].cache) \in BOOLEAN
      BY <1>1, FormParts
    <3> QED
      BY <3>1, <3>2, <3>3 DEF Sent
  <2> QED
    BY <2>1, <2>2
<1>5. masked' \in BOOLEAN
  <2>1. CASE PressButton
    BY <2>1 DEF PressButton
  <2>2. CASE PressCreate
    BY <2>2 DEF PressCreate, CreateKinds, CreateButton, CreateHostNode, CreateStorageNode, CreateSpec,
                CreateImage, CreateUser, CreateGroup
  <2> QED
    BY <2>1, <2>2
<1> QED
  BY <1>1, <1>3, <1>4, <1>5 DEF PressButton, PressCreate, Typed, TypeOK, OpenInv

\* The dialog of bt_X.content is destroyed.
LEMMA Destroying ==
  ASSUME TypeOK, NEW num
  PROVE  /\ Destroyed(num) \in Seq(Form)
         /\ (\A f \in DOMAIN forms : forms[f].num # num) => Destroyed(num) = forms
         /\ \A f \in DOMAIN forms : (\A g \in DOMAIN forms : forms[g].num = num <=> g = f) =>
              Destroyed(num) = RemoveAt(forms, f)
<1> DEFINE at == {f \in DOMAIN forms : forms[f].num = num}
<1>1. CASE at = {}
  BY <1>1 DEF Destroyed, TypeOK
<1>2. CASE at # {}
  <2> DEFINE c == CHOOSE f \in at : TRUE
  <2>1. c \in at
    BY <1>2
  <2>2. Destroyed(num) = RemoveAt(forms, c)
    BY <1>2 DEF Destroyed
  <2> HIDE DEF c
  <2>3. c \in DOMAIN forms /\ forms \in Seq(Form)
    BY <2>1 DEF TypeOK
  <2>4. RemoveAt(forms, c) \in Seq(Form)
    BY <2>3, Cutting
  <2> QED
    BY <2>1, <2>2, <2>4
<1> QED
  BY <1>1, <1>2

LEMMA PostTypes ==
  ASSUME Typed, NEW n \in DOMAIN req, PostSucceeds(n) \/ PostFails(n)
  PROVE  Typed'
<1>1. RemoveAt(req, n) \in Seq(Req)
  BY Answering DEF Typed
<1>2. CASE PostSucceeds(n)
  <2>1. Destroyed(opens) \in Seq(Form)
    BY Destroying DEF Typed
  <2> QED
    BY <1>1, <1>2, <2>1 DEF PostSucceeds, Typed, TypeOK, OpenInv
<1>3. CASE PostFails(n)
  BY <1>1, <1>3 DEF PostFails, Typed, TypeOK, OpenInv
<1> QED
  BY <1>2, <1>3

LEMMA LostTypes ==
  ASSUME Typed, NEW n \in DOMAIN req, RequestFails(n) \/ LateAnswer(n)
  PROVE  Typed'
<1>1. RemoveAt(req, n) \in Seq(Req)
  BY Answering DEF Typed
<1>2. masked' \in BOOLEAN /\ btn' \subseteq {"delete", "update"}
  BY DEF RequestFails, LateAnswer, Typed, TypeOK
<1> QED
  BY <1>1, <1>2 DEF RequestFails, LateAnswer, Typed, TypeOK, OpenInv

LEMMA PathTypes == Typed /\ ChangePath => Typed'
<1> SUFFICES ASSUME Typed, ChangePath PROVE Typed'
  OBVIOUS
<1> DEFINE v == Visible
           f == forms[v]
<1>p. PICK p \in {1, 2} : \E fs :
        /\ fs = [forms EXCEPT ![v].path = p]
        /\ (forms' = fs \/ forms' = [fs EXCEPT ![ReachedIn(fs)].md5 = Nil])
  BY DEF ChangePath, PathChanged
<1>1. PICK fs : /\ fs = [forms EXCEPT ![v].path = p]
                /\ (forms' = fs \/ forms' = [fs EXCEPT ![ReachedIn(fs)].md5 = Nil])
  BY <1>p
<1>2. v \in DOMAIN forms /\ f \in Form /\ f.loaded /\ steps' \in Nat
  BY Acting DEF ChangePath, Typed
<1> HIDE DEF v
<1>3. [f EXCEPT !.path = p] \in Form /\ [f EXCEPT !.path = p].num = f.num /\ [f EXCEPT !.path = p].loaded
  BY <1>2 DEF Form
<1>4. SameForms(forms, fs) /\ fs[v].loaded
  <2>1. fs = [forms EXCEPT ![v] = [f EXCEPT !.path = p]]
    BY <1>1
  <2>2. SameForms(forms, fs)
    BY <1>2, <1>3, <2>1, SameReplaced DEF Typed, TypeOK
  <2> QED
    BY <1>2, <1>3, <2>1, <2>2 DEF Typed, TypeOK
<1>5. ReachedIn(fs) \in DOMAIN fs /\ fs[ReachedIn(fs)] \in Form
  <2>1. Loaded(fs) # {} /\ fs \in Seq(Form)
    BY <1>2, <1>4 DEF Loaded, SameForms
  <2> QED
    BY <2>1, ReachedAt
<1>6. SameForms(forms, forms')
  <2> DEFINE k == ReachedIn(fs)
             g == [fs[k] EXCEPT !.md5 = Nil]
  <2>1. forms' = fs \/ forms' = [fs EXCEPT ![k] = g]
    BY <1>1
  <2>2. g \in Form /\ g.num = fs[k].num
    BY <1>5 DEF Form, Nil
  <2>3. fs \in Seq(Form) /\ k \in DOMAIN fs
    BY <1>4, <1>5 DEF SameForms
  <2> HIDE DEF k, g
  <2>4. SameForms(fs, [fs EXCEPT ![k] = g])
    BY <2>2, <2>3, SameReplaced
  <2> QED
    BY <1>4, <2>1, <2>4 DEF SameForms
<1>7. OpenInv'
  BY <1>6, SameOpen DEF ChangePath
<1> QED
  BY <1>2, <1>6, <1>7 DEF ChangePath, Typed, TypeOK, SameForms

LEMMA Md5Types == Typed /\ PressMd5 => Typed'
<1> SUFFICES ASSUME Typed, PressMd5 PROVE Typed'
  OBVIOUS
<1> DEFINE r == Request("md5", forms[Reached].path, open)
<1>1. /\ forms[Visible] \in Form /\ steps' \in Nat /\ forms[Reached] \in Form
  BY Acting DEF PressMd5, Typed
<1>2. forms[Reached].path \in Nat /\ forms[Visible].bound \in Nat
  BY <1>1, FormParts
<1>3. r \in Req
  BY <1>2, RequestTypes DEF RequestKind, Typed, TypeOK
<1>4. Send(req, Times(forms[Visible].bound, <<r>>))
  BY DEF PressMd5
<1> HIDE DEF r
<1>5. <<r>> \in Seq(Req) /\ Len(<<r>>) = 1
  BY <1>3
<1>6. req' \in Seq(Req)
  BY <1>2, <1>4, <1>5, SendingTimes DEF Typed, TypeOK
<1> QED
  BY <1>1, <1>6 DEF PressMd5, Typed, TypeOK, OpenInv

LEMMA Md5AnswerTypes ==
  ASSUME Typed, NEW n \in DOMAIN req, Md5Answer(n)
  PROVE  Typed'
<1> DEFINE k == Reached
           a == req[n].arg
           g == [forms[k] EXCEPT !.md5 = a]
<1>1. RemoveAt(req, n) \in Seq(Req) /\ a \in Nat
  BY Answering, RequestOf DEF Typed
<1>2. k \in DOMAIN forms /\ forms[k] \in Form
  BY ReachedAt DEF Md5Answer, Reached, Typed, TypeOK
<1>3. forms' = [forms EXCEPT ![k] = g]
  BY DEF Md5Answer
<1> HIDE DEF k, a
<1>4. g \in Form /\ g.num = forms[k].num
  BY <1>1, <1>2 DEF Form
<1>5. SameForms(forms, forms')
  BY <1>2, <1>3, <1>4, SameReplaced DEF Typed, TypeOK
<1>6. OpenInv'
  BY <1>5, SameOpen DEF Md5Answer
<1> QED
  BY <1>1, <1>5, <1>6 DEF Md5Answer, Typed, TypeOK, SameForms

LEMMA TypeStep == Typed /\ [Next]_vars => Typed'
<1> SUFFICES ASSUME Typed, [Next]_vars PROVE Typed'
  OBVIOUS
<1>1. CASE UNCHANGED vars
  BY <1>1 DEF vars, Typed, TypeOK, OpenInv
<1>2. ASSUME NEW n \in DOMAIN req, Answer(n) PROVE Typed'
  BY <1>2, ContentTypes, ListTypes, TableTypes, PostTypes, LostTypes, Md5AnswerTypes DEF Answer
<1>3. CASE OpenDialog \/ CloseButton \/ Hide
  BY <1>3, OpenTypes, CloseTypes, HideTypes
<1>4. CASE ChooseAccount \/ ChooseItem \/ PressButton \/ PressCreate \/ ChangePath \/ PressMd5
  BY <1>4, ChooseAccountTypes, ChooseItemTypes, PressTypes, PathTypes, Md5Types
<1> QED
  BY <1>1, <1>2, <1>3, <1>4 DEF Next

\* The dialogs, their elements and the requests in flight keep their shape, and
\* the visible dialog is the one opened last, with its elements in the document.
THEOREM TypeCorrect == Spec => []TypeOK
<1>1. Typed => TypeOK
  BY DEF Typed
<1> QED
  BY <1>1, TypeStart, TypeStep, PTL DEF Spec

(***************************************************************************)
(* What the actions do as long as no dialog was hidden                     *)
(***************************************************************************)
Solo == Typed /\ AloneInv /\ Alone
One(fs, g) == fs \in Seq(Form) /\ Len(fs) = 1 /\ DOMAIN fs = {1} /\ fs[1] = g

LEMMA NotesKept == [Next]_vars => hist \subseteq hist'
<1> SUFFICES ASSUME [Next]_vars PROVE hist \subseteq hist'
  OBVIOUS
<1>1. CASE UNCHANGED vars
  BY <1>1 DEF vars
<1>2. ASSUME NEW n \in DOMAIN req, Answer(n) PROVE hist \subseteq hist'
  BY <1>2 DEF Answer, ContentAnswer, ListAnswer, TableAnswer, PostSucceeds, PostFails, RequestFails, LateAnswer, Md5Answer
<1>3. CASE OpenDialog \/ CloseButton \/ Hide
  BY <1>3 DEF OpenDialog, CloseButton, Hide
<1>4. CASE ChooseAccount \/ ChooseItem \/ PressButton \/ PressCreate \/ ChangePath \/ PressMd5
  BY <1>4 DEF ChooseAccount, ChooseItem, PressButton, PressCreate, ChangePath, PressMd5
<1> QED
  BY <1>1, <1>2, <1>3, <1>4 DEF Next

LEMMA KindKept == [Next]_vars => kind' = kind
<1> SUFFICES ASSUME [Next]_vars PROVE kind' = kind
  OBVIOUS
<1>1. CASE UNCHANGED vars
  BY <1>1 DEF vars
<1>2. ASSUME NEW n \in DOMAIN req, Answer(n) PROVE kind' = kind
  BY <1>2 DEF Answer, ContentAnswer, ListAnswer, TableAnswer, PostSucceeds, PostFails, RequestFails,
              LateAnswer, Md5Answer
<1>3. CASE OpenDialog \/ CloseButton \/ Hide
  BY <1>3 DEF OpenDialog, CloseButton, Hide
<1>4. CASE ChooseAccount \/ ChooseItem \/ PressButton \/ PressCreate \/ ChangePath \/ PressMd5
  BY <1>4 DEF ChooseAccount, ChooseItem, PressButton, PressCreate, ChangePath, PressMd5
<1> QED
  BY <1>1, <1>2, <1>3, <1>4 DEF Next

LEMMA OneOf ==
  ASSUME NEW fs \in Seq(Form), Len(fs) = 1
  PROVE  One(fs, fs[1]) /\ fs[1] \in Form
BY DEF One

LEMMA SingleDomain ==
  ASSUME NEW fs \in Seq(Form), DOMAIN fs = {1}
  PROVE  Len(fs) = 1
OBVIOUS

LEMMA OneReplaced ==
  ASSUME NEW fs, NEW f, One(fs, f), NEW g \in Form
  PROVE  One([fs EXCEPT ![1] = g], g)
<1>1. fs \in Seq(Form) /\ 1 \in DOMAIN fs /\ Len(fs) = 1 /\ DOMAIN fs = {1}
  BY DEF One
<1> QED
  BY <1>1, Replacing DEF One

LEMMA OneReached ==
  ASSUME NEW fs, NEW f, One(fs, f)
  PROVE  /\ Loaded(fs) # {} => f.loaded
         /\ f.loaded => Loaded(fs) # {} /\ ReachedIn(fs) = 1
BY DEF One, Loaded, ReachedIn

LEMMA SoloOpen ==
  ASSUME Solo, open # 0
  PROVE  /\ One(forms, forms[1]) /\ forms[1] \in Form /\ Visible = 1 /\ open = opens /\ forms[1].num = open
         /\ Loaded(forms) # {} => forms[1].loaded
         /\ forms[1].loaded => Loaded(forms) # {} /\ Reached = 1 /\ forms[1].bound > 0
         /\ Fresh(forms[1]) /\ (kind \in PickKinds => Shows(forms[1]))
<1>1. forms \in Seq(Form) /\ Len(forms) = 1 /\ forms[1].num = open
  BY DEF Solo, Typed, TypeOK, AloneInv
<1>2. One(forms, forms[1]) /\ forms[1] \in Form
  BY <1>1, OneOf
<1>3. Visible = 1 /\ open = opens
  BY <1>2, VisibleIn DEF Solo, Typed, One
<1>4. 1 \in DOMAIN forms
  BY <1>2 DEF One
<1>5. Fresh(forms[1]) /\ (kind \in PickKinds => Shows(forms[1]))
  BY <1>4 DEF Solo, AloneInv
<1>6. forms[1].loaded => forms[1].bound > 0
  BY <1>5 DEF Fresh
<1> QED
  BY <1>1, <1>2, <1>3, <1>5, <1>6, OneReached DEF Reached

LEMMA SoloClosed ==
  ASSUME Solo, open = 0
  PROVE  forms = <<>> /\ DOMAIN forms = {} /\ Loaded(forms) = {}
BY DEF Solo, AloneInv, Loaded

\* An answer that finds loaded elements finds those of the visible dialog.
LEMMA SoloAnswer ==
  ASSUME Solo, Loaded(forms) # {}
  PROVE  open # 0 /\ One(forms, forms[1]) /\ forms[1] \in Form /\ forms[1].loaded /\ Reached = 1
BY SoloOpen, SoloClosed

LEMMA SoloActs ==
  ASSUME Solo, UserActs
  PROVE  /\ open # 0 /\ One(forms, forms[1]) /\ forms[1] \in Form /\ forms[1].loaded /\ forms[1].bound > 0
         /\ Visible = 1 /\ Reached = 1
<1>1. open # 0 /\ forms[Visible].loaded
  BY DEF UserActs
<1> QED
  BY <1>1, SoloOpen

LEMMA SoloOpening ==
  ASSUME Solo, OpenDialog
  PROVE  /\ One(forms', Blank(open')) /\ open' # 0 /\ open' \in Nat
         /\ Send(req, <<Request("content", Nil, open')>>)
<1>1. forms = <<>> /\ opens' \in Nat \ {0} /\ open' = opens' /\ Blank(opens') \in Form
  BY SoloClosed, BlankType DEF OpenDialog, Solo, Typed, TypeOK
<1>2. forms' = Append(<<>>, Blank(open'))
  BY <1>1 DEF OpenDialog
<1>3. <<>> \in Seq(Form)
  OBVIOUS
<1>4. forms' \in Seq(Form) /\ Len(forms') = 1 /\ forms'[1] = Blank(open')
  BY <1>1, <1>2, <1>3
<1> QED
  BY <1>1, <1>4 DEF OpenDialog, One

LEMMA RemovedAlone ==
  ASSUME NEW f, One(forms, f)
  PROVE  RemoveAt(forms, 1) = <<>>
<1>1. forms \in Seq(Form) /\ Len(forms) = 1
  BY DEF One
<1>2. SubSeq(forms, 1, 0) = <<>> /\ SubSeq(forms, 2, 1) = <<>>
  BY <1>1
<1> QED
  BY <1>1, <1>2 DEF RemoveAt

LEMMA SoloClosing ==
  ASSUME Solo, CloseButton
  PROVE  forms' = <<>> /\ open' = 0 /\ open # 0
<1>1. open # 0 /\ forms' = RemoveAt(forms, Visible) /\ open' = 0
  BY DEF CloseButton
<1> QED
  BY <1>1, SoloOpen, RemovedAlone

LEMMA SoloPosted ==
  ASSUME Solo, NEW n \in DOMAIN req, PostSucceeds(n)
  PROVE  forms' = <<>> /\ open' = 0
<1>1. forms' = Destroyed(opens) /\ open' = 0
  BY DEF PostSucceeds
<1>2. CASE open = 0
  BY <1>1, <1>2, SoloClosed, Destroying DEF Solo, Typed
<1>3. CASE open # 0
  <2>1. One(forms, forms[1]) /\ forms[1].num = opens
    BY <1>3, SoloOpen
  <2>2. \A g \in DOMAIN forms : forms[g].num = opens <=> g = 1
    BY <2>1 DEF One
  <2>3. 1 \in DOMAIN forms
    BY <2>1 DEF One
  <2>4. Destroyed(opens) = RemoveAt(forms, 1)
    BY <2>2, <2>3, Destroying DEF Solo, Typed
  <2> QED
    BY <1>1, <2>1, <2>4, RemovedAlone
<1> QED
  BY <1>2, <1>3

\* The content of the visible dialog, or of one that is gone.
Loading(f) == [f EXCEPT !.loaded = TRUE, !.bound = @ + 1]
ContentSends(f) == IF kind \in CreateKinds THEN <<>>
                   ELSE IF kind = "drives" /\ f.bound = 0 THEN TableRequests(Nil) \o AskedLists(f)
                   ELSE AskedLists(f)
LEMMA SoloContent ==
  ASSUME Solo, NEW n \in DOMAIN req, ContentAnswer(n)
  PROVE  \/ forms' = forms /\ req' = RemoveAt(req, n) /\ (open = 0 \/ req[n].by # open)
         \/ /\ open # 0 /\ req[n].by = open /\ One(forms', Loading(forms[1])) /\ forms[1] \in Form
            /\ Send(RemoveAt(req, n), ContentSends(forms[1]))
<1>1. CASE open = 0
  BY <1>1, SoloClosed DEF ContentAnswer
<1>2. CASE open # 0
  <2> DEFINE f == forms[1]
             fs == WithContent(req[n].by)
             k == ReachedIn(fs)
             h == [f EXCEPT !.loaded = TRUE]
  <2>1. One(forms, f) /\ f \in Form /\ f.num = open /\ DOMAIN forms = {1}
    BY <1>2, SoloOpen DEF One
  <2>2. CASE req[n].by # open
    BY <2>1, <2>2 DEF ContentAnswer
  <2>3. CASE req[n].by = open
    <3>1. SameForms(forms, fs)
      BY ContentForms DEF Solo, Typed
    <3>2. fs[1] = h
      BY <2>1, <2>3 DEF WithContent
    <3>3. h \in Form /\ h.loaded /\ h.bound = f.bound /\ h.acct = f.acct /\ h.num = f.num /\ f.bound \in Nat
      BY <2>1 DEF Form
    <3>4. One(fs, h)
      <4>1. fs \in Seq(Form) /\ DOMAIN fs = {1}
        BY <2>1, <3>1 DEF SameForms
      <4>2. Len(fs) = 1
        BY <4>1, SingleDomain
      <4> QED
        BY <3>2, <4>1, <4>2 DEF One
    <3>5. k = 1
      BY <3>3, <3>4, OneReached
    <3>6. /\ forms' = [fs EXCEPT ![k].bound = @ + 1]
          /\ Send(RemoveAt(req, n), ContentSends(fs[k]))
      BY <2>1, <2>3, Constants DEF ContentAnswer, ContentSends, AskedLists
    <3> HIDE DEF fs, k
    <3>a. ContentSends(h) = ContentSends(f)
      BY <3>3 DEF ContentSends, AskedLists
    <3>7. Loading(f) \in Form /\ Loading(f) = [h EXCEPT !.bound = h.bound + 1]
      <4>1. Loading(f) = [h EXCEPT !.bound = h.bound + 1]
        BY <2>1 DEF Form, Loading
      <4>2. h.bound + 1 \in Nat
        BY <3>3
      <4> QED
        BY <3>3, <4>1, <4>2, FormUpdates
    <3>8. forms' = [fs EXCEPT ![1] = Loading(f)]
      BY <3>2, <3>5, <3>6, <3>7
    <3>9. One(forms', Loading(f))
      BY <3>4, <3>7, <3>8, OneReplaced
    <3> QED
      BY <1>2, <2>1, <2>3, <3>2, <3>a, <3>5, <3>6, <3>9
  <2> QED
    BY <2>2, <2>3
<1> QED
  BY <1>1, <1>2

Chosen(f, a) == [f EXCEPT !.acct = a]
LEMMA SoloChooseAccount ==
  ASSUME Solo, ChooseAccount
  PROVE  /\ open # 0 /\ forms[1] \in Form /\ forms[1].loaded /\ kind \notin CreateKinds
         /\ \E a \in Account : /\ One(forms', Chosen(forms[1], a))
                               /\ Send(req, Times(forms[1].bound, <<Request("list", a, open)>>))
<1> DEFINE f == forms[1]
<1>1. /\ open # 0 /\ One(forms, f) /\ f \in Form /\ f.loaded /\ Visible = 1 /\ Reached = 1
      /\ f.num = open
  BY SoloActs, SoloOpen DEF ChooseAccount
<1>2. PICK a \in Account :
        /\ forms' = [forms EXCEPT ![1].acct = a]
        /\ Send(req, Times(f.bound, <<Request("list", forms'[1].acct, open)>>))
  BY <1>1 DEF ChooseAccount
<1>3. Chosen(f, a) \in Form /\ Chosen(f, a).acct = a
  BY <1>1 DEF Form, Chosen
<1>4. forms' = [forms EXCEPT ![1] = Chosen(f, a)]
  BY <1>2 DEF Chosen
<1>5. One(forms', Chosen(f, a))
  BY <1>1, <1>3, <1>4, OneReplaced
<1>6. forms'[1].acct = a
  BY <1>3, <1>5 DEF One
<1> QED
  BY <1>1, <1>2, <1>5, <1>6 DEF ChooseAccount

Listed(f, a, by) == [f EXCEPT !.cache = IF f.num = by THEN a ELSE @, !.list = a]
Cleared(f, by) == [f EXCEPT !.item = Nil,
                            !.fields = IF kind \in {"edit_hn", "edit_is"} /\ f.num # by THEN @ ELSE Nil]
NoSpec(f) == [f EXCEPT !.item = Nil, !.drives = Nil]
NewSpec(f, i) == ShowSpec([f EXCEPT !.item = i], i)

LEMMA ListedParts ==
  ASSUME NEW f \in Form, NEW a \in Account, NEW by, NEW l, l = Listed(f, a, by)
  PROVE  /\ l \in Form /\ l.num = f.num /\ l.loaded = f.loaded /\ l.bound = f.bound /\ l.acct = f.acct
         /\ l.list = a /\ l.cache = (IF f.num = by THEN a ELSE f.cache) /\ l.item = f.item /\ l.fields = f.fields
         /\ l.path = f.path /\ l.md5 = f.md5 /\ l.uuid = f.uuid /\ l.drives = f.drives /\ l.vifs = f.vifs
BY DEF Listed, Form

LEMMA ClearedParts ==
  ASSUME NEW f \in Form, NEW by, NEW g, g = Cleared(f, by)
  PROVE  /\ g \in Form /\ g.num = f.num /\ g.loaded = f.loaded /\ g.bound = f.bound /\ g.acct = f.acct
         /\ g.list = f.list /\ g.cache = f.cache /\ g.item = Nil
         /\ g.fields = (IF kind \in {"edit_hn", "edit_is"} /\ f.num # by THEN f.fields ELSE Nil)
BY Constants DEF Cleared, Form

LEMMA SoloList ==
  ASSUME Solo, NEW n \in DOMAIN req, ListAnswer(n), NEW a, a = req[n].arg,
         NEW l, l = Listed(forms[1], a, req[n].by)
  PROVE  /\ open # 0 /\ forms[1] \in Form /\ forms[1].loaded /\ a \in Account /\ l \in Form
         /\ \/ /\ kind \in PickKinds /\ First(a) # Nil /\ One(forms', ShowItem(l, First(a)))
               /\ req' = RemoveAt(req, n)
            \/ /\ kind \in PickKinds /\ First(a) = Nil /\ One(forms', Cleared(l, req[n].by))
               /\ req' = RemoveAt(req, n)
            \/ /\ kind = "drives" /\ First(a) # Nil /\ One(forms', NewSpec(l, First(a)))
               /\ Send(RemoveAt(req, n), Times(forms[1].bound, TableRequests(First(a))))
            \/ /\ kind = "drives" /\ First(a) = Nil /\ One(forms', NoSpec(l))
               /\ req' = RemoveAt(req, n)
<1> DEFINE f == forms[1]
           by == req[n].by
           fs == Filled(a, by)
<1>1. open # 0 /\ One(forms, f) /\ f \in Form /\ f.loaded /\ Reached = 1
  BY SoloAnswer DEF ListAnswer
<1>2. a \in Account
  BY Answering, RequestOf DEF ListAnswer, Solo, Typed
<1>3. First(a) \in Nat
  BY <1>2, ItemFacts
<1>4. l \in Form /\ l.bound = f.bound
  BY <1>1, <1>2, ListedParts
<1>5. fs[1] = l
  BY <1>1 DEF Filled, Listed, One
<1>6. One(fs, l)
  <2>1. SameForms(forms, fs)
    BY <1>2, FilledForms DEF Solo, Typed
  <2> HIDE DEF fs
  <2>2. fs \in Seq(Form) /\ DOMAIN fs = {1}
    BY <1>1, <2>1 DEF SameForms, One
  <2>3. Len(fs) = 1
    BY <2>2, SingleDomain
  <2> QED
    BY <1>5, <2>2, <2>3 DEF One
<1>7. /\ ShowItem(l, First(a)) \in Form /\ NewSpec(l, First(a)) \in Form /\ NoSpec(l) \in Form
      /\ Cleared(l, by) \in Form
  <2>1. Cleared(l, by) \in Form
    BY <1>4, ClearedParts
  <2>2. [l EXCEPT !.item = First(a)] \in Form /\ ShowItem(l, First(a)) \in Form /\ Nil \in Nat
    BY <1>3, <1>4, FormUpdates, Constants
  <2>3. NewSpec(l, First(a)) \in Form
    BY <1>3, <2>2, FormUpdates DEF NewSpec
  <2>4. NoSpec(l) \in Form
    BY <1>4 DEF NoSpec, Form, Nil
  <2> QED
    BY <2>1, <2>2, <2>3, <2>4
<1>8. \/ /\ kind \in PickKinds /\ First(a) # Nil
         /\ forms' = [fs EXCEPT ![1] = ShowItem(fs[1], First(a))]
         /\ req' = RemoveAt(req, n)
      \/ /\ kind \in PickKinds /\ First(a) = Nil
         /\ forms' = Emptied(fs, by)
         /\ req' = RemoveAt(req, n)
      \/ /\ kind = "drives" /\ First(a) # Nil
         /\ forms' = [fs EXCEPT ![1] = NewSpec(fs[1], First(a))]
         /\ Send(RemoveAt(req, n), Times(fs[1].bound, TableRequests(First(a))))
      \/ /\ kind = "drives" /\ First(a) = Nil
         /\ forms' = [fs EXCEPT ![1] = NoSpec(fs[1])]
         /\ req' = RemoveAt(req, n)
  BY <1>1 DEF ListAnswer, NewSpec, NoSpec
<1> HIDE DEF fs
<1>9. kind \in PickKinds => One(Emptied(fs, by), Cleared(l, by))
  <2> SUFFICES ASSUME kind \in PickKinds PROVE One(Emptied(fs, by), Cleared(l, by))
    OBVIOUS
  <2>1. SameForms(fs, Emptied(fs, by))
    BY <1>6, EmptiedForms DEF One
  <2>2. DOMAIN fs = {1} /\ fs[1] = l
    BY <1>6 DEF One
  <2>3. Emptied(fs, by) \in Seq(Form) /\ DOMAIN Emptied(fs, by) = {1}
    BY <2>1, <2>2 DEF SameForms
  <2>4. Len(Emptied(fs, by)) = 1
    BY <2>3, SingleDomain
  <2>5. Emptied(fs, by)[1] = Cleared(l, by)
    BY <1>1, <2>2 DEF Emptied, Cleared, PickKinds
  <2> QED
    BY <2>3, <2>4, <2>5 DEF One
<1> QED
  BY <1>1, <1>2, <1>4, <1>5, <1>6, <1>7, <1>8, <1>9, OneReplaced

Picked(f, i) == [f EXCEPT !.item = i]
LEMMA SoloChooseItem ==
  ASSUME Solo, ChooseItem
  PROVE  /\ open # 0 /\ forms[1] \in Form /\ forms[1].loaded /\ forms[1].list \in Account
         /\ \E i \in Items(forms[1].list) :
              \/ /\ kind \in PickKinds /\ One(forms', ShowItem(Picked(forms[1], i), i)) /\ req' = req
              \/ /\ kind = "drives" /\ One(forms', ShowSpec(Picked(forms[1], i), i))
                 /\ Send(req, Times(forms[1].bound, TableRequests(i)))
<1> DEFINE f == forms[1]
<1>1. open # 0 /\ One(forms, f) /\ f \in Form /\ f.loaded /\ f.bound > 0 /\ Visible = 1 /\ Reached = 1
  BY SoloActs DEF ChooseItem
<1>2. f.list \in Account /\ f.bound \in Nat
  BY <1>1, FormParts DEF ChooseItem
<1>3. PICK i \in Items(f.list) :
        LET fs == [forms EXCEPT ![1].item = i]
            j == fs[1].item
        IN  \/ f.bound = 0 \/ j = Nil
            \/ /\ kind \in PickKinds
               /\ forms' = [fs EXCEPT ![1] = ShowItem(fs[1], j)]
               /\ req' = req
            \/ /\ kind = "drives"
               /\ forms' = [fs EXCEPT ![1] = ShowSpec(fs[1], j)]
               /\ Send(req, Times(f.bound, TableRequests(j)))
  BY <1>1 DEF ChooseItem
<1> DEFINE fs == [forms EXCEPT ![1].item = i]
           j == fs[1].item
<1>a. \/ f.bound = 0 \/ j = Nil
      \/ kind \in PickKinds /\ forms' = [fs EXCEPT ![1] = ShowItem(fs[1], j)] /\ req' = req
      \/ /\ kind = "drives" /\ forms' = [fs EXCEPT ![1] = ShowSpec(fs[1], j)]
         /\ Send(req, Times(f.bound, TableRequests(j)))
  BY <1>3
<1>4. i \in Nat /\ i # Nil
  BY <1>2, ItemFacts
<1>5. Picked(f, i) \in Form /\ Picked(f, i).item = i
  BY <1>1, <1>4 DEF Form, Picked
<1>6. One(fs, Picked(f, i)) /\ j = i
  <2>1. fs = [forms EXCEPT ![1] = Picked(f, i)]
    BY DEF Picked
  <2>2. One(fs, Picked(f, i))
    BY <1>1, <1>5, <2>1, OneReplaced
  <2> QED
    BY <1>5, <2>2 DEF One
<1>7. ShowItem(Picked(f, i), i) \in Form /\ ShowSpec(Picked(f, i), i) \in Form
  BY <1>4, <1>5 DEF Form, ShowItem, ShowSpec
<1>8. f.bound # 0
  BY <1>1, <1>2
<1>9. fs[1] = Picked(f, i)
  BY <1>6 DEF One
<1> HIDE DEF fs, j
<1>10. \/ /\ kind \in PickKinds /\ forms' = [fs EXCEPT ![1] = ShowItem(Picked(f, i), i)] /\ req' = req
       \/ /\ kind = "drives" /\ forms' = [fs EXCEPT ![1] = ShowSpec(Picked(f, i), i)]
          /\ Send(req, Times(f.bound, TableRequests(i)))
  BY <1>a, <1>4, <1>6, <1>8, <1>9
<1> QED
  BY <1>1, <1>2, <1>6, <1>7, <1>10, OneReplaced

Tabled(f, r) == IF r.kind = "drives" THEN [f EXCEPT !.drives = r.arg] ELSE [f EXCEPT !.vifs = r.arg]
LEMMA SoloTable ==
  ASSUME Solo, NEW n \in DOMAIN req, TableAnswer(n)
  PROVE  /\ open # 0 /\ forms[1] \in Form /\ forms[1].loaded
         /\ One(forms', Tabled(forms[1], req[n])) /\ req' = RemoveAt(req, n)
<1> DEFINE f == forms[1]
<1>1. open # 0 /\ One(forms, f) /\ f \in Form /\ f.loaded /\ Reached = 1
  BY SoloAnswer DEF TableAnswer
<1>2. req[n].arg \in Nat
  BY Answering, RequestOf DEF Solo, Typed
<1>3. Tabled(f, req[n]) \in Form
  BY <1>1, <1>2, FormUpdates DEF Tabled
<1>4. forms' = [forms EXCEPT ![1] = Tabled(f, req[n])]
  BY <1>1 DEF TableAnswer, Tabled
<1>5. One(forms', Tabled(f, req[n]))
  BY <1>1, <1>3, <1>4, OneReplaced
<1>6. req' = RemoveAt(req, n)
  BY DEF TableAnswer
<1> QED
  BY <1>1, <1>5, <1>6

NewPath(f, p) == [f EXCEPT !.path = p, !.md5 = Nil]
LEMMA SoloPath ==
  ASSUME Solo, ChangePath
  PROVE  /\ open # 0 /\ forms[1] \in Form /\ forms[1].loaded /\ ~masked
         /\ \E p \in {1, 2} : One(forms', NewPath(forms[1], p))
<1> DEFINE f == forms[1]
<1>1. open # 0 /\ One(forms, f) /\ f \in Form /\ f.loaded /\ f.bound > 0 /\ Visible = 1 /\ Reached = 1
  BY SoloActs DEF ChangePath
<1>p. PICK p \in {1, 2} : \E fs : /\ fs = [forms EXCEPT ![1].path = p]
                                   /\ forms' = [fs EXCEPT ![ReachedIn(fs)].md5 = Nil]
  BY <1>1 DEF ChangePath, PathChanged
<1>2. PICK fs : /\ fs = [forms EXCEPT ![1].path = p]
                /\ forms' = [fs EXCEPT ![ReachedIn(fs)].md5 = Nil]
  BY <1>p
<1> DEFINE h == [f EXCEPT !.path = p]
<1>3. h \in Form /\ h.loaded
  BY <1>1 DEF Form
<1>4. One(fs, h)
  <2>1. fs = [forms EXCEPT ![1] = h]
    BY <1>2
  <2> HIDE DEF h
  <2> QED
    BY <1>1, <1>3, <2>1, OneReplaced
<1>5. ReachedIn(fs) = 1 /\ fs[1] = h
  BY <1>3, <1>4, OneReached DEF One
<1>6. NewPath(f, p) \in Form /\ NewPath(f, p) = [h EXCEPT !.md5 = Nil]
  <2>1. NewPath(f, p) = [h EXCEPT !.md5 = Nil]
    BY <1>1 DEF Form, NewPath
  <2>2. Nil \in Nat
    BY Constants
  <2> QED
    BY <1>3, <2>1, <2>2, FormUpdates
<1>7. forms' = [fs EXCEPT ![1] = NewPath(f, p)]
  BY <1>2, <1>5, <1>6
<1>8. One(forms', NewPath(f, p))
  BY <1>4, <1>6, <1>7, OneReplaced
<1> QED
  BY <1>1, <1>8 DEF ChangePath, InBody

LEMMA SoloPressMd5 ==
  ASSUME Solo, PressMd5
  PROVE  /\ open # 0 /\ forms[1] \in Form /\ forms[1].loaded /\ ~masked /\ masked' = TRUE /\ forms' = forms
         /\ Send(req, Times(forms[1].bound, <<Request("md5", forms[1].path, open)>>))
<1>1. open # 0 /\ forms[1] \in Form /\ forms[1].loaded /\ Visible = 1 /\ Reached = 1
  BY SoloActs DEF PressMd5
<1> QED
  BY <1>1 DEF PressMd5, InBody

Hashed(f, m) == [f EXCEPT !.md5 = m]
LEMMA SoloMd5 ==
  ASSUME Solo, NEW n \in DOMAIN req, Md5Answer(n)
  PROVE  /\ open # 0 /\ forms[1] \in Form /\ forms[1].loaded
         /\ One(forms', Hashed(forms[1], req[n].arg)) /\ req' = RemoveAt(req, n)
<1> DEFINE f == forms[1]
<1>1. open # 0 /\ One(forms, f) /\ f \in Form /\ f.loaded /\ Reached = 1
  BY SoloAnswer DEF Md5Answer
<1>2. req[n].arg \in Nat
  BY Answering, RequestOf DEF Solo, Typed
<1>3. Hashed(f, req[n].arg) \in Form
  BY <1>1, <1>2, FormUpdates DEF Hashed
<1>4. forms' = [forms EXCEPT ![1] = Hashed(f, req[n].arg)]
  BY <1>1 DEF Md5Answer, Hashed
<1>5. One(forms', Hashed(f, req[n].arg))
  BY <1>1, <1>3, <1>4, OneReplaced
<1>6. req' = RemoveAt(req, n)
  BY DEF Md5Answer
<1> QED
  BY <1>1, <1>5, <1>6

(***************************************************************************)
(* The elements of the visible dialog, and its fields                      *)
(***************************************************************************)
LEMMA ShownParts ==
  ASSUME NEW f \in Form, NEW i, NEW g, g = ShowItem(f, i)
  PROVE  /\ g.num = f.num /\ g.loaded = f.loaded /\ g.bound = f.bound /\ g.acct = f.acct
         /\ g.list = f.list /\ g.cache = f.cache /\ g.item = i
         /\ g.fields = (IF Cached(f, i) THEN i ELSE f.fields)
BY DEF ShowItem, Form

LEMMA PickedParts ==
  ASSUME NEW f \in Form, NEW i, NEW g, g = Picked(f, i)
  PROVE  /\ g.num = f.num /\ g.loaded = f.loaded /\ g.bound = f.bound /\ g.acct = f.acct
         /\ g.list = f.list /\ g.cache = f.cache /\ g.item = i /\ g.fields = f.fields
         /\ g.uuid = f.uuid /\ g.drives = f.drives /\ g.vifs = f.vifs
         /\ i \in Nat => g \in Form
BY DEF Picked, Form

LEMMA SpecParts ==
  ASSUME NEW f \in Form, NEW i, NEW g, g = ShowSpec(f, i)
  PROVE  /\ g.num = f.num /\ g.loaded = f.loaded /\ g.bound = f.bound /\ g.acct = f.acct
         /\ g.list = f.list /\ g.cache = f.cache /\ g.item = f.item /\ g.uuid = i
         /\ g.drives = f.drives /\ g.vifs = f.vifs
BY DEF ShowSpec, Form

LEMMA NewSpecParts ==
  ASSUME NEW f \in Form, NEW i, NEW g, g = NewSpec(f, i)
  PROVE  /\ g.num = f.num /\ g.loaded = f.loaded /\ g.bound = f.bound /\ g.acct = f.acct
         /\ g.list = f.list /\ g.cache = f.cache /\ g.item = i /\ g.uuid = i
BY DEF NewSpec, ShowSpec, Form

LEMMA NoSpecParts ==
  ASSUME NEW f \in Form, NEW g, g = NoSpec(f)
  PROVE  /\ g.num = f.num /\ g.loaded = f.loaded /\ g.bound = f.bound /\ g.acct = f.acct
         /\ g.list = f.list /\ g.cache = f.cache /\ g.item = Nil /\ g.uuid = f.uuid /\ g.vifs = f.vifs
BY DEF NoSpec, Form

LEMMA ChosenParts ==
  ASSUME NEW f \in Form, NEW a, NEW g, g = Chosen(f, a)
  PROVE  /\ g.num = f.num /\ g.loaded = f.loaded /\ g.bound = f.bound /\ g.acct = a
         /\ g.list = f.list /\ g.cache = f.cache /\ g.item = f.item /\ g.fields = f.fields
         /\ g.uuid = f.uuid /\ g.drives = f.drives /\ g.vifs = f.vifs
BY DEF Chosen, Form

LEMMA LoadingParts ==
  ASSUME NEW f \in Form, NEW g, g = Loading(f)
  PROVE  /\ g.num = f.num /\ g.loaded /\ g.bound = f.bound + 1 /\ g.acct = f.acct
         /\ g.list = f.list /\ g.cache = f.cache /\ g.item = f.item /\ g.fields = f.fields
         /\ g.path = f.path /\ g.md5 = f.md5 /\ g.uuid = f.uuid /\ g.drives = f.drives /\ g.vifs = f.vifs
BY DEF Loading, Form

LEMMA TabledParts ==
  ASSUME NEW f \in Form, NEW r, NEW g, g = Tabled(f, r)
  PROVE  /\ g.num = f.num /\ g.loaded = f.loaded /\ g.bound = f.bound /\ g.acct = f.acct
         /\ g.list = f.list /\ g.cache = f.cache /\ g.item = f.item /\ g.fields = f.fields
         /\ g.path = f.path /\ g.md5 = f.md5 /\ g.uuid = f.uuid
         /\ g.drives = (IF r.kind = "drives" THEN r.arg ELSE f.drives)
         /\ g.vifs = (IF r.kind = "drives" THEN f.vifs ELSE r.arg)
BY DEF Tabled, Form

LEMMA PathParts ==
  ASSUME NEW f \in Form, NEW p, NEW g, g = NewPath(f, p)
  PROVE  /\ g.num = f.num /\ g.loaded = f.loaded /\ g.bound = f.bound /\ g.acct = f.acct
         /\ g.list = f.list /\ g.cache = f.cache /\ g.item = f.item /\ g.fields = f.fields
         /\ g.path = p /\ g.md5 = Nil
BY DEF NewPath, Form

LEMMA HashedParts ==
  ASSUME NEW f \in Form, NEW m, NEW g, g = Hashed(f, m)
  PROVE  /\ g.num = f.num /\ g.loaded = f.loaded /\ g.bound = f.bound /\ g.acct = f.acct
         /\ g.list = f.list /\ g.cache = f.cache /\ g.item = f.item /\ g.fields = f.fields
         /\ g.path = f.path /\ g.md5 = m /\ g.uuid = f.uuid /\ g.drives = f.drives /\ g.vifs = f.vifs
BY DEF Hashed, Form

\* An empty list has arrived: the fields are cleared, or those of another list
\* than the cached one.
LEMMA ShowsNone ==
  ASSUME NEW f \in Form, Shows(f), NEW a \in NoItems, a \in Account, NEW by, NEW l, l = Listed(f, a, by),
         NEW g, g = Cleared(l, by)
  PROVE  Shows(g)
<1>1. /\ l \in Form /\ l.num = f.num /\ l.list = a /\ l.cache = (IF f.num = by THEN a ELSE f.cache)
      /\ l.fields = f.fields
  BY ListedParts
<1>2. /\ g.list = a /\ g.cache = l.cache /\ g.item = Nil
      /\ g.fields = (IF kind \in {"edit_hn", "edit_is"} /\ l.num # by THEN f.fields ELSE Nil)
  BY <1>1, ClearedParts
<1> QED
  BY <1>1, <1>2 DEF Shows

\* The new elements of the one dialog, and AloneInv.
LEMMA AloneOf ==
  ASSUME NEW f, One(forms', f), open' # 0, f.num = open', Fresh(f), kind' \in PickKinds => Shows(f)
  PROVE  AloneInv'
BY DEF One, AloneInv

\* The loaded dialog stays, and its fields are those of its item.
LEMMA AloneKept ==
  ASSUME Solo, open # 0, forms[1].loaded, NEW g, One(forms', g), UNCHANGED <<open, kind>>,
         g.num = forms[1].num, g.loaded, g.bound = forms[1].bound, kind \in PickKinds => Shows(g)
  PROVE  AloneInv'
<1>1. Fresh(g) /\ g.num = open'
  BY SoloOpen DEF Fresh
<1> QED
  BY <1>1, AloneOf

LEMMA ShowsSame ==
  ASSUME NEW f, Shows(f), NEW g, g.item = f.item, g.fields = f.fields, g.list = f.list, g.cache = f.cache
  PROVE  Shows(g)
BY DEF Shows

LEMMA AloneSame ==
  ASSUME AloneInv, hist \subseteq hist', UNCHANGED <<forms, open, kind>>
  PROVE  AloneInv'
BY DEF AloneInv, Alone

LEMMA BlankShows ==
  ASSUME NEW n
  PROVE  Fresh(Blank(n)) /\ Shows(Blank(n)) /\ Blank(n).num = n
BY DEF Fresh, Shows, Blank

LEMMA AloneChooses ==
  ASSUME Solo, ChooseAccount \/ ChooseItem \/ ChangePath
  PROVE  AloneInv'
<1>1. CASE ChooseAccount
  <2>1. PICK a \in Account : One(forms', Chosen(forms[1], a)) /\ open # 0 /\ forms[1] \in Form /\ forms[1].loaded
    BY <1>1, SoloChooseAccount
  <2>2. open' = open /\ kind' = kind
    BY <1>1 DEF ChooseAccount
  <2> QED
    BY <2>1, <2>2, SoloOpen, ChosenParts, ShowsSame, AloneKept
<1>2. CASE ChooseItem
  <2> DEFINE f == forms[1]
  <2>1. PICK i \in Items(f.list) :
          /\ open # 0 /\ f \in Form /\ f.loaded /\ f.list \in Account
          /\ \/ kind \in PickKinds /\ One(forms', ShowItem(Picked(f, i), i))
             \/ kind = "drives" /\ One(forms', ShowSpec(Picked(f, i), i))
    BY <1>2, SoloChooseItem
  <2>2. open' = open /\ kind' = kind
    BY <1>2 DEF ChooseItem
  <2>3. i \in Nat /\ i # Nil /\ Owner(i) = f.list /\ f.list \in Account \ NoItems
    BY <2>1, ItemFacts
  <2> DEFINE h == Picked(f, i)
  <2>h. h = Picked(f, i)
    OBVIOUS
  <2> HIDE DEF h, f
  <2>4. /\ h \in Form /\ h.num = f.num /\ h.loaded = f.loaded /\ h.bound = f.bound
        /\ h.list = f.list /\ h.cache = f.cache /\ h.item = i /\ h.fields = f.fields
    <3>1. f \in Form /\ i \in Nat
      BY <2>1, <2>3
    <3> QED
      BY <3>1, <2>h, PickedParts
  <2>5. CASE kind \in PickKinds /\ One(forms', ShowItem(h, i))
    <3> DEFINE g == ShowItem(h, i)
    <3>g. g = ShowItem(h, i)
      OBVIOUS
    <3> HIDE DEF g
    <3>1. /\ g.num = f.num /\ g.loaded /\ g.bound = f.bound
          /\ g.list = f.list /\ g.cache = f.cache /\ g.item = i
          /\ g.fields = (IF Cached(h, i) THEN i ELSE f.fields)
      <4>1. h \in Form
        BY <2>4
      <4>2. /\ g.num = h.num /\ g.loaded = h.loaded /\ g.bound = h.bound
            /\ g.list = h.list /\ g.cache = h.cache /\ g.item = i
            /\ g.fields = (IF Cached(h, i) THEN i ELSE h.fields)
        BY <4>1, <3>g, ShownParts
      <4> QED
        BY <2>1, <2>4, <4>2
    <3>2. Shows(f)
      BY <2>1, <2>5, SoloOpen DEF f
    <3>3. Shows(g)
      BY <2>3, <2>4, <3>1, <3>2 DEF Shows, Cached
    <3> QED
      BY <2>1, <2>2, <2>5, <3>1, <3>3, AloneKept DEF f, g
  <2>6. CASE kind = "drives" /\ One(forms', ShowSpec(h, i))
    <3>1. ShowSpec(h, i).num = f.num /\ ShowSpec(h, i).loaded /\ ShowSpec(h, i).bound = f.bound
      BY <2>1, <2>4, SpecParts
    <3> QED
      BY <2>1, <2>2, <2>6, <3>1, AloneKept, Constants DEF f
  <2> QED
    BY <2>1, <2>5, <2>6, <2>h
<1>3. CASE ChangePath
  <2>1. PICK p \in {1, 2} : One(forms', NewPath(forms[1], p)) /\ open # 0 /\ forms[1] \in Form /\ forms[1].loaded
    BY <1>3, SoloPath
  <2>2. open' = open /\ kind' = kind
    BY <1>3 DEF ChangePath
  <2> QED
    BY <2>1, <2>2, SoloOpen, PathParts, ShowsSame, AloneKept
<1> QED
  BY <1>1, <1>2, <1>3

LEMMA AloneList ==
  ASSUME Solo, NEW n \in DOMAIN req, ListAnswer(n)
  PROVE  AloneInv'
<1> DEFINE f == forms[1]
           a == req[n].arg
           by == req[n].by
           l == Listed(f, a, by)
<1>1. /\ open # 0 /\ f \in Form /\ f.loaded /\ a \in Account /\ l \in Form
      /\ \/ kind \in PickKinds /\ First(a) # Nil /\ One(forms', ShowItem(l, First(a)))
         \/ kind \in PickKinds /\ First(a) = Nil /\ One(forms', Cleared(l, by))
         \/ kind = "drives" /\ One(forms', NewSpec(l, First(a)))
         \/ kind = "drives" /\ One(forms', NoSpec(l))
  BY SoloList
<1>2. open' = open /\ kind' = kind
  BY DEF ListAnswer
<1>l. l = Listed(f, a, by)
  OBVIOUS
<1> HIDE DEF l, f, a, by
<1>3. /\ l.num = f.num /\ l.loaded = f.loaded /\ l.bound = f.bound /\ l.list = a
      /\ l.cache = (IF f.num = by THEN a ELSE f.cache) /\ l.fields = f.fields
  <2>1. f \in Form /\ a \in Account
    BY <1>1
  <2> QED
    BY <2>1, <1>l, ListedParts
<1>4. kind \in PickKinds => Shows(f)
  BY <1>1, SoloOpen DEF f
<1>5. First(a) # Nil => Owner(First(a)) = a /\ a \notin NoItems
  BY <1>1, ItemFacts
<1>6. CASE kind \in PickKinds /\ First(a) # Nil /\ One(forms', ShowItem(l, First(a)))
  <2> DEFINE g == ShowItem(l, First(a))
  <2>g. g = ShowItem(l, First(a))
    OBVIOUS
  <2> HIDE DEF g
  <2>1. /\ g.num = f.num /\ g.loaded /\ g.bound = f.bound
        /\ g.list = a /\ g.cache = l.cache /\ g.item = First(a)
        /\ g.fields = (IF Cached(l, First(a)) THEN First(a) ELSE f.fields)
    <3>1. l \in Form
      BY <1>1
    <3>2. /\ g.num = l.num /\ g.loaded = l.loaded /\ g.bound = l.bound
          /\ g.list = l.list /\ g.cache = l.cache /\ g.item = First(a)
          /\ g.fields = (IF Cached(l, First(a)) THEN First(a) ELSE l.fields)
      BY <3>1, <2>g, ShownParts
    <3> QED
      BY <1>1, <1>3, <3>2
  <2>2. Shows(g)
    BY <1>3, <1>4, <1>5, <1>6, <2>1 DEF Shows, Cached
  <2> QED
    BY <1>1, <1>2, <1>6, <2>1, <2>2, AloneKept DEF f, g
<1>7. CASE kind \in PickKinds /\ First(a) = Nil /\ One(forms', Cleared(l, by))
  <2>1. a \in NoItems
    BY <1>1, <1>7, ItemFacts
  <2>2. Shows(Cleared(l, by))
    BY <1>1, <1>4, <1>7, <1>l, <2>1, ShowsNone
  <2>3. Cleared(l, by).num = f.num /\ Cleared(l, by).loaded /\ Cleared(l, by).bound = f.bound
    BY <1>1, <1>3, ClearedParts
  <2> QED
    BY <1>1, <1>2, <1>7, <2>2, <2>3, AloneKept DEF f
<1>8. CASE kind = "drives" /\ \E g : One(forms', g) /\ (g = NewSpec(l, First(a)) \/ g = NoSpec(l))
  <2>1. PICK g : One(forms', g) /\ (g = NewSpec(l, First(a)) \/ g = NoSpec(l))
    BY <1>8
  <2>2. g.num = f.num /\ g.loaded /\ g.bound = f.bound
    <3>1. CASE g = NewSpec(l, First(a))
      BY <1>1, <1>3, <3>1, NewSpecParts
    <3>2. CASE g = NoSpec(l)
      BY <1>1, <1>3, <3>2, NoSpecParts
    <3> QED
      BY <2>1, <3>1, <3>2
  <2> QED
    BY <1>1, <1>2, <1>8, <2>1, <2>2, AloneKept, Constants DEF f
<1> QED
  BY <1>1, <1>6, <1>7, <1>8

LEMMA AloneStep == Typed /\ AloneInv /\ [Next]_vars => AloneInv'
<1> SUFFICES ASSUME Typed, AloneInv, [Next]_vars, Alone' PROVE AloneInv'
  BY DEF AloneInv
<1>0. hist \subseteq hist' /\ Solo
  BY NotesKept DEF Solo, Alone
<1>1. CASE UNCHANGED vars
  BY <1>0, <1>1, AloneSame DEF vars
<1>2. CASE OpenDialog
  BY <1>0, <1>2, SoloOpening, BlankShows, AloneOf
<1>3. CASE CloseButton
  BY <1>0, <1>3, SoloClosing DEF AloneInv
<1>4. CASE Hide
  BY <1>4 DEF Hide, Alone
<1>5. CASE PressButton \/ PressCreate \/ PressMd5
  BY <1>0, <1>5, AloneSame DEF PressButton, PressCreate, PressMd5
<1>6. CASE ChooseAccount \/ ChooseItem \/ ChangePath
  BY <1>0, <1>6, AloneChooses
<1>7. ASSUME NEW n \in DOMAIN req, Answer(n) PROVE AloneInv'
  <2>1. CASE ContentAnswer(n)
    <3>1. CASE forms' = forms
      BY <1>0, <2>1, <3>1, AloneSame DEF ContentAnswer
    <3>2. CASE forms' # forms
      <4>1. open # 0 /\ One(forms', Loading(forms[1])) /\ forms[1] \in Form
        BY <1>0, <2>1, <3>2, SoloContent
      <4>2. open' = open /\ kind' = kind
        BY <2>1 DEF ContentAnswer
      <4> DEFINE g == Loading(forms[1])
      <4>3. /\ g.num = forms[1].num /\ g.loaded /\ g.bound = forms[1].bound + 1 /\ forms[1].bound \in Nat
            /\ g.item = forms[1].item /\ g.fields = forms[1].fields
            /\ g.list = forms[1].list /\ g.cache = forms[1].cache
        BY <4>1, LoadingParts, FormParts
      <4> HIDE DEF g
      <4>4. Fresh(g) /\ g.num = open' /\ (kind \in PickKinds => Shows(g))
        BY <1>0, <4>1, <4>2, <4>3, SoloOpen, ShowsSame DEF Fresh
      <4> QED
        BY <4>1, <4>2, <4>4, AloneOf DEF g
    <3> QED
      BY <3>1, <3>2
  <2>2. CASE ListAnswer(n)
    BY <1>0, <2>2, AloneList
  <2>3. CASE TableAnswer(n)
    <3>1. open # 0 /\ forms[1] \in Form /\ forms[1].loaded /\ One(forms', Tabled(forms[1], req[n]))
      BY <1>0, <2>3, SoloTable
    <3>2. open' = open /\ kind' = kind
      BY <2>3 DEF TableAnswer
    <3> QED
      BY <1>0, <3>1, <3>2, SoloOpen, TabledParts, ShowsSame, AloneKept
  <2>4. CASE PostSucceeds(n)
    BY <1>0, <2>4, SoloPosted DEF AloneInv
  <2>5. CASE PostFails(n) \/ RequestFails(n) \/ LateAnswer(n)
    BY <1>0, <2>5, AloneSame DEF PostFails, RequestFails, LateAnswer
  <2>6. CASE Md5Answer(n)
    <3>1. open # 0 /\ forms[1] \in Form /\ forms[1].loaded /\ One(forms', Hashed(forms[1], req[n].arg))
      BY <1>0, <2>6, SoloMd5
    <3>2. open' = open /\ kind' = kind
      BY <2>6 DEF Md5Answer
    <3> QED
      BY <1>0, <3>1, <3>2, SoloOpen, HashedParts, ShowsSame, AloneKept
  <2> QED
    BY <1>7, <2>1, <2>2, <2>3, <2>4, <2>5, <2>6 DEF Answer
<1> QED
  BY <1>1, <1>2, <1>3, <1>4, <1>5, <1>6, <1>7 DEF Next

(***************************************************************************)
(* The requests of a dialog: what an answer and a new request change       *)
(***************************************************************************)
\* What is in flight once request n of q is answered, or p has been sent.
LEMMA CutKinds ==
  ASSUME NEW q, NEW t, NEW n, Cut(q, t, n)
  PROVE  /\ \A k \in DOMAIN t : \E j \in DOMAIN q : j # n /\ t[k] = q[j]
         /\ \A j \in DOMAIN q : j # n => \E k \in DOMAIN t : t[k] = q[j]
BY DEF Cut

LEMMA LongerKinds ==
  ASSUME NEW s, NEW t, NEW p, Longer(s, t, p)
  PROVE  /\ \A k \in DOMAIN t : \/ k \in DOMAIN s /\ t[k] = s[k]
                                \/ \E j \in DOMAIN p : k = Len(s) + j /\ t[k] = p[j]
         /\ \A k \in DOMAIN s : k \in DOMAIN t /\ t[k] = s[k] /\ k \in Nat /\ k < Len(s) + 1
         /\ \A j \in DOMAIN p : Len(s) + j \in DOMAIN t /\ t[Len(s) + j] = p[j]
<1>1. ASSUME NEW k \in DOMAIN t, k \notin DOMAIN s
      PROVE  \E j \in DOMAIN p : k = Len(s) + j /\ t[k] = p[j]
  <2>1. k - Len(s) \in DOMAIN p /\ k = Len(s) + (k - Len(s))
    BY <1>1 DEF Longer
  <2> QED
    BY <2>1 DEF Longer
<1> QED
  BY <1>1 DEF Longer

LEMMA NoneLeft ==
  ASSUME NEW q \in Seq(Req), Len(q) = 1
  PROVE  RemoveAt(q, 1) = <<>>
<1>1. SubSeq(q, 1, 0) = <<>> /\ SubSeq(q, 2, 1) = <<>>
  OBVIOUS
<1> QED
  BY <1>1 DEF RemoveAt

\* A request of another kind is answered, or requests of other kinds are sent.
LEMMA KindLess ==
  ASSUME NEW q, NEW k, NEW v, NEW w, KindOk(q, k, v, w), NEW n \in DOMAIN q, q[n].kind # k,
         NEW t, Cut(q, t, n)
  PROVE  KindOk(t, k, v, w)
<1>1. \A i \in Of(t, k) : Old(n, i) \in Of(q, k) /\ t[i] = q[Old(n, i)] /\ i \in Nat
  BY DEF Cut, Of
<1>2. \A j \in Of(q, k) : \E i \in Of(t, k) : Old(n, i) = j
  BY DEF Cut, Of
<1>3. \A i, m \in Of(t, k) : i < m <=> Old(n, i) < Old(n, m)
  BY DEF Cut, Of
<1>4. \A j \in Of(q, k) : j \in Nat
  BY DEF Cut, Of
<1>5. ASSUME NEW i \in Of(t, k), Newest(t, k, i) PROVE t[i].arg = v
  <2>1. ASSUME NEW j \in Of(q, k) PROVE j <= Old(n, i)
    <3>1. PICK m \in Of(t, k) : Old(n, m) = j
      BY <1>2
    <3>2. m <= i /\ m \in Nat /\ i \in Nat
      BY <1>1, <1>5 DEF Newest
    <3>3. ~(i < m)
      BY <3>2
    <3> QED
      BY <1>1, <1>3, <1>4, <3>1, <3>3
  <2>2. Newest(q, k, Old(n, i))
    BY <2>1 DEF Newest
  <2> QED
    BY <1>1, <2>2 DEF KindOk
<1>6. Of(t, k) = {} => Of(q, k) = {}
  BY <1>2
<1> QED
  BY <1>5, <1>6 DEF KindOk

LEMMA KindMore ==
  ASSUME NEW q, NEW k, NEW v, NEW w, KindOk(q, k, v, w), NEW t, NEW p, Longer(q, t, p),
         \A j \in DOMAIN p : p[j].kind # k
  PROVE  KindOk(t, k, v, w)
<1>1. Of(t, k) = Of(q, k) /\ \A n \in Of(q, k) : t[n] = q[n]
  BY LongerKinds DEF Of
<1> QED
  BY <1>1 DEF KindOk, Newest

\* What is asked for is of v.
Asked(p, k, v) == /\ \E j \in DOMAIN p : p[j].kind = k
                  /\ \A j \in DOMAIN p : p[j].kind = k => p[j].arg = v
LEMMA KindAsked ==
  ASSUME NEW q, NEW t, NEW p, Longer(q, t, p), NEW k, NEW v, Asked(p, k, v), NEW w
  PROVE  KindOk(t, k, v, w)
<1>1. PICK j \in DOMAIN p : p[j].kind = k
  BY DEF Asked
<1>2. Len(q) + j \in Of(t, k) /\ Len(q) + j \in Nat /\ Len(q) + j > Len(q) /\ Len(q) \in Nat
  <2>1. Len(q) + j \in DOMAIN t /\ t[Len(q) + j] = p[j]
    BY LongerKinds
  <2>2. j \in Nat /\ j > 0 /\ Len(q) \in Nat
    BY DEF Longer
  <2> QED
    BY <1>1, <2>1, <2>2 DEF Of
<1>3. ASSUME NEW n \in Of(t, k), Newest(t, k, n) PROVE t[n].arg = v
  <2>1. Len(q) + j <= n /\ n \in DOMAIN t /\ t[n].kind = k
    BY <1>2, <1>3 DEF Newest, Of
  <2>2. n \notin DOMAIN q
    BY <1>2, <2>1 DEF Longer
  <2>3. PICK i \in DOMAIN p : t[n] = p[i]
    BY <2>1, <2>2, LongerKinds
  <2> QED
    BY <2>1, <2>3 DEF Asked
<1> QED
  BY <1>2, <1>3 DEF KindOk

\* The request of the kind that was asked for first is answered.
LEMMA KindAnswered ==
  ASSUME NEW q, NEW k, NEW v, NEW w, KindOk(q, k, v, w), NEW n \in Of(q, k), \A m \in Of(q, k) : ~(m < n),
         NEW t, Cut(q, t, n)
  PROVE  KindOk(t, k, v, q[n].arg)
<1>1. \A i \in Of(t, k) : Old(n, i) \in Of(q, k) /\ t[i] = q[Old(n, i)] /\ i \in Nat
  BY DEF Cut, Of
<1>2. \A j \in Of(q, k) : j # n => \E i \in Of(t, k) : Old(n, i) = j
  BY DEF Cut, Of
<1>3. \A i, m \in Of(t, k) : i < m <=> Old(n, i) < Old(n, m)
  BY DEF Cut, Of
<1>4. \A j \in Of(q, k) : j \in Nat
  BY DEF Cut, Of
<1>5. ASSUME NEW i \in Of(t, k), Newest(t, k, i) PROVE t[i].arg = v
  <2>1. ASSUME NEW j \in Of(q, k) PROVE j <= Old(n, i)
    <3>1. CASE j = n
      BY <1>1, <1>4, <3>1
    <3>2. CASE j # n
      <4>1. PICK m \in Of(t, k) : Old(n, m) = j
        BY <1>2, <3>2
      <4>2. m <= i /\ m \in Nat /\ i \in Nat
        BY <1>1, <1>5 DEF Newest
      <4>3. ~(i < m)
        BY <4>2
      <4> QED
        BY <1>1, <1>3, <1>4, <4>1, <4>3
    <3> QED
      BY <3>1, <3>2
  <2>2. Newest(q, k, Old(n, i))
    BY <2>1 DEF Newest
  <2> QED
    BY <1>1, <2>2 DEF KindOk
<1>6. ASSUME Of(t, k) = {} PROVE q[n].arg = v
  <2>1. \A j \in Of(q, k) : j = n
    BY <1>2, <1>6
  <2>2. Newest(q, k, n)
    BY <1>4, <2>1 DEF Newest
  <2> QED
    BY <2>2 DEF KindOk
<1> QED
  BY <1>5, <1>6 DEF KindOk

\* What is sent: the two tables, a list, a post or an md5.
LEMMA TableKinds ==
  \A i : /\ DOMAIN TableRequests(i) = {1, 2}
         /\ TableRequests(i)[1].kind = "drives" /\ TableRequests(i)[2].kind = "vifs"
         /\ TableRequests(i)[1].arg = i /\ TableRequests(i)[2].arg = i
         /\ TableRequests(i)[1].by = open /\ TableRequests(i)[2].by = open
BY RequestTypes DEF TableRequests

LEMMA OneKind ==
  \A k, a, b : /\ DOMAIN <<Request(k, a, b)>> = {1}
               /\ <<Request(k, a, b)>>[1].kind = k /\ <<Request(k, a, b)>>[1].arg = a
               /\ <<Request(k, a, b)>>[1].by = b
BY RequestTypes

\* Every handler asks, and there is one at least.
LEMMA TimesAsked ==
  ASSUME NEW k \in Nat, k > 0, NEW q \in Seq(Req), Len(q) \in {1, 2}
  PROVE  /\ \A c, v : Asked(q, c, v) => Asked(Times(k, q), c, v)
         /\ \A j \in DOMAIN Times(k, q) : \E i \in DOMAIN q : Times(k, q)[j] = q[i]
         /\ Times(k, q) \in Seq(Req)
<1>1. /\ Times(k, q) \in Seq(Req)
      /\ \A j \in DOMAIN Times(k, q) : \E i \in DOMAIN q : Times(k, q)[j] = q[i]
      /\ \A i \in DOMAIN q : i \in DOMAIN Times(k, q) /\ Times(k, q)[i] = q[i]
  BY TimesType
<1> QED
  BY <1>1 DEF Asked

LEMMA SentTables ==
  ASSUME NEW k \in Nat, k > 0, NEW i \in Nat, open \in Nat, NEW s \in Seq(Req),
         Send(s, Times(k, TableRequests(i)))
  PROVE  \E p : /\ Longer(s, req', p) /\ Asked(p, "drives", i) /\ Asked(p, "vifs", i)
                /\ \A j \in DOMAIN p : p[j].kind \in {"drives", "vifs"} /\ p[j].by = open
<1> DEFINE q == TableRequests(i)
<1>1. q \in Seq(Req) /\ Len(q) = 2
  BY ListsAndTables
<1>2. Asked(q, "drives", i) /\ Asked(q, "vifs", i) /\ \A j \in DOMAIN q : q[j].kind \in {"drives", "vifs"} /\ q[j].by = open
  BY TableKinds DEF Asked
<1> HIDE DEF q
<1>3. /\ Asked(Times(k, q), "drives", i) /\ Asked(Times(k, q), "vifs", i) /\ Times(k, q) \in Seq(Req)
      /\ \A j \in DOMAIN Times(k, q) : \E l \in DOMAIN q : Times(k, q)[j] = q[l]
  BY <1>1, <1>2, TimesAsked
<1>4. Longer(s, req', Times(k, q))
  BY <1>3, Sending DEF q
<1> QED
  BY <1>2, <1>3, <1>4

LEMMA SentLists ==
  ASSUME NEW k \in Nat, k > 0, NEW a \in Account, NEW b \in Nat, NEW s \in Seq(Req),
         Send(s, Times(k, <<Request("list", a, b)>>))
  PROVE  \E p : /\ Longer(s, req', p) /\ Asked(p, "list", a)
                /\ \A j \in DOMAIN p : p[j].kind = "list" /\ p[j].by = b
<1> DEFINE q == <<Request("list", a, b)>>
<1>1. q \in Seq(Req) /\ Len(q) = 1
  BY ListsAndTables
<1>2. Asked(q, "list", a) /\ \A j \in DOMAIN q : q[j].kind = "list" /\ q[j].by = b
  BY OneKind DEF Asked
<1> HIDE DEF q
<1>3. /\ Asked(Times(k, q), "list", a) /\ Times(k, q) \in Seq(Req)
      /\ \A j \in DOMAIN Times(k, q) : \E l \in DOMAIN q : Times(k, q)[j] = q[l]
  BY <1>1, <1>2, TimesAsked
<1>4. Longer(s, req', Times(k, q))
  BY <1>3, Sending DEF q
<1> QED
  BY <1>2, <1>3, <1>4

\* What the callback of the content sends: nothing, the lists, or the first pages
\* of the two tables before the lists.
LEMMA SentContent ==
  ASSUME NEW f \in Form, open \in Nat, NEW s \in Seq(Req), Send(s, ContentSends(f))
  PROVE  \E p : /\ Longer(s, req', p)
                /\ \A j \in DOMAIN p : /\ p[j].kind \in {"drives", "vifs", "list"}
                                       /\ p[j].by \in {open, f.num}
                                       /\ p[j].kind # "list" => kind = "drives" /\ f.bound = 0
                /\ kind \in CreateKinds => DOMAIN p = {}
                /\ kind \notin CreateKinds => Asked(p, "list", f.acct)
                /\ kind = "drives" /\ f.bound = 0 => Asked(p, "drives", Nil) /\ Asked(p, "vifs", Nil)
<1> DEFINE q == <<Request("list", f.acct, f.num)>>
           l == AskedLists(f)
           u == TableRequests(Nil)
<1>1. f.bound + 1 \in Nat /\ f.bound + 1 > 0 /\ f.acct \in Account /\ f.num \in Nat
  BY FormParts
<1>2. q \in Seq(Req) /\ Len(q) = 1 /\ u \in Seq(Req)
  BY <1>1, ListsAndTables DEF Nil
<1>3. Asked(q, "list", f.acct) /\ \A j \in DOMAIN q : q[j].kind = "list" /\ q[j].by = f.num
  BY OneKind DEF Asked
<1>4. /\ Asked(u, "drives", Nil) /\ Asked(u, "vifs", Nil)
      /\ \A j \in DOMAIN u : u[j].kind \in {"drives", "vifs"} /\ u[j].by = open
  BY TableKinds DEF Asked
<1>5. l = Times(f.bound + 1, q)
  BY DEF AskedLists
<1> HIDE DEF q, l, u
<1>6. Asked(l, "list", f.acct) /\ l \in Seq(Req) /\ \A j \in DOMAIN l : l[j].kind = "list" /\ l[j].by = f.num
  <2>1. /\ Asked(Times(f.bound + 1, q), "list", f.acct) /\ Times(f.bound + 1, q) \in Seq(Req)
        /\ \A j \in DOMAIN Times(f.bound + 1, q) : \E i \in DOMAIN q : Times(f.bound + 1, q)[j] = q[i]
    BY <1>1, <1>2, <1>3, TimesAsked
  <2> QED
    BY <1>3, <1>5, <2>1
<1>7. CASE kind \in CreateKinds
  <2>1. Send(s, <<>>) /\ <<>> \in Seq(Req) /\ DOMAIN <<>> = {}
    BY <1>7 DEF ContentSends
  <2>2. Longer(s, req', <<>>)
    BY <2>1, Sending
  <2> QED
    BY <1>7, <2>1, <2>2, Constants
<1>8. CASE kind = "drives" /\ f.bound = 0
  <2>1. Send(s, u \o l)
    BY <1>8, Constants DEF ContentSends, u, l
  <2>2. Longer(u, u \o l, l) /\ u \o l \in Seq(Req)
    BY <1>2, <1>6, Lengthening, Joined
  <2>3. Longer(s, req', u \o l)
    BY <2>1, <2>2, Sending
  <2> DEFINE p == u \o l
  <2> HIDE DEF p
  <2>4. \A j \in DOMAIN p : (\E i \in DOMAIN u : p[j] = u[i]) \/ (\E i \in DOMAIN l : p[j] = l[i])
    BY <2>2, LongerKinds DEF p
  <2>5. /\ \A i \in DOMAIN u : i \in DOMAIN p /\ p[i] = u[i]
        /\ \A i \in DOMAIN l : Len(u) + i \in DOMAIN p /\ p[Len(u) + i] = l[i]
    BY <2>2, LongerKinds DEF p
  <2>6. Asked(p, "drives", Nil) /\ Asked(p, "vifs", Nil) /\ Asked(p, "list", f.acct)
    <3>1. \A j \in DOMAIN p : /\ p[j].kind \in {"drives", "vifs"} => \E i \in DOMAIN u : p[j] = u[i]
                              /\ p[j].kind = "list" => \E i \in DOMAIN l : p[j] = l[i]
      BY <1>4, <1>6, <2>4
    <3>2. Asked(p, "drives", Nil)
      BY <1>4, <2>5, <3>1 DEF Asked
    <3>3. Asked(p, "vifs", Nil)
      BY <1>4, <2>5, <3>1 DEF Asked
    <3>4. Asked(p, "list", f.acct)
      BY <1>6, <2>5, <3>1 DEF Asked
    <3> QED
      BY <3>2, <3>3, <3>4
  <2>7. \A j \in DOMAIN p : p[j].kind \in {"drives", "vifs", "list"} /\ p[j].by \in {open, f.num}
    BY <1>4, <1>6, <2>4
  <2> QED
    BY <1>8, <2>3, <2>6, <2>7, Constants DEF p
<1>9. CASE kind \notin CreateKinds /\ ~(kind = "drives" /\ f.bound = 0)
  <2>1. Send(s, l)
    BY <1>9 DEF ContentSends, l
  <2>2. Longer(s, req', l)
    BY <1>6, <2>1, Sending
  <2> QED
    BY <1>6, <1>9, <2>2
<1> QED
  BY <1>7, <1>8, <1>9

(***************************************************************************)
(* A dialog waits for its content, or its handlers are bound once          *)
(***************************************************************************)
\* What is in flight in t is so in q already, or is asked for by dialog o.
Follows(q, t, o) == \A k \in DOMAIN t : \/ \E j \in DOMAIN q : t[k] = q[j]
                                        \/ t[k].kind # "content" /\ t[k].by = o

LEMMA FollowsCut ==
  ASSUME NEW q, NEW t, NEW n, Cut(q, t, n), NEW o
  PROVE  Follows(q, t, o)
<1>1. \A k \in DOMAIN t : \E j \in DOMAIN q : j # n /\ t[k] = q[j]
  BY CutKinds
<1>2. \A k \in DOMAIN t : \E j \in DOMAIN q : t[k] = q[j]
  BY <1>1
<1> QED
  BY <1>2 DEF Follows

LEMMA FollowsSent ==
  ASSUME NEW q, NEW s, NEW o, Follows(q, s, o), NEW t, NEW p, Longer(s, t, p),
         \A j \in DOMAIN p : p[j].kind # "content" /\ p[j].by = o
  PROVE  Follows(q, t, o)
BY LongerKinds DEF Follows

LEMMA FollowsSame ==
  ASSUME NEW q, NEW o
  PROVE  Follows(q, q, o)
<1>1. \A k \in DOMAIN q : \E j \in DOMAIN q : q[k] = q[j]
  OBVIOUS
<1> QED
  BY <1>1 DEF Follows

LEMMA TidySolo ==
  ASSUME Typed, AloneInv, Tidy
  PROVE  Solo
BY DEF Solo, Alone, Tidy

LEMMA ClosedNow ==
  ASSUME Tidy, DialogInv, open = 0
  PROVE  req = <<>> /\ DOMAIN req = {}
BY DEF DialogInv

\* A dialog whose content is there, or an answer to one.
LEMMA LoadedNow ==
  ASSUME Tidy, DialogInv, open # 0, \/ forms[1].loaded
                                    \/ \E n \in DOMAIN req : req[n].kind # "content"
  PROVE  Bound(forms[1], req)
<1>1. ASSUME Waiting(forms[1], req, open) PROVE FALSE
  <2>1. ~forms[1].loaded
    BY <1>1 DEF Waiting, Blank
  <2>2. DOMAIN req = {1}
    BY <1>1 DEF Waiting
  <2> QED
    BY <1>1, <2>1, <2>2 DEF Waiting
<1> QED
  BY <1>1 DEF DialogInv, DialogOk

\* The content of the visible dialog is the one request in flight.
LEMMA WaitingNow ==
  ASSUME Solo, Tidy, DialogInv, NEW n \in DOMAIN req, req[n].kind = "content"
  PROVE  /\ open # 0 /\ Waiting(forms[1], req, open) /\ RemoveAt(req, n) = <<>>
         /\ forms[1].bound = 0 /\ forms[1].item = Nil /\ forms[1].md5 = Nil /\ ~forms[1].loaded
<1>1. open # 0
  BY ClosedNow
<1>2. Waiting(forms[1], req, open)
  BY <1>1 DEF DialogInv, DialogOk, Bound
<1>3. n = 1
  <2>1. DOMAIN req = {1}
    BY <1>2 DEF Waiting
  <2> QED
    BY <2>1
<1> QED
  BY <1>1, <1>2, <1>3, NoneLeft DEF Waiting, Blank, Solo, Typed, TypeOK

\* The next elements and requests of a dialog whose content is there.
LEMMA DialogNext ==
  ASSUME DialogInv, Tidy, open # 0, Bound(forms[1], req), UNCHANGED open,
         NEW g, One(forms', g), g.loaded, g.bound = 1, g.list = g.cache, Follows(req, req', open)
  PROVE  DialogInv'
<1>1. \A n \in DOMAIN req : req[n].kind # "content" /\ req[n].by = open
  BY DEF DialogInv, DialogOk, Bound
<1>2. \A n \in DOMAIN req' : req'[n].kind # "content" /\ req'[n].by = open
  BY <1>1 DEF Follows
<1>3. DialogOk(g, req', open')
  BY <1>2 DEF DialogOk, Bound
<1> QED
  BY <1>3 DEF One, DialogInv

LEMMA DialogSame ==
  ASSUME Solo, DialogInv, Tidy, open # 0, Bound(forms[1], req), UNCHANGED <<forms, open>>,
         Follows(req, req', open)
  PROVE  DialogInv'
<1>1. One(forms', forms[1])
  BY SoloOpen
<1>2. forms[1].loaded /\ forms[1].bound = 1 /\ forms[1].list = forms[1].cache
  BY DEF Bound, DialogInv, DialogOk
<1> QED
  BY <1>1, <1>2, DialogNext

\* The elements and requests of a dialog whose content is there.
LEMMA BoundNow ==
  ASSUME Solo, DialogInv, Tidy, open # 0, Bound(forms[1], req)
  PROVE  /\ forms[1].loaded /\ forms[1].bound = 1 /\ forms[1].list = forms[1].cache /\ forms[1].num = open
         /\ forms[1] \in Form /\ req \in Seq(Req) /\ open \in Nat /\ 1 \in Nat /\ 1 > 0
BY SoloOpen DEF Bound, DialogInv, DialogOk, Solo, Typed, TypeOK

LEMMA DialogPosts ==
  ASSUME Solo, DialogInv, Tidy, PressButton \/ PressCreate
  PROVE  DialogInv'
<1> DEFINE p == <<Request("post", Nil, open)>>
<1>1. open # 0 /\ forms[1].loaded
  BY SoloActs DEF PressButton, PressCreate
<1>2. Request("post", Nil, open) \in Req
  BY RequestTypes DEF RequestKind, Nil, Solo, Typed, TypeOK
<1>3. Send(req, p)
  BY DEF PressButton, PressCreate
<1>4. Longer(req, req', p)
  BY <1>2, <1>3, SendingOne DEF Solo, Typed, TypeOK
<1>5. \A k \in DOMAIN p : p[k].kind # "content" /\ p[k].by = open
  BY OneKind
<1>6. UNCHANGED <<forms, open>>
  BY DEF PressButton, PressCreate
<1> HIDE DEF p
<1>7. Follows(req, req', open)
  BY <1>4, <1>5, FollowsSame, FollowsSent
<1> QED
  BY <1>1, <1>6, <1>7, LoadedNow, DialogSame

\* The md5 button sends one request, of the path that is shown.
LEMMA Md5Sent ==
  ASSUME Solo, DialogInv, Tidy, PressMd5
  PROVE  /\ Longer(req, req', <<Request("md5", forms[1].path, open)>>)
         /\ open # 0 /\ forms[1] \in Form /\ forms[1].loaded
<1> DEFINE p == <<Request("md5", forms[1].path, open)>>
<1>1. /\ open # 0 /\ forms[1] \in Form /\ forms[1].loaded
      /\ Send(req, Times(forms[1].bound, p))
  BY SoloPressMd5
<1>2. forms[1].bound = 1
  BY <1>1, LoadedNow DEF Bound
<1>3. Request("md5", forms[1].path, open) \in Req
  BY <1>1, FormParts, RequestTypes DEF RequestKind, Solo, Typed, TypeOK
<1>4. p \in Seq(Req) /\ Len(p) = 1
  BY <1>3
<1> HIDE DEF p
<1>5. Longer(req, req', p)
  BY <1>1, <1>2, <1>4, SendingTimes DEF Solo, Typed, TypeOK
<1> QED
  BY <1>1, <1>5 DEF p

LEMMA DialogUser ==
  ASSUME Solo, DialogInv, Tidy, ChooseAccount \/ ChooseItem \/ ChangePath \/ PressMd5
  PROVE  DialogInv'
<1> DEFINE f == forms[1]
<1>1. open # 0 /\ Bound(f, req) /\ open' = open
  <2>1. open # 0 /\ f.loaded
    BY SoloActs DEF ChooseAccount, ChooseItem, ChangePath, PressMd5
  <2> QED
    BY <2>1, LoadedNow DEF ChooseAccount, ChooseItem, ChangePath, PressMd5
<1>2. /\ f.loaded /\ f.bound = 1 /\ f.list = f.cache /\ f \in Form /\ req \in Seq(Req) /\ open \in Nat
      /\ 1 \in Nat /\ 1 > 0
  BY <1>1, BoundNow
<1> HIDE DEF f
<1>3. CASE ChooseAccount
  <2>1. PICK a \in Account : /\ One(forms', Chosen(f, a))
                             /\ Send(req, Times(f.bound, <<Request("list", a, open)>>))
    BY <1>3, SoloChooseAccount DEF f
  <2>a. Send(req, Times(1, <<Request("list", a, open)>>))
    BY <1>2, <2>1
  <2>2. PICK p : /\ Longer(req, req', p) /\ Asked(p, "list", a)
                 /\ \A j \in DOMAIN p : p[j].kind = "list" /\ p[j].by = open
    <3>1. 1 \in Nat /\ 1 > 0 /\ a \in Account /\ open \in Nat /\ req \in Seq(Req)
      BY <1>2, <2>1
    <3> HIDE DEF Longer, Asked
    <3> QED
      BY <3>1, <2>a, SentLists
  <2>3. Follows(req, req', open)
    BY <2>2, FollowsSame, FollowsSent
  <2>4. Chosen(f, a).loaded /\ Chosen(f, a).bound = 1 /\ Chosen(f, a).list = Chosen(f, a).cache
    BY <1>2, ChosenParts
  <2> QED
    BY <1>1, <2>1, <2>3, <2>4, DialogNext DEF f
<1>4. CASE ChooseItem
  <2>1. PICK i \in Items(f.list) :
          /\ f.list \in Account
          /\ \/ One(forms', ShowItem(Picked(f, i), i)) /\ req' = req
             \/ One(forms', ShowSpec(Picked(f, i), i)) /\ Send(req, Times(f.bound, TableRequests(i)))
    BY <1>4, SoloChooseItem DEF f
  <2>2. i \in Nat
    BY <2>1, ItemFacts
  <2> DEFINE h == Picked(f, i)
  <2>3. h \in Form /\ h.loaded /\ h.bound = 1 /\ h.list = h.cache
    BY <1>2, <2>2, PickedParts
  <2> HIDE DEF h
  <2>4. CASE One(forms', ShowItem(h, i)) /\ req' = req
    <3>1. ShowItem(h, i).loaded /\ ShowItem(h, i).bound = 1 /\ ShowItem(h, i).list = ShowItem(h, i).cache
      BY <2>3, ShownParts
    <3>2. Follows(req, req', open)
      BY <2>4, FollowsSame
    <3> QED
      BY <1>1, <2>4, <3>1, <3>2, DialogNext DEF f
  <2>5. CASE One(forms', ShowSpec(h, i)) /\ Send(req, Times(1, TableRequests(i)))
    <3>1. ShowSpec(h, i).loaded /\ ShowSpec(h, i).bound = 1 /\ ShowSpec(h, i).list = ShowSpec(h, i).cache
      BY <2>3, SpecParts
    <3>2. PICK p : Longer(req, req', p) /\ \A j \in DOMAIN p : p[j].kind \in {"drives", "vifs"} /\ p[j].by = open
      BY <1>2, <2>2, <2>5, SentTables
    <3>3. Follows(req, req', open)
      BY <3>2, FollowsSame, FollowsSent
    <3> QED
      BY <1>1, <2>5, <3>1, <3>3, DialogNext DEF f
  <2> QED
    BY <1>2, <2>1, <2>4, <2>5 DEF h
<1>5. CASE ChangePath
  <2>1. PICK p \in {1, 2} : One(forms', NewPath(f, p))
    BY <1>5, SoloPath DEF f
  <2>2. NewPath(f, p).loaded /\ NewPath(f, p).bound = 1 /\ NewPath(f, p).list = NewPath(f, p).cache
    BY <1>2, PathParts
  <2>3. Follows(req, req', open)
    BY <1>5, FollowsSame DEF ChangePath
  <2> QED
    BY <1>1, <2>1, <2>2, <2>3, DialogNext DEF f
<1>6. CASE PressMd5
  <2> DEFINE p == <<Request("md5", f.path, open)>>
  <2>1. Longer(req, req', p)
    BY <1>6, Md5Sent DEF f
  <2>2. \A k \in DOMAIN p : p[k].kind # "content" /\ p[k].by = open
    BY OneKind
  <2> HIDE DEF p
  <2>3. Follows(req, req', open) /\ forms' = forms
    BY <1>6, <2>1, <2>2, FollowsSame, FollowsSent DEF PressMd5
  <2> QED
    BY <1>1, <2>3, DialogSame DEF f
<1> QED
  BY <1>3, <1>4, <1>5, <1>6

LEMMA DialogContent ==
  ASSUME Solo, DialogInv, Tidy, NEW n \in DOMAIN req, ContentAnswer(n)
  PROVE  DialogInv'
<1> DEFINE f == forms[1]
           g == Loading(f)
<1>1. open # 0 /\ Waiting(f, req, open) /\ RemoveAt(req, n) = <<>> /\ f.bound = 0 /\ req[n].by = open
  <2>1. open # 0 /\ Waiting(f, req, open) /\ RemoveAt(req, n) = <<>> /\ f.bound = 0
    BY WaitingNow DEF ContentAnswer
  <2> QED
    BY <2>1 DEF DialogInv, DialogOk
<1>2. f \in Form /\ f.num = open /\ open \in Nat /\ open' = open /\ f.list = f.cache
  BY <1>1, SoloOpen DEF ContentAnswer, Solo, Typed, TypeOK, DialogInv, DialogOk
<1>3. CASE forms' = forms /\ req' = RemoveAt(req, n) /\ (open = 0 \/ req[n].by # open)
  BY <1>1, <1>3
<1>4. CASE One(forms', g) /\ Send(RemoveAt(req, n), ContentSends(f))
  <2>1. g.loaded /\ g.bound = 1 /\ g.list = g.cache
    <3>1. g.loaded /\ g.bound = f.bound + 1 /\ g.list = f.list /\ g.cache = f.cache
      BY <1>2, LoadingParts
    <3> QED
      BY <1>1, <1>2, <3>1
  <2> HIDE DEF f, g
  <2>2. Send(<<>>, ContentSends(f)) /\ <<>> \in Seq(Req)
    BY <1>1, <1>4
  <2>f. f \in Form /\ open \in Nat
    BY <1>2
  <2>3. PICK p : /\ Longer(<<>>, req', p)
                 /\ \A j \in DOMAIN p : /\ p[j].kind \in {"drives", "vifs", "list"}
                                        /\ p[j].by \in {open, f.num}
                                        /\ p[j].kind # "list" => kind = "drives" /\ f.bound = 0
                 /\ kind \in CreateKinds => DOMAIN p = {}
                 /\ kind \notin CreateKinds => Asked(p, "list", f.acct)
                 /\ kind = "drives" /\ f.bound = 0 => Asked(p, "drives", Nil) /\ Asked(p, "vifs", Nil)
    BY <2>2, <2>f, SentContent
  <2>4. \A j \in DOMAIN req' : req'[j].kind # "content" /\ req'[j].by = open
    <3>1. \A j \in DOMAIN req' : \E k \in DOMAIN p : req'[j] = p[k]
      BY <2>3, LongerKinds
    <3>2. \A k \in DOMAIN p : p[k].kind # "content" /\ p[k].by = open
      <4>1. TAKE k \in DOMAIN p
      <4>2. p[k].kind \in {"drives", "vifs", "list"} /\ p[k].by \in {open, f.num}
        BY <2>3
      <4>3. f.num = open
        BY <1>2
      <4> QED
        BY <4>2, <4>3
    <3> QED
      BY <3>1, <3>2
  <2>5. DialogOk(g, req', open')
    BY <1>2, <2>1, <2>4 DEF DialogOk, Bound
  <2> QED
    BY <1>1, <1>2, <1>4, <2>5 DEF One, DialogInv
<1> QED
  BY <1>3, <1>4, SoloContent

LEMMA DialogList ==
  ASSUME Solo, DialogInv, Tidy, NEW n \in DOMAIN req, ListAnswer(n)
  PROVE  DialogInv'
<1> DEFINE f == forms[1]
           a == req[n].arg
           by == req[n].by
           l == Listed(f, a, by)
           t == RemoveAt(req, n)
<1>1. /\ open # 0 /\ f \in Form /\ f.loaded /\ a \in Account /\ l \in Form
      /\ \/ One(forms', ShowItem(l, First(a))) /\ req' = t
         \/ One(forms', Cleared(l, by)) /\ req' = t
         \/ One(forms', NewSpec(l, First(a))) /\ Send(t, Times(f.bound, TableRequests(First(a))))
         \/ One(forms', NoSpec(l)) /\ req' = t
  BY SoloList
<1>2. Bound(f, req)
  BY <1>1, LoadedNow
<1>3. f.bound = 1 /\ f.num = open /\ by = open /\ open \in Nat /\ open' = open
  BY <1>1, <1>2, BoundNow DEF DialogInv, DialogOk, ListAnswer
<1>4. t \in Seq(Req) /\ Follows(req, t, open)
  BY Answering, FollowsCut DEF Solo, Typed
<1>l. l = Listed(f, a, by)
  OBVIOUS
<1> HIDE DEF l, f, a, by, t
<1>5. l.loaded /\ l.bound = 1 /\ l.list = l.cache
  <2>1. f \in Form /\ a \in Account
    BY <1>1
  <2>2. l.loaded = f.loaded /\ l.bound = f.bound /\ l.list = a /\ l.cache = (IF f.num = by THEN a ELSE f.cache)
    BY <2>1, <1>l, ListedParts
  <2> QED
    BY <1>1, <1>3, <2>2
<1>6. /\ l \in Form /\ First(a) \in Nat /\ 1 \in Nat /\ 1 > 0
  BY <1>1, ItemFacts
<1>7. \A g \in {ShowItem(l, First(a)), Cleared(l, by), NewSpec(l, First(a)), NoSpec(l)} :
        g.loaded /\ g.bound = 1 /\ g.list = g.cache
  <2> TAKE g \in {ShowItem(l, First(a)), Cleared(l, by), NewSpec(l, First(a)), NoSpec(l)}
  <2>1. CASE g = ShowItem(l, First(a))
    BY <1>5, <1>6, <2>1, ShownParts
  <2>2. CASE g = Cleared(l, by)
    BY <1>5, <1>6, <2>2, ClearedParts
  <2>3. CASE g = NewSpec(l, First(a))
    BY <1>5, <1>6, <2>3, NewSpecParts
  <2>4. CASE g = NoSpec(l)
    BY <1>5, <1>6, <2>4, NoSpecParts
  <2> QED
    BY <2>1, <2>2, <2>3, <2>4
<1>8. Follows(req, req', open)
  <2>1. CASE req' = t
    BY <1>4, <2>1
  <2>2. CASE Send(t, Times(1, TableRequests(First(a))))
    <3>1. PICK p : /\ Longer(t, req', p) /\ Asked(p, "drives", First(a)) /\ Asked(p, "vifs", First(a))
                   /\ \A j \in DOMAIN p : p[j].kind \in {"drives", "vifs"} /\ p[j].by = open
      BY <1>3, <1>4, <1>6, <2>2, SentTables
    <3> QED
      BY <1>4, <3>1, FollowsSent
  <2> QED
    BY <1>1, <1>3, <2>1, <2>2
<1>9. PICK g \in {ShowItem(l, First(a)), Cleared(l, by), NewSpec(l, First(a)), NoSpec(l)} : One(forms', g)
  BY <1>1
<1> QED
  BY <1>1, <1>2, <1>3, <1>7, <1>8, <1>9, DialogNext DEF f

LEMMA DialogStep == Typed /\ AloneInv /\ DialogInv /\ [Next]_vars => DialogInv'
<1> SUFFICES ASSUME Typed, AloneInv, DialogInv, [Next]_vars, Tidy' PROVE DialogInv'
  BY DEF DialogInv
<1>0. Tidy /\ Solo
  BY NotesKept, TidySolo DEF Tidy
<1>1. CASE UNCHANGED vars
  BY <1>1 DEF vars, DialogInv, Tidy
<1>2. CASE OpenDialog
  <2>1. /\ One(forms', Blank(open')) /\ open' # 0 /\ open' \in Nat
        /\ Send(req, <<Request("content", Nil, open')>>)
    BY <1>0, <1>2, SoloOpening
  <2>2. req = <<>>
    BY <1>0, <1>2, ClosedNow DEF OpenDialog
  <2>3. req' = <<Request("content", Nil, open')>>
    <3>1. Request("content", Nil, open') \in Req
      BY <2>1, RequestTypes DEF RequestKind, Nil
    <3> QED
      BY <2>1, <2>2, <3>1 DEF Send
  <2>4. Waiting(Blank(open'), req', open') /\ \A j \in DOMAIN req' : req'[j].by = open'
    BY <2>3, RequestTypes, OneKind DEF Waiting
  <2>5. DialogOk(Blank(open'), req', open')
    BY <2>4 DEF DialogOk, Blank
  <2> QED
    BY <2>1, <2>5 DEF One, DialogInv
<1>3. CASE CloseButton
  <2>1. req = <<>>
    BY <1>3 DEF CloseButton, Tidy, Note
  <2> QED
    BY <1>3, <2>1 DEF CloseButton, DialogInv
<1>4. CASE Hide
  BY <1>4 DEF Hide, Tidy
<1>5. CASE PressButton \/ PressCreate
  BY <1>0, <1>5, DialogPosts
<1>6. CASE ChooseAccount \/ ChooseItem \/ ChangePath \/ PressMd5
  BY <1>0, <1>6, DialogUser
<1>7. ASSUME NEW n \in DOMAIN req, Answer(n) PROVE DialogInv'
  <2>0. open # 0
    BY <1>0, ClosedNow
  <2>1. CASE ContentAnswer(n)
    BY <1>0, <2>1, DialogContent
  <2>2. CASE ListAnswer(n)
    BY <1>0, <2>2, DialogList
  <2>3. CASE TableAnswer(n) \/ Md5Answer(n)
    <3>1. req[n].kind # "content" /\ open' = open
      BY <2>3 DEF TableAnswer, Md5Answer
    <3>2. Bound(forms[1], req)
      BY <1>0, <2>0, <3>1, LoadedNow
    <3>3. /\ forms[1].loaded /\ forms[1].bound = 1 /\ forms[1].list = forms[1].cache /\ forms[1] \in Form
      BY <1>0, <2>0, <3>2, BoundNow
    <3>4. /\ req' = RemoveAt(req, n)
          /\ One(forms', Tabled(forms[1], req[n])) \/ One(forms', Hashed(forms[1], req[n].arg))
      BY <1>0, <2>3, SoloTable, SoloMd5
    <3>5. Follows(req, req', open)
      BY <1>0, <3>4, Answering, FollowsCut DEF Solo, Typed
    <3>6. CASE One(forms', Tabled(forms[1], req[n]))
      BY <1>0, <2>0, <3>1, <3>2, <3>3, <3>5, <3>6, TabledParts, DialogNext
    <3>7. CASE One(forms', Hashed(forms[1], req[n].arg))
      BY <1>0, <2>0, <3>1, <3>2, <3>3, <3>5, <3>7, HashedParts, DialogNext
    <3> QED
      BY <3>4, <3>6, <3>7
  <2>4. CASE PostSucceeds(n)
    <3>1. req' = <<>> /\ open' = 0
      BY <2>4 DEF PostSucceeds, Tidy, Note
    <3> QED
      BY <3>1 DEF DialogInv
  <2>5. CASE PostFails(n) \/ RequestFails(n)
    <3>1. req[n].kind # "content" /\ req' = RemoveAt(req, n) /\ UNCHANGED <<forms, open>>
      BY <2>5 DEF PostFails, RequestFails
    <3>2. Follows(req, req', open)
      BY <1>0, <3>1, Answering, FollowsCut DEF Solo, Typed
    <3> QED
      BY <1>0, <2>0, <3>1, <3>2, LoadedNow, DialogSame
  <2>6. CASE LateAnswer(n)
    <3>1. Bound(forms[1], req)
      BY <1>0, <2>0, <2>6, LoadedNow DEF LateAnswer
    <3>2. Loaded(forms) # {}
      BY <1>0, <2>0, <3>1, SoloOpen DEF Bound
    <3> QED
      BY <2>6, <3>2 DEF LateAnswer
  <2> QED
    BY <1>7, <2>1, <2>2, <2>3, <2>4, <2>5, <2>6 DEF Answer
<1> QED
  BY <1>1, <1>2, <1>3, <1>4, <1>5, <1>6, <1>7 DEF Next

(***************************************************************************)
(* A button acts on what is shown                                          *)
(***************************************************************************)
LEMMA SentKept ==
  ASSUME [Next]_vars, ~PressButton
  PROVE  sent' = sent
<1>1. CASE UNCHANGED vars
  BY <1>1 DEF vars
<1>2. ASSUME NEW n \in DOMAIN req, Answer(n) PROVE sent' = sent
  BY <1>2 DEF Answer, ContentAnswer, ListAnswer, TableAnswer, PostSucceeds, PostFails, RequestFails,
              LateAnswer, Md5Answer
<1>3. CASE OpenDialog \/ CloseButton \/ Hide
  BY <1>3 DEF OpenDialog, CloseButton, Hide
<1>4. CASE ChooseAccount \/ ChooseItem \/ PressCreate \/ ChangePath \/ PressMd5
  BY <1>4 DEF ChooseAccount, ChooseItem, PressCreate, ChangePath, PressMd5
<1> QED
  BY <1>1, <1>2, <1>3, <1>4 DEF Next

\* What the buttons send is what the fields show, or the list shown is not the
\* cached one, which only a list left over from a closed dialog brings about.
LEMMA SentStep == Typed /\ AloneInv /\ DialogInv /\ ActsOnWhatIsShown /\ [Next]_vars => ActsOnWhatIsShown'
<1> SUFFICES ASSUME Typed, AloneInv, DialogInv, ActsOnWhatIsShown, [Next]_vars, Alone'
             PROVE  sent'.item = sent'.fields \/ (sent'.stale /\ "reopened" \in hist')
  BY DEF ActsOnWhatIsShown, Alone
<1>0. hist \subseteq hist' /\ Solo /\ (sent.item = sent.fields \/ (sent.stale /\ "reopened" \in hist))
  BY NotesKept DEF Solo, Alone, ActsOnWhatIsShown
<1>1. CASE PressButton
  <2>1. open # 0 /\ Visible = 1 /\ kind \in PickKinds
    BY <1>0, <1>1, SoloActs DEF PressButton
  <2>2. forms[1].item = forms[1].fields \/ forms[1].list # forms[1].cache
    BY <1>0, <2>1, SoloOpen DEF Shows
  <2>3. Tidy => forms[1].list = forms[1].cache
    BY <2>1 DEF DialogInv, DialogOk
  <2>4. Tidy \/ "reopened" \in hist
    BY <1>0 DEF Tidy, Solo, Alone
  <2>5. /\ sent'.item = forms[1].item /\ sent'.fields = forms[1].fields
        /\ sent'.stale = (forms[1].list # forms[1].cache)
    BY <1>1, <2>1 DEF PressButton
  <2>6. CASE forms[1].list = forms[1].cache
    BY <2>2, <2>5, <2>6
  <2>7. CASE forms[1].list # forms[1].cache
    <3>1. sent'.stale = TRUE
      BY <2>5, <2>7
    <3> QED
      BY <1>0, <2>3, <2>4, <2>7, <3>1
  <2> QED
    BY <2>6, <2>7
<1>2. CASE ~PressButton
  <2>1. sent' = sent
    BY <1>2, SentKept
  <2> QED
    BY <1>0, <2>1
<1> QED
  BY <1>1, <1>2

LEMMA AloneStart == Init => AloneInv /\ DialogInv /\ ActsOnWhatIsShown
BY DEF Init, AloneInv, DialogInv, ActsOnWhatIsShown

\* The item whose delete or update is sent is the one whose values the dialog
\* showed when its button was pressed, whatever was answered in between, as long
\* as no dialog was hidden with its elements left in the document and the list
\* shown is the one cached on its select; and it is, unless a list asked for by
\* a dialog that was closed fills the list of the dialog opened next.
THEOREM ActsOnShown == Spec => []ActsOnWhatIsShown
<1> DEFINE I == Typed /\ AloneInv /\ DialogInv /\ ActsOnWhatIsShown
<1>1. Init => I
  BY TypeStart, AloneStart
<1>2. I /\ [Next]_vars => I'
  BY TypeStep, AloneStep, DialogStep, SentStep
<1> QED
  BY <1>1, <1>2, PTL DEF Spec

(***************************************************************************)
(* An update keeps the account of its item                                 *)
(***************************************************************************)
\* The account and the list stay, and the item is one of the list.
LEMMA AccountLess ==
  ASSUME NEW f, NEW q, AccountOk(f, q), NEW n \in DOMAIN q, q[n].kind # "list", NEW t, Cut(q, t, n),
         NEW g, g.acct = f.acct, g.list = f.list, g.item = f.item
  PROVE  AccountOk(g, t)
BY KindLess DEF AccountOk

LEMMA AccountMore ==
  ASSUME NEW f, NEW q, AccountOk(f, q), NEW t, NEW p, Longer(q, t, p),
         \A j \in DOMAIN p : p[j].kind # "list",
         NEW g, g.acct = f.acct, g.list = f.list, g.item = Nil \/ Owner(g.item) = f.list
  PROVE  AccountOk(g, t)
BY KindMore DEF AccountOk

LEMMA AccountPosts ==
  ASSUME Solo, open # 0, AccountOk(forms[1], req), PressButton \/ PressCreate
  PROVE  AccountOk(forms'[1], req')
<1> DEFINE r == Request("post", Nil, open)
<1>1. forms' = forms /\ Send(req, <<r>>) /\ req \in Seq(Req) /\ open \in Nat
  BY DEF PressButton, PressCreate, Solo, Typed, TypeOK
<1>2. r \in Req
  BY <1>1, RequestTypes DEF RequestKind, Nil
<1>3. Longer(req, req', <<r>>)
  BY <1>1, <1>2, SendingOne
<1>4. \A j \in DOMAIN <<r>> : <<r>>[j].kind # "list"
  BY OneKind
<1>5. forms[1].item = Nil \/ Owner(forms[1].item) = forms[1].list
  BY DEF AccountOk
<1> HIDE DEF r
<1> QED
  BY <1>1, <1>3, <1>4, <1>5, AccountMore

LEMMA AccountChooses ==
  ASSUME Solo, AccountOk(forms[1], req), ChooseAccount
  PROVE  AccountOk(forms'[1], req')
<1> DEFINE f == forms[1]
<1>1. PICK a \in Account : /\ One(forms', Chosen(f, a))
                           /\ Send(req, Times(f.bound, <<Request("list", a, open)>>))
  BY SoloChooseAccount
<1>2. f \in Form /\ open \in Nat /\ req \in Seq(Req) /\ f.bound \in Nat /\ f.bound > 0
  BY SoloActs, FormParts DEF ChooseAccount, Solo, Typed, TypeOK
<1>3. f.item = Nil \/ Owner(f.item) = f.list
  BY DEF AccountOk
<1> HIDE DEF f
<1>4. PICK p : /\ Longer(req, req', p) /\ Asked(p, "list", a)
               /\ \A j \in DOMAIN p : p[j].kind = "list" /\ p[j].by = open
  BY <1>1, <1>2, SentLists
<1>5. Chosen(f, a).acct = a /\ Chosen(f, a).item = f.item /\ Chosen(f, a).list = f.list
  BY <1>1, <1>2, ChosenParts
<1>6. KindOk(req', "list", a, f.list)
  BY <1>4, KindAsked
<1>7. forms'[1] = Chosen(f, a)
  BY <1>1 DEF One
<1> QED
  BY <1>3, <1>5, <1>6, <1>7 DEF AccountOk

LEMMA AccountPicks ==
  ASSUME Solo, AccountOk(forms[1], req), ChooseItem
  PROVE  AccountOk(forms'[1], req')
<1> DEFINE f == forms[1]
<1>1. PICK i \in Items(f.list) :
        \/ kind \in PickKinds /\ One(forms', ShowItem(Picked(f, i), i)) /\ req' = req
        \/ /\ kind = "drives" /\ One(forms', ShowSpec(Picked(f, i), i))
           /\ Send(req, Times(f.bound, TableRequests(i)))
  BY SoloChooseItem
<1>2. /\ f \in Form /\ f.list \in Account /\ open \in Nat /\ req \in Seq(Req) /\ f.bound \in Nat /\ f.bound > 0
  BY SoloChooseItem, SoloActs, FormParts DEF ChooseItem, Solo, Typed, TypeOK
<1>d. AccountOk(f, req)
  OBVIOUS
<1> HIDE DEF f
<1>3. i \in Nat /\ Owner(i) = f.list
  BY <1>1, <1>2, ItemFacts
<1>4. Picked(f, i) \in Form /\ Picked(f, i).acct = f.acct /\ Picked(f, i).list = f.list /\ Picked(f, i).item = i
  BY <1>2, <1>3, PickedParts
<1>5. CASE One(forms', ShowItem(Picked(f, i), i)) /\ req' = req
  <2>1. ShowItem(Picked(f, i), i).acct = f.acct /\ ShowItem(Picked(f, i), i).list = f.list
        /\ ShowItem(Picked(f, i), i).item = i
    BY <1>4, ShownParts
  <2> QED
    BY <1>d, <1>3, <1>5, <2>1 DEF AccountOk, One
<1>6. CASE One(forms', ShowSpec(Picked(f, i), i)) /\ Send(req, Times(f.bound, TableRequests(i)))
  <2>1. ShowSpec(Picked(f, i), i).acct = f.acct /\ ShowSpec(Picked(f, i), i).list = f.list
        /\ ShowSpec(Picked(f, i), i).item = i
    BY <1>4, SpecParts
  <2>2. PICK p : /\ Longer(req, req', p) /\ Asked(p, "drives", i) /\ Asked(p, "vifs", i)
                 /\ \A j \in DOMAIN p : p[j].kind \in {"drives", "vifs"} /\ p[j].by = open
    BY <1>2, <1>3, <1>6, SentTables
  <2>3. \A j \in DOMAIN p : p[j].kind # "list"
    BY <2>2
  <2>4. forms'[1] = ShowSpec(Picked(f, i), i)
    BY <1>6 DEF One
  <2> QED
    BY <1>d, <1>3, <2>1, <2>2, <2>3, <2>4, AccountMore
<1> QED
  BY <1>1, <1>5, <1>6

\* The content comes to a dialog without an item: its list is asked for.
LEMMA AccountContent ==
  ASSUME Solo, Tidy, DialogInv, kind \notin CreateKinds, NEW n \in DOMAIN req, ContentAnswer(n),
         forms'[1].loaded
  PROVE  AccountOk(forms'[1], req')
<1> DEFINE f == forms[1]
           g == Loading(f)
<1>1. open # 0 /\ RemoveAt(req, n) = <<>> /\ f.item = Nil /\ ~f.loaded
  BY WaitingNow DEF ContentAnswer
<1>2. f \in Form /\ open \in Nat
  BY <1>1, SoloOpen DEF Solo, Typed, TypeOK
<1>3. One(forms', g) /\ Send(<<>>, ContentSends(f))
  BY <1>1, SoloContent
<1>4. g.acct = f.acct /\ g.item = Nil
  BY <1>1, <1>2, LoadingParts
<1> HIDE DEF f, g
<1>s. <<>> \in Seq(Req)
  OBVIOUS
<1>5. PICK p : /\ Longer(<<>>, req', p)
               /\ \A j \in DOMAIN p : /\ p[j].kind \in {"drives", "vifs", "list"}
                                      /\ p[j].by \in {open, f.num}
                                      /\ p[j].kind # "list" => kind = "drives" /\ f.bound = 0
               /\ kind \in CreateKinds => DOMAIN p = {}
               /\ kind \notin CreateKinds => Asked(p, "list", f.acct)
               /\ kind = "drives" /\ f.bound = 0 => Asked(p, "drives", Nil) /\ Asked(p, "vifs", Nil)
  BY <1>2, <1>3, <1>s, SentContent
<1>6. KindOk(req', "list", f.acct, g.list)
  BY <1>5, KindAsked
<1> QED
  BY <1>3, <1>4, <1>6 DEF AccountOk, One

\* The list that no older one is still on its way behind: it is of the selected
\* account if it was asked for last, and its first item is of it.
LEMMA AccountList ==
  ASSUME Solo, AccountOk(forms[1], req), NEW n \in DOMAIN req, ListAnswer(n), "overtaken" \notin hist'
  PROVE  AccountOk(forms'[1], req')
<1> DEFINE f == forms[1]
           a == req[n].arg
           by == req[n].by
           l == Listed(f, a, by)
           t == RemoveAt(req, n)
           i == First(a)
<1>1. /\ f \in Form /\ a \in Account /\ l \in Form
      /\ \/ One(forms', ShowItem(l, i)) /\ req' = t
         \/ One(forms', Cleared(l, by)) /\ req' = t
         \/ /\ i # Nil /\ One(forms', NewSpec(l, i)) /\ Send(t, Times(f.bound, TableRequests(i)))
         \/ One(forms', NoSpec(l)) /\ req' = t
  BY SoloList
<1>2. t \in Seq(Req) /\ Cut(req, t, n) /\ open \in Nat /\ open # 0
  BY Answering, SoloList DEF Solo, Typed, TypeOK
<1>3. f.bound \in Nat /\ f.bound > 0
  <2>1. f.loaded
    BY SoloList
  <2> QED
    BY <1>1, <1>2, <2>1, SoloOpen, FormParts
<1>4. KindOk(t, "list", f.acct, a)
  <2>1. n \in Of(req, "list") /\ \A m \in Of(req, "list") : ~(m < n)
    BY DEF ListAnswer, Note, Of, InFlight
  <2>2. KindOk(req, "list", f.acct, f.list)
    BY DEF AccountOk
  <2> HIDE DEF f, t
  <2> QED
    BY <1>2, <2>1, <2>2, KindAnswered DEF a
<1>5. i \in Nat /\ (i = Nil \/ Owner(i) = a)
  BY <1>1, ItemFacts
<1>l. l = Listed(f, a, by)
  OBVIOUS
<1> HIDE DEF f, a, by, l, t, i
<1>6. l.acct = f.acct /\ l.list = a
  BY <1>1, <1>l, ListedParts
<1>7. \A g \in {ShowItem(l, i), Cleared(l, by), NewSpec(l, i), NoSpec(l)} :
        g.acct = f.acct /\ g.list = a /\ (g.item = Nil \/ Owner(g.item) = a)
  <2> TAKE g \in {ShowItem(l, i), Cleared(l, by), NewSpec(l, i), NoSpec(l)}
  <2>1. CASE g = ShowItem(l, i)
    BY <1>1, <1>5, <1>6, <2>1, ShownParts
  <2>2. CASE g = Cleared(l, by)
    BY <1>1, <1>6, <2>2, ClearedParts
  <2>3. CASE g = NewSpec(l, i)
    BY <1>1, <1>5, <1>6, <2>3, NewSpecParts
  <2>4. CASE g = NoSpec(l)
    BY <1>1, <1>6, <2>4, NoSpecParts
  <2> QED
    BY <2>1, <2>2, <2>3, <2>4
<1>8. KindOk(req', "list", f.acct, a)
  <2>1. CASE req' = t
    BY <1>4, <2>1
  <2>2. CASE Send(t, Times(f.bound, TableRequests(i)))
    <3>1. PICK p : /\ Longer(t, req', p) /\ Asked(p, "drives", i) /\ Asked(p, "vifs", i)
                   /\ \A j \in DOMAIN p : p[j].kind \in {"drives", "vifs"} /\ p[j].by = open
      BY <1>2, <1>3, <1>5, <2>2, SentTables
    <3>2. \A j \in DOMAIN p : p[j].kind # "list"
      BY <3>1
    <3> QED
      BY <1>4, <3>1, <3>2, KindMore
  <2> QED
    BY <1>1, <2>1, <2>2
<1>9. PICK g \in {ShowItem(l, i), Cleared(l, by), NewSpec(l, i), NoSpec(l)} : One(forms', g)
  BY <1>1
<1> QED
  BY <1>7, <1>8, <1>9 DEF AccountOk, One

LEMMA AccountStep == Typed /\ AloneInv /\ DialogInv /\ AccountInv /\ [Next]_vars => AccountInv'
<1> SUFFICES ASSUME Typed, AloneInv, DialogInv, AccountInv, [Next]_vars,
                    Clean', open' # 0, kind' \notin CreateKinds, forms'[1].loaded
             PROVE  AccountOk(forms'[1], req')
  BY DEF AccountInv
<1>0. Clean /\ Solo /\ Tidy
  BY NotesKept DEF Solo, Alone, Clean, Tidy
<1>n. open # 0 /\ kind \notin CreateKinds /\ forms[1].loaded => AccountOk(forms[1], req)
  BY <1>0 DEF AccountInv
<1>1. CASE UNCHANGED vars
  BY <1>n, <1>1 DEF vars
<1>2. CASE OpenDialog
  BY <1>0, <1>2, SoloOpening DEF One, Blank
<1>3. CASE CloseButton
  BY <1>3 DEF CloseButton
<1>4. CASE Hide
  BY <1>4 DEF Hide
<1>5. CASE PressButton \/ PressCreate
  BY <1>0, <1>n, <1>5, SoloActs, AccountPosts DEF PressButton, PressCreate
<1>6. CASE ChooseAccount
  BY <1>0, <1>n, <1>6, SoloActs, AccountChooses DEF ChooseAccount
<1>7. CASE ChooseItem
  BY <1>0, <1>n, <1>7, SoloActs, AccountPicks DEF ChooseItem
<1>8. CASE ChangePath \/ PressMd5
  BY <1>8 DEF ChangePath, PressMd5, CreateKinds
<1>9. ASSUME NEW n \in DOMAIN req, Answer(n) PROVE AccountOk(forms'[1], req')
  <2>0. RemoveAt(req, n) \in Seq(Req) /\ Cut(req, RemoveAt(req, n), n)
    BY <1>0, Answering DEF Solo, Typed
  <2>1. CASE ContentAnswer(n)
    BY <1>0, <2>1, AccountContent DEF ContentAnswer
  <2>2. CASE ListAnswer(n)
    <3>1. AccountOk(forms[1], req)
      BY <1>0, <1>n, <2>2, SoloList DEF ListAnswer
    <3>2. "overtaken" \notin hist'
      BY DEF Clean
    <3> QED
      BY <1>0, <2>2, <3>1, <3>2, AccountList
  <2>3. CASE TableAnswer(n) \/ Md5Answer(n)
    <3>1. /\ open # 0 /\ forms[1] \in Form /\ forms[1].loaded /\ req' = RemoveAt(req, n)
          /\ \/ One(forms', Tabled(forms[1], req[n]))
             \/ One(forms', Hashed(forms[1], req[n].arg))
      BY <1>0, <2>3, SoloTable, SoloMd5
    <3>2. AccountOk(forms[1], req) /\ req[n].kind # "list"
      BY <1>n, <2>3, <3>1 DEF TableAnswer, Md5Answer
    <3>3. PICK g \in {Tabled(forms[1], req[n]), Hashed(forms[1], req[n].arg)} : One(forms', g)
      BY <3>1
    <3>4. g.acct = forms[1].acct /\ g.list = forms[1].list /\ g.item = forms[1].item
      BY <3>1, TabledParts, HashedParts
    <3> QED
      BY <2>0, <3>1, <3>2, <3>3, <3>4, AccountLess DEF One
  <2>4. CASE PostSucceeds(n)
    BY <2>4 DEF PostSucceeds
  <2>5. CASE PostFails(n)
    <3>1. req[n].kind # "list" /\ req' = RemoveAt(req, n) /\ forms' = forms /\ open' = open /\ kind' = kind
      BY <2>5 DEF PostFails
    <3> QED
      BY <1>n, <2>0, <3>1, AccountLess
  <2>6. CASE RequestFails(n)
    BY <2>6 DEF RequestFails, Clean
  <2>7. CASE LateAnswer(n)
    <3>1. forms' = forms /\ open' = open /\ Loaded(forms) = {}
      BY <2>7 DEF LateAnswer
    <3> QED
      BY <1>0, <3>1, SoloOpen
  <2> QED
    BY <1>9, <2>1, <2>2, <2>3, <2>4, <2>5, <2>6, <2>7 DEF Answer
<1> QED
  BY <1>1, <1>2, <1>3, <1>4, <1>5, <1>6, <1>7, <1>8, <1>9 DEF Next

LEMMA KeptStep ==
  Typed /\ AloneInv /\ AccountInv /\ UpdateKeepsAccount /\ [Next]_vars => UpdateKeepsAccount'
<1> SUFFICES ASSUME Typed, AloneInv, AccountInv, UpdateKeepsAccount, [Next]_vars,
                    sent'.button = "update", ~sent'.pending, Clean'
             PROVE  sent'.item = Nil \/ Owner(sent'.item) = sent'.acct
  BY DEF UpdateKeepsAccount, Clean
<1>0. Clean /\ Solo
  BY NotesKept DEF Solo, Alone, Clean
<1>1. CASE PressButton
  <2>1. open # 0 /\ Visible = 1 /\ kind \notin CreateKinds /\ forms[1].loaded
    BY <1>0, <1>1, SoloActs, Constants DEF PressButton
  <2>2. /\ sent'.acct = forms[1].acct /\ sent'.item = forms[1].item
        /\ sent'.pending = (InFlight("list") # {})
    BY <1>1, <2>1 DEF PressButton
  <2>3. InFlight("list") = {}
    BY <2>2, Zenon
  <2>4. Of(req, "list") = {}
    BY <2>3 DEF Of, InFlight
  <2>5. AccountOk(forms[1], req)
    BY <1>0, <2>1 DEF AccountInv
  <2> QED
    BY <2>2, <2>4, <2>5 DEF AccountOk, KindOk
<1>2. CASE ~PressButton
  <2>1. sent' = sent
    BY <1>2, SentKept
  <2> QED
    BY <1>0, <2>1 DEF UpdateKeepsAccount, Clean
<1> QED
  BY <1>1, <1>2

LEMMA AccountStart == Init => AccountInv /\ UpdateKeepsAccount
BY DEF Init, AccountInv, UpdateKeepsAccount

\* An update is sent with the account the item belongs to, whatever accounts
\* were chosen before and in whatever order their lists were answered, unless
\* the list of the chosen account was still on its way, a list failed, or one
\* was overtaken by a later one, as long as no dialog was hidden or closed with
\* a request in flight and opened again.
THEOREM UpdatesKeepAccount == Spec => []UpdateKeepsAccount
<1> DEFINE I == Typed /\ AloneInv /\ DialogInv /\ AccountInv /\ UpdateKeepsAccount
<1>1. Init => I
  BY TypeStart, AloneStart, AccountStart
<1>2. I /\ [Next]_vars => I'
  BY TypeStep, AloneStep, DialogStep, AccountStep, KeptStep
<1> QED
  BY <1>1, <1>2, PTL DEF Spec

(***************************************************************************)
(* The tables are those of is_uuid                                         *)
(***************************************************************************)
SameSpec(f, g) == g.item = f.item /\ g.uuid = f.uuid /\ g.drives = f.drives /\ g.vifs = f.vifs

LEMMA TablesLess ==
  ASSUME NEW f, NEW q, TablesOk(f, q), NEW n \in DOMAIN q, q[n].kind # "drives", q[n].kind # "vifs",
         NEW t, Cut(q, t, n), NEW g, SameSpec(f, g)
  PROVE  TablesOk(g, t)
BY KindLess DEF TablesOk, SameSpec

LEMMA TablesMore ==
  ASSUME NEW f, NEW q, TablesOk(f, q), NEW t, NEW p, Longer(q, t, p),
         \A j \in DOMAIN p : p[j].kind # "drives" /\ p[j].kind # "vifs", NEW g, SameSpec(f, g)
  PROVE  TablesOk(g, t)
BY KindMore DEF TablesOk, SameSpec

\* A spec is shown and its tables are asked for.
LEMMA TablesAsked ==
  ASSUME NEW s, NEW t, NEW p, Longer(s, t, p), NEW i, Asked(p, "drives", i), Asked(p, "vifs", i),
         NEW g, g.uuid = i, g.item = Nil \/ g.item = i
  PROVE  TablesOk(g, t)
<1>1. KindOk(t, "drives", g.uuid, g.drives) /\ KindOk(t, "vifs", g.uuid, g.vifs)
  BY KindAsked
<1> QED
  BY <1>1 DEF TablesOk

\* A table comes behind none of its own.
LEMMA TablesAnswered ==
  ASSUME NEW f \in Form, NEW q, TablesOk(f, q), NEW n \in DOMAIN q, q[n].kind \in {"drives", "vifs"},
         \A m \in Of(q, q[n].kind) : ~(m < n), NEW t, Cut(q, t, n), NEW g, g = Tabled(f, q[n])
  PROVE  TablesOk(g, t)
<1>1. /\ g.item = f.item /\ g.uuid = f.uuid
      /\ g.drives = (IF q[n].kind = "drives" THEN q[n].arg ELSE f.drives)
      /\ g.vifs = (IF q[n].kind = "drives" THEN f.vifs ELSE q[n].arg)
  BY TabledParts
<1>2. n \in Of(q, q[n].kind)
  BY DEF Of
<1>3. CASE q[n].kind = "drives"
  <2>1. KindOk(t, "vifs", f.uuid, f.vifs)
    BY <1>3, KindLess DEF TablesOk
  <2>2. f.item # Nil => KindOk(t, "drives", f.uuid, q[n].arg)
    BY <1>2, <1>3, KindAnswered DEF TablesOk
  <2> QED
    BY <1>1, <1>3, <2>1, <2>2 DEF TablesOk
<1>4. CASE q[n].kind = "vifs"
  <2>1. KindOk(t, "vifs", f.uuid, q[n].arg)
    BY <1>2, <1>4, KindAnswered DEF TablesOk
  <2>2. f.item # Nil => KindOk(t, "drives", f.uuid, f.drives)
    BY <1>4, KindLess DEF TablesOk
  <2> QED
    BY <1>1, <1>4, <2>1, <2>2 DEF TablesOk
<1> QED
  BY <1>3, <1>4

LEMMA TablesChooses ==
  ASSUME Solo, TablesOk(forms[1], req), ChooseAccount
  PROVE  TablesOk(forms'[1], req')
<1> DEFINE f == forms[1]
<1>1. PICK a \in Account : /\ One(forms', Chosen(f, a))
                           /\ Send(req, Times(f.bound, <<Request("list", a, open)>>))
  BY SoloChooseAccount
<1>2. f \in Form /\ open \in Nat /\ req \in Seq(Req) /\ f.bound \in Nat /\ f.bound > 0
  BY SoloActs, FormParts DEF ChooseAccount, Solo, Typed, TypeOK
<1>d. TablesOk(f, req)
  OBVIOUS
<1> HIDE DEF f
<1>3. PICK p : /\ Longer(req, req', p) /\ Asked(p, "list", a)
               /\ \A j \in DOMAIN p : p[j].kind = "list" /\ p[j].by = open
  BY <1>1, <1>2, SentLists
<1>4. SameSpec(f, Chosen(f, a))
  BY <1>1, <1>2, ChosenParts DEF SameSpec
<1>5. \A j \in DOMAIN p : p[j].kind # "drives" /\ p[j].kind # "vifs"
  BY <1>3
<1>6. forms'[1] = Chosen(f, a)
  BY <1>1 DEF One
<1> QED
  BY <1>d, <1>3, <1>4, <1>5, <1>6, TablesMore

LEMMA TablesPicks ==
  ASSUME Solo, kind = "drives", ChooseItem
  PROVE  TablesOk(forms'[1], req')
<1> DEFINE f == forms[1]
<1>1. PICK i \in Items(f.list) :
        One(forms', ShowSpec(Picked(f, i), i)) /\ Send(req, Times(f.bound, TableRequests(i)))
  BY SoloChooseItem, Constants
<1>2. /\ f \in Form /\ f.list \in Account /\ open \in Nat /\ req \in Seq(Req) /\ f.bound \in Nat /\ f.bound > 0
  BY SoloChooseItem, SoloActs, FormParts DEF ChooseItem, Solo, Typed, TypeOK
<1> HIDE DEF f
<1>3. i \in Nat
  BY <1>1, <1>2, ItemFacts
<1>4. Picked(f, i) \in Form /\ Picked(f, i).item = i
  BY <1>2, <1>3, PickedParts
<1>5. ShowSpec(Picked(f, i), i).item = i /\ ShowSpec(Picked(f, i), i).uuid = i
  BY <1>4, SpecParts
<1>6. PICK p : /\ Longer(req, req', p) /\ Asked(p, "drives", i) /\ Asked(p, "vifs", i)
               /\ \A j \in DOMAIN p : p[j].kind \in {"drives", "vifs"} /\ p[j].by = open
  BY <1>1, <1>2, <1>3, SentTables
<1>7. forms'[1] = ShowSpec(Picked(f, i), i)
  BY <1>1 DEF One
<1> QED
  BY <1>5, <1>6, <1>7, TablesAsked

\* The content comes: to a dialog as it was made, whose tables ask for those of
\* no spec, or to one that has its tables.
LEMMA TablesContent ==
  ASSUME Solo, kind = "drives", forms[1].loaded /\ open # 0 => TablesOk(forms[1], req),
         NEW n \in DOMAIN req, ContentAnswer(n), open # 0, forms'[1].loaded
  PROVE  TablesOk(forms'[1], req')
<1> DEFINE f == forms[1]
           g == Loading(f)
           t == RemoveAt(req, n)
<1>1. /\ f \in Form /\ open \in Nat /\ t \in Seq(Req) /\ Cut(req, t, n)
      /\ f.loaded => f.bound > 0
      /\ ~f.loaded => f = Blank(f.num)
  BY SoloOpen, Answering DEF Solo, Typed, TypeOK, Fresh
<1>2. req[n].kind = "content" /\ (f.loaded => TablesOk(f, req))
  BY DEF ContentAnswer
<1>3. \/ forms' = forms /\ req' = t
      \/ One(forms', g) /\ Send(t, ContentSends(f))
  BY SoloContent
<1>c. kind \notin CreateKinds
  BY Constants
<1> HIDE DEF t
<1>4. CASE forms' = forms /\ req' = t
  <2>1. TablesOk(f, req) /\ SameSpec(f, f)
    BY <1>2, <1>4 DEF SameSpec
  <2> QED
    BY <1>1, <1>2, <1>4, <2>1, TablesLess
<1>5. CASE One(forms', g) /\ Send(t, ContentSends(f))
  <2>1. SameSpec(f, g)
    BY <1>1, LoadingParts DEF SameSpec
  <2>b. ~f.loaded => f.bound = 0 /\ f.item = Nil /\ f.uuid = Nil
    BY <1>1 DEF Blank
  <2> HIDE DEF f, g
  <2>2. PICK p : /\ Longer(t, req', p)
                 /\ \A j \in DOMAIN p : /\ p[j].kind \in {"drives", "vifs", "list"}
                                        /\ p[j].by \in {open, f.num}
                                        /\ p[j].kind # "list" => kind = "drives" /\ f.bound = 0
                 /\ kind \in CreateKinds => DOMAIN p = {}
                 /\ kind \notin CreateKinds => Asked(p, "list", f.acct)
                 /\ kind = "drives" /\ f.bound = 0 => Asked(p, "drives", Nil) /\ Asked(p, "vifs", Nil)
    BY <1>1, <1>5, SentContent
  <2>g. forms'[1] = g
    BY <1>5 DEF One
  <2>3. CASE f.loaded
    <3>1. TablesOk(f, t)
      <4>1. SameSpec(f, f) /\ TablesOk(f, req)
        BY <1>2, <2>3 DEF SameSpec
      <4> QED
        BY <1>1, <1>2, <4>1, TablesLess
    <3>2. f.bound # 0
      BY <1>1, <2>3
    <3>3. \A j \in DOMAIN p : p[j].kind # "drives" /\ p[j].kind # "vifs"
      BY <2>2, <3>2
    <3> QED
      BY <2>1, <2>2, <2>g, <3>1, <3>3, TablesMore
  <2>4. CASE ~f.loaded
    <3>1. g.uuid = Nil /\ g.item = Nil
      BY <2>1, <2>4, <2>b DEF SameSpec
    <3>2. Asked(p, "drives", Nil) /\ Asked(p, "vifs", Nil)
      BY <2>2, <2>4, <2>b
    <3> QED
      BY <2>2, <2>g, <3>1, <3>2, TablesAsked
  <2> QED
    BY <2>3, <2>4
<1> QED
  BY <1>3, <1>4, <1>5

\* A list comes: its first spec is shown, or none is.
LEMMA TablesList ==
  ASSUME Solo, kind = "drives", TablesOk(forms[1], req), NEW n \in DOMAIN req, ListAnswer(n)
  PROVE  TablesOk(forms'[1], req')
<1> DEFINE f == forms[1]
           a == req[n].arg
           l == Listed(f, a, req[n].by)
           t == RemoveAt(req, n)
           i == First(a)
<1>1. /\ f \in Form /\ a \in Account /\ l \in Form
      /\ \/ One(forms', NewSpec(l, i)) /\ Send(t, Times(f.bound, TableRequests(i)))
         \/ One(forms', NoSpec(l)) /\ req' = t
  BY SoloList, Constants
<1>2. t \in Seq(Req) /\ Cut(req, t, n) /\ open \in Nat /\ open # 0
  BY Answering, SoloList DEF Solo, Typed, TypeOK
<1>3. f.bound \in Nat /\ f.bound > 0
  <2>1. f.loaded
    BY SoloList
  <2> QED
    BY <1>1, <1>2, <2>1, SoloOpen, FormParts
<1>4. TablesOk(f, req) /\ req[n].kind = "list"
  BY DEF ListAnswer
<1>5. i \in Nat
  BY <1>1, ItemFacts
<1>l. l = Listed(f, a, req[n].by)
  OBVIOUS
<1> HIDE DEF f, a, l, t, i
<1>6. CASE One(forms', NewSpec(l, i)) /\ Send(t, Times(f.bound, TableRequests(i)))
  <2>1. NewSpec(l, i).item = i /\ NewSpec(l, i).uuid = i
    BY <1>1, NewSpecParts
  <2>2. PICK p : /\ Longer(t, req', p) /\ Asked(p, "drives", i) /\ Asked(p, "vifs", i)
                 /\ \A j \in DOMAIN p : p[j].kind \in {"drives", "vifs"} /\ p[j].by = open
    BY <1>2, <1>3, <1>5, <1>6, SentTables
  <2>3. forms'[1] = NewSpec(l, i)
    BY <1>6 DEF One
  <2> QED
    BY <2>1, <2>2, <2>3, TablesAsked
<1>7. CASE One(forms', NoSpec(l)) /\ req' = t
  <2>1. l.uuid = f.uuid /\ l.vifs = f.vifs
    BY <1>1, <1>l, ListedParts
  <2>2. NoSpec(l).item = Nil /\ NoSpec(l).uuid = l.uuid /\ NoSpec(l).vifs = l.vifs
    BY <1>1, NoSpecParts
  <2>3. KindOk(t, "vifs", f.uuid, f.vifs)
    BY <1>2, <1>4, KindLess DEF TablesOk
  <2>4. forms'[1] = NoSpec(l)
    BY <1>7 DEF One
  <2> QED
    BY <1>7, <2>1, <2>2, <2>3, <2>4 DEF TablesOk
<1> QED
  BY <1>1, <1>6, <1>7

LEMMA TablesStep == Typed /\ AloneInv /\ TablesInv /\ [Next]_vars => TablesInv'
<1> SUFFICES ASSUME Typed, AloneInv, TablesInv, [Next]_vars,
                    InOrder', open' # 0, kind' = "drives", forms'[1].loaded
             PROVE  TablesOk(forms'[1], req')
  BY DEF TablesInv
<1>0. InOrder /\ Solo
  BY NotesKept DEF Solo, Alone, InOrder
<1>k. kind' = kind
  BY KindKept
<1>c. kind = "drives" /\ kind \notin CreateKinds /\ kind \notin PickKinds /\ kind # "create_wmi"
  BY <1>k, Constants
<1>n. open # 0 /\ forms[1].loaded => TablesOk(forms[1], req)
  BY <1>0, <1>c DEF TablesInv
<1>1. CASE UNCHANGED vars
  BY <1>n, <1>1 DEF vars
<1>2. CASE OpenDialog
  BY <1>0, <1>2, SoloOpening DEF One, Blank
<1>3. CASE CloseButton
  BY <1>3 DEF CloseButton
<1>4. CASE Hide
  BY <1>4 DEF Hide
<1>5. CASE PressButton \/ PressCreate \/ ChangePath \/ PressMd5
  BY <1>c, <1>5 DEF PressButton, PressCreate, ChangePath, PressMd5
<1>6. CASE ChooseAccount
  BY <1>0, <1>n, <1>6, SoloActs, TablesChooses DEF ChooseAccount
<1>7. CASE ChooseItem
  BY <1>0, <1>c, <1>7, TablesPicks
<1>8. ASSUME NEW n \in DOMAIN req, Answer(n) PROVE TablesOk(forms'[1], req')
  <2>0. RemoveAt(req, n) \in Seq(Req) /\ Cut(req, RemoveAt(req, n), n)
    BY <1>0, Answering DEF Solo, Typed
  <2>1. CASE ContentAnswer(n)
    BY <1>0, <1>c, <1>n, <2>1, TablesContent DEF ContentAnswer
  <2>2. CASE ListAnswer(n)
    <3>1. TablesOk(forms[1], req)
      BY <1>0, <1>n, <2>2, SoloList DEF ListAnswer
    <3> QED
      BY <1>0, <1>c, <2>2, <3>1, TablesList
  <2>3. CASE TableAnswer(n)
    <3>1. /\ open # 0 /\ forms[1] \in Form /\ forms[1].loaded /\ req' = RemoveAt(req, n)
          /\ One(forms', Tabled(forms[1], req[n]))
      BY <1>0, <2>3, SoloTable
    <3>2. TablesOk(forms[1], req) /\ req[n].kind \in {"drives", "vifs"}
      BY <1>n, <2>3, <3>1 DEF TableAnswer
    <3>3. \A m \in Of(req, req[n].kind) : ~(m < n)
      BY <2>3 DEF TableAnswer, Note, InOrder, Of, InFlight
    <3>4. forms'[1] = Tabled(forms[1], req[n])
      BY <3>1 DEF One
    <3> QED
      BY <2>0, <3>1, <3>2, <3>3, <3>4, TablesAnswered
  <2>4. CASE PostSucceeds(n)
    BY <2>4 DEF PostSucceeds
  <2>5. CASE PostFails(n)
    <3>1. req[n].kind # "drives" /\ req[n].kind # "vifs" /\ req' = RemoveAt(req, n) /\ forms' = forms /\ open' = open
      BY <2>5 DEF PostFails
    <3>2. SameSpec(forms[1], forms[1])
      BY DEF SameSpec
    <3> QED
      BY <1>n, <2>0, <3>1, <3>2, TablesLess
  <2>6. CASE RequestFails(n)
    BY <2>6 DEF RequestFails, InOrder
  <2>7. CASE LateAnswer(n)
    <3>1. forms' = forms /\ open' = open /\ Loaded(forms) = {}
      BY <2>7 DEF LateAnswer
    <3> QED
      BY <1>0, <3>1, SoloOpen
  <2>8. CASE Md5Answer(n)
    <3>1. /\ open # 0 /\ forms[1] \in Form /\ forms[1].loaded /\ req' = RemoveAt(req, n)
          /\ One(forms', Hashed(forms[1], req[n].arg))
      BY <1>0, <2>8, SoloMd5
    <3>2. TablesOk(forms[1], req) /\ req[n].kind # "drives" /\ req[n].kind # "vifs"
      BY <1>n, <2>8, <3>1 DEF Md5Answer
    <3>3. SameSpec(forms[1], Hashed(forms[1], req[n].arg)) /\ forms'[1] = Hashed(forms[1], req[n].arg)
      BY <3>1, HashedParts DEF SameSpec, One
    <3> QED
      BY <2>0, <3>1, <3>2, <3>3, TablesLess
  <2> QED
    BY <1>8, <2>1, <2>2, <2>3, <2>4, <2>5, <2>6, <2>7, <2>8 DEF Answer
<1> QED
  BY <1>1, <1>2, <1>3, <1>4, <1>5, <1>6, <1>7, <1>8 DEF Next

(***************************************************************************)
(* The md5 is of the path                                                  *)
(***************************************************************************)
LEMMA Md5Cut ==
  ASSUME NEW f, NEW q, NEW m, Md5Ok(f, q, m), NEW n \in DOMAIN q, NEW t, Cut(q, t, n),
         NEW g, g.path = f.path, g.md5 \in {Nil, f.path},
         NEW w, (\E k \in DOMAIN t : t[k].kind = "md5") => w = m
  PROVE  Md5Ok(g, t, w)
<1>1. \A i \in DOMAIN t : Old(n, i) \in DOMAIN q /\ t[i] = q[Old(n, i)]
  BY DEF Cut
<1>2. ASSUME NEW i \in DOMAIN t, NEW k \in DOMAIN t, Old(n, i) = Old(n, k) PROVE i = k
  <2>1. i \in Nat /\ k \in Nat /\ (i < k <=> Old(n, i) < Old(n, k)) /\ (k < i <=> Old(n, k) < Old(n, i))
    BY DEF Cut
  <2>2. Old(n, i) \in Nat
    BY <1>1 DEF Cut
  <2> QED
    BY <1>2, <2>1, <2>2
<1>3. ASSUME NEW i \in DOMAIN t, t[i].kind = "md5"
      PROVE  w /\ t[i].arg = f.path /\ \A k \in DOMAIN t : t[k].kind = "md5" => k = i
  <2>1. m /\ w = m /\ q[Old(n, i)].arg = f.path
        /\ \A k \in DOMAIN q : q[k].kind = "md5" => k = Old(n, i)
    BY <1>1, <1>3 DEF Md5Ok
  <2>2. \A k \in DOMAIN t : t[k].kind = "md5" => Old(n, k) = Old(n, i)
    BY <1>1, <2>1
  <2> QED
    BY <1>1, <1>2, <1>3, <2>1, <2>2
<1> QED
  BY <1>3 DEF Md5Ok

\* The md5 that is cut is the last one.
LEMMA Md5Gone ==
  ASSUME NEW f, NEW q, NEW m, Md5Ok(f, q, m), NEW n \in DOMAIN q, q[n].kind = "md5", NEW t, Cut(q, t, n)
  PROVE  q[n].arg = f.path /\ ~ \E k \in DOMAIN t : t[k].kind = "md5"
BY CutKinds DEF Md5Ok

LEMMA Md5More ==
  ASSUME NEW f, NEW q, NEW m, Md5Ok(f, q, m), NEW t, NEW p, Longer(q, t, p),
         \A j \in DOMAIN p : p[j].kind # "md5"
  PROVE  Md5Ok(f, t, TRUE)
<1>1. /\ \A i \in DOMAIN t : t[i].kind = "md5" => i \in DOMAIN q /\ t[i] = q[i]
  BY LongerKinds
<1>2. \A n \in DOMAIN q : q[n].kind = "md5" =>
        m /\ q[n].arg = f.path /\ \A k \in DOMAIN q : q[k].kind = "md5" => k = n
  BY DEF Md5Ok
<1>3. ASSUME NEW i \in DOMAIN t, t[i].kind = "md5"
      PROVE  t[i].arg = f.path /\ \A k \in DOMAIN t : t[k].kind = "md5" => k = i
  BY <1>1, <1>2, <1>3
<1> QED
  BY <1>3 DEF Md5Ok

\* The md5 of the path is asked for, and no other was.
LEMMA Md5Asked ==
  ASSUME NEW f, NEW q, NEW m, Md5Ok(f, q, m), \A i \in DOMAIN q : q[i].kind # "md5",
         NEW b, NEW t, Longer(q, t, <<Request("md5", f.path, b)>>)
  PROVE  Md5Ok(f, t, TRUE)
<1> DEFINE p == <<Request("md5", f.path, b)>>
<1>1. DOMAIN p = {1} /\ p[1].kind = "md5" /\ p[1].arg = f.path
  BY OneKind
<1>2. \A i \in DOMAIN q : q[i].kind # "md5"
  OBVIOUS
<1>3. Longer(q, t, p)
  OBVIOUS
<1> HIDE DEF p
<1>4. \A i \in DOMAIN t : t[i].kind = "md5" => i = Len(q) + 1 /\ t[i] = p[1]
  <2> SUFFICES ASSUME NEW i \in DOMAIN t, t[i].kind = "md5" PROVE i = Len(q) + 1 /\ t[i] = p[1]
    OBVIOUS
  <2>1. \/ i \in DOMAIN q /\ t[i] = q[i]
        \/ \E j \in DOMAIN p : i = Len(q) + j /\ t[i] = p[j]
    BY <1>3, LongerKinds
  <2> QED
    BY <1>1, <1>2, <2>1
<1>5. f.md5 \in {Nil, f.path}
  BY DEF Md5Ok
<1> QED
  BY <1>1, <1>4, <1>5 DEF Md5Ok

LEMMA Md5None ==
  ASSUME NEW g, g.md5 \in {Nil, g.path}, NEW t, \A k \in DOMAIN t : t[k].kind # "md5", NEW w
  PROVE  Md5Ok(g, t, w)
BY DEF Md5Ok

LEMMA Md5Content ==
  ASSUME Solo, Tidy, DialogInv, kind \in CreateKinds, NEW n \in DOMAIN req, ContentAnswer(n)
  PROVE  Md5Ok(forms'[1], req', masked')
<1> DEFINE f == forms[1]
           g == Loading(f)
<1>1. open # 0 /\ RemoveAt(req, n) = <<>> /\ f.md5 = Nil
  BY WaitingNow DEF ContentAnswer
<1>2. f \in Form /\ open \in Nat
  BY <1>1, SoloOpen DEF Solo, Typed, TypeOK
<1>3. \/ forms' = forms /\ req' = <<>>
      \/ One(forms', g) /\ Send(<<>>, ContentSends(f))
  BY <1>1, SoloContent
<1>4. g.md5 = Nil
  BY <1>1, <1>2, LoadingParts
<1>5. CASE forms' = forms /\ req' = <<>>
  BY <1>1, <1>5, Md5None
<1>6. CASE One(forms', g) /\ Send(<<>>, ContentSends(f))
  <2>1. ContentSends(f) = <<>>
    BY DEF ContentSends
  <2>2. req' = <<>>
    BY <1>6, <2>1 DEF Send
  <2> HIDE DEF g
  <2>3. forms'[1] = g
    BY <1>6 DEF One
  <2> QED
    BY <1>4, <2>2, <2>3, Md5None
<1> QED
  BY <1>3, <1>5, <1>6

LEMMA Md5Create ==
  ASSUME Solo, kind = "create_wmi", Md5Ok(forms[1], req, masked), PressCreate
  PROVE  Md5Ok(forms'[1], req', masked')
<1> DEFINE r == Request("post", Nil, open)
<1>1. forms' = forms /\ Send(req, <<r>>) /\ req \in Seq(Req) /\ open \in Nat
  BY DEF PressCreate, Solo, Typed, TypeOK
<1>2. r \in Req
  BY <1>1, RequestTypes DEF RequestKind, Nil
<1>3. Longer(req, req', <<r>>)
  BY <1>1, <1>2, SendingOne
<1>4. \A j \in DOMAIN <<r>> : <<r>>[j].kind # "md5"
  BY OneKind
<1>5. masked' = TRUE
  BY DEF PressCreate, CreateButton, CreateImage
<1> HIDE DEF r
<1>6. Md5Ok(forms[1], req', TRUE)
  BY <1>3, <1>4, Md5More
<1> QED
  BY <1>1, <1>5, <1>6

LEMMA Md5Step == Typed /\ AloneInv /\ DialogInv /\ Md5Inv /\ [Next]_vars => Md5Inv'
<1> SUFFICES ASSUME Typed, AloneInv, DialogInv, Md5Inv, [Next]_vars, Masked', open' # 0, kind' = "create_wmi"
             PROVE  Md5Ok(forms'[1], req', masked')
  BY DEF Md5Inv
<1>0. Masked /\ Solo /\ Tidy
  BY NotesKept DEF Solo, Alone, Masked, Tidy
<1>k. kind' = kind
  BY KindKept
<1>c. kind = "create_wmi" /\ kind \in CreateKinds /\ kind \notin PickKinds /\ kind # "drives"
  BY <1>k DEF CreateKinds, PickKinds
<1>n. open # 0 => Md5Ok(forms[1], req, masked)
  BY <1>0, <1>c DEF Md5Inv
<1>1. CASE UNCHANGED vars
  BY <1>n, <1>1 DEF vars
<1>2. CASE OpenDialog
  <2>1. /\ One(forms', Blank(open')) /\ open' \in Nat /\ Send(req, <<Request("content", Nil, open')>>)
    BY <1>0, <1>2, SoloOpening
  <2>2. req = <<>>
    BY <1>0, <1>2, ClosedNow DEF OpenDialog
  <2>3. req' = <<Request("content", Nil, open')>>
    BY <2>1, <2>2 DEF Send
  <2>4. \A k \in DOMAIN req' : req'[k].kind # "md5"
    BY <2>3, OneKind
  <2>5. Blank(open').md5 = Nil /\ forms'[1] = Blank(open')
    BY <2>1 DEF Blank, One
  <2> QED
    BY <2>4, <2>5, Md5None
<1>3. CASE CloseButton
  BY <1>3 DEF CloseButton
<1>4. CASE Hide
  BY <1>4 DEF Hide
<1>5. CASE PressCreate
  BY <1>0, <1>c, <1>n, <1>5, SoloActs, Md5Create DEF PressCreate
<1>6. CASE PressButton \/ ChooseAccount \/ ChooseItem
  BY <1>c, <1>6 DEF PressButton, ChooseAccount, ChooseItem
<1>7. CASE ChangePath
  <2>1. PICK p \in {1, 2} : One(forms', NewPath(forms[1], p)) /\ forms[1] \in Form /\ open # 0 /\ ~masked
    BY <1>0, <1>7, SoloPath
  <2>2. NewPath(forms[1], p).md5 = Nil /\ forms'[1] = NewPath(forms[1], p)
    BY <2>1, PathParts DEF One
  <2>3. \A k \in DOMAIN req : req[k].kind # "md5"
    BY <1>n, <2>1 DEF Md5Ok
  <2>4. req' = req
    BY <1>7 DEF ChangePath
  <2> QED
    BY <2>2, <2>3, <2>4, Md5None
<1>8. CASE PressMd5
  <2>1. Longer(req, req', <<Request("md5", forms[1].path, open)>>) /\ open # 0
    BY <1>0, <1>8, Md5Sent
  <2>2. ~masked /\ masked' = TRUE /\ forms' = forms
    BY <1>0, <1>8, SoloPressMd5
  <2>3. \A i \in DOMAIN req : req[i].kind # "md5"
    BY <1>n, <2>1, <2>2 DEF Md5Ok
  <2>4. Md5Ok(forms[1], req', TRUE)
    BY <1>n, <2>1, <2>3, Md5Asked
  <2> QED
    BY <2>2, <2>4
<1>9. ASSUME NEW n \in DOMAIN req, Answer(n) PROVE Md5Ok(forms'[1], req', masked')
  <2>0. Cut(req, RemoveAt(req, n), n)
    BY <1>0, Answering DEF Solo, Typed
  <2>1. CASE ContentAnswer(n)
    BY <1>0, <1>c, <2>1, Md5Content
  <2>2. CASE ListAnswer(n)
    BY <1>c, <2>2 DEF ListAnswer
  <2>3. CASE TableAnswer(n)
    <3>1. /\ open # 0 /\ forms[1] \in Form /\ req' = RemoveAt(req, n) /\ One(forms', Tabled(forms[1], req[n]))
      BY <1>0, <2>3, SoloTable
    <3>2. Md5Ok(forms[1], req, masked) /\ masked' = masked
      BY <1>n, <2>3, <3>1 DEF TableAnswer
    <3>3. /\ forms'[1] = Tabled(forms[1], req[n])
          /\ Tabled(forms[1], req[n]).path = forms[1].path
          /\ Tabled(forms[1], req[n]).md5 = forms[1].md5
      BY <3>1, TabledParts DEF One
    <3>4. forms[1].md5 \in {Nil, forms[1].path}
      BY <3>2 DEF Md5Ok
    <3> QED
      BY <2>0, <3>1, <3>2, <3>3, <3>4, Md5Cut
  <2>4. CASE PostSucceeds(n)
    BY <2>4 DEF PostSucceeds
  <2>5. CASE PostFails(n)
    <3>1. req' = RemoveAt(req, n) /\ forms' = forms /\ open' = open /\ hist' = hist \cup Note("unmasked", InFlight("md5") # {})
      BY <2>5 DEF PostFails
    <3>2. InFlight("md5") = {}
      BY <3>1 DEF Masked, Note
    <3>3. \A k \in DOMAIN req' : req'[k].kind # "md5"
      BY <2>0, <3>1, <3>2, CutKinds DEF InFlight
    <3>4. forms'[1].md5 \in {Nil, forms'[1].path}
      BY <1>n, <3>1 DEF Md5Ok
    <3> QED
      BY <3>3, <3>4, Md5None
  <2>6. CASE RequestFails(n) \/ LateAnswer(n)
    <3>1. /\ req' = RemoveAt(req, n) /\ forms' = forms /\ open' = open
          /\ masked' = (masked /\ req[n].kind # "md5")
      BY <2>6 DEF RequestFails, LateAnswer
    <3>2. Md5Ok(forms[1], req, masked) /\ forms[1].md5 \in {Nil, forms[1].path}
      BY <1>n, <3>1 DEF Md5Ok
    <3>3. CASE req[n].kind = "md5"
      <4>1. \A k \in DOMAIN req' : req'[k].kind # "md5"
        BY <2>0, <3>1, <3>2, <3>3, Md5Gone
      <4> QED
        BY <3>1, <3>2, <4>1, Md5None
    <3>4. CASE req[n].kind # "md5"
      <4>1. (\E k \in DOMAIN req' : req'[k].kind = "md5") => masked' = masked
        <5> SUFFICES ASSUME NEW k \in DOMAIN req', req'[k].kind = "md5" PROVE masked' = masked
          OBVIOUS
        <5>1. \E j \in DOMAIN req : req[j].kind = "md5"
          BY <2>0, <3>1, CutKinds
        <5>2. masked
          BY <3>2, <5>1 DEF Md5Ok
        <5> QED
          BY <1>0, <3>1, <3>4, <5>2 DEF Solo, Typed, TypeOK
      <4> QED
        BY <2>0, <3>1, <3>2, <4>1, Md5Cut
    <3> QED
      BY <3>3, <3>4
  <2>8. CASE Md5Answer(n)
    <3>1. /\ open # 0 /\ forms[1] \in Form /\ req' = RemoveAt(req, n) /\ req[n].kind = "md5"
          /\ One(forms', Hashed(forms[1], req[n].arg))
      BY <1>0, <2>8, SoloMd5 DEF Md5Answer
    <3>2. req[n].arg = forms[1].path /\ \A k \in DOMAIN req' : req'[k].kind # "md5"
      BY <1>n, <2>0, <3>1, Md5Gone
    <3>3. /\ forms'[1] = Hashed(forms[1], req[n].arg)
          /\ Hashed(forms[1], req[n].arg).path = forms[1].path
          /\ Hashed(forms[1], req[n].arg).md5 = req[n].arg
      BY <3>1, HashedParts DEF One
    <3> QED
      BY <3>2, <3>3, Md5None
  <2> QED
    BY <1>9, <2>1, <2>2, <2>3, <2>4, <2>5, <2>6, <2>8 DEF Answer
<1> QED
  BY <1>1, <1>2, <1>3, <1>4, <1>5, <1>6, <1>7, <1>8, <1>9 DEF Next

(***************************************************************************)
(* What was fetched for a field is of that field                           *)
(***************************************************************************)
LEMMA FetchedSafe == Typed /\ AloneInv /\ TablesInv /\ Md5Inv => FetchedIsOfField
<1> SUFFICES ASSUME Typed, AloneInv, TablesInv, Md5Inv, open # 0, "hidden" \notin hist
             PROVE  /\ kind = "drives" /\ req = <<>> /\ hist \cap {"failed", "crossed"} = {} =>
                         /\ forms[Visible].vifs = forms[Visible].uuid
                         /\ forms[Visible].item # Nil => /\ forms[Visible].item = forms[Visible].uuid
                                                         /\ forms[Visible].drives = forms[Visible].uuid
                    /\ kind = "create_wmi" /\ hist \cap {"reopened", "unmasked"} = {} =>
                         forms[Visible].md5 \in {Nil, forms[Visible].path}
  BY DEF FetchedIsOfField
<1>1. Solo /\ Visible = 1 /\ Fresh(forms[1])
  <2>1. Solo
    BY DEF Solo, Alone
  <2> QED
    BY <2>1, SoloOpen
<1>2. ASSUME kind = "drives", req = <<>>, hist \cap {"failed", "crossed"} = {}
      PROVE  /\ forms[1].vifs = forms[1].uuid
             /\ forms[1].item # Nil => forms[1].item = forms[1].uuid /\ forms[1].drives = forms[1].uuid
  <2>1. InOrder
    BY <1>2 DEF InOrder
  <2>2. CASE forms[1].loaded
    <3>1. TablesOk(forms[1], req)
      BY <1>2, <2>1, <2>2 DEF TablesInv
    <3>2. Of(req, "vifs") = {} /\ Of(req, "drives") = {}
      BY <1>2 DEF Of
    <3> QED
      BY <3>1, <3>2 DEF TablesOk, KindOk
  <2>3. CASE ~forms[1].loaded
    BY <1>1, <2>3 DEF Fresh, Blank, Nil
  <2> QED
    BY <2>2, <2>3
<1>3. ASSUME kind = "create_wmi", hist \cap {"reopened", "unmasked"} = {}
      PROVE  forms[1].md5 \in {Nil, forms[1].path}
  <2>1. Masked
    BY <1>3 DEF Masked
  <2> QED
    BY <1>3, <2>1 DEF Md5Inv, Md5Ok
<1> QED
  BY <1>1, <1>2, <1>3

LEMMA FetchedStart == Init => TablesInv /\ Md5Inv
BY DEF Init, TablesInv, Md5Inv

\* Whatever specs and accounts were picked and in whatever order their lists
\* came, the two tables of the drives dialog are, once nothing is in flight,
\* those of the spec is_uuid, which is the selected spec, as long as no dialog
\* was hidden, no request failed and no table overtook another one of the same
\* kind; the tables' own first requests, for no spec, do not change that.  The
\* md5 of a new machine image is none or that of its path, as long as no dialog
\* was hidden or closed with a request in flight, and no create that was
\* answered lifted the mask of an md5 on its way.
THEOREM FetchedForField == Spec => []FetchedIsOfField
<1> DEFINE I == Typed /\ AloneInv /\ DialogInv /\ TablesInv /\ Md5Inv
<1>1. Init => I
  BY TypeStart, AloneStart, FetchedStart
<1>2. I /\ [Next]_vars => I'
  BY TypeStep, AloneStep, DialogStep, TablesStep, Md5Step
<1>3. I => FetchedIsOfField
  BY FetchedSafe
<1> QED
  BY <1>1, <1>2, <1>3, PTL DEF Spec

=============================================================================
