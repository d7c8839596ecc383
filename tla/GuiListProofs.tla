--------------------------- MODULE GuiListProofs ---------------------------
(***************************************************************************)
(* For any number of rows, pages, clicks, changes of rows and requests in  *)
(* flight: the details are those of the checked rows, the table is the     *)
(* page the pager shows, the ticked boxes are the checked list, and no     *)
(* button is enabled over an empty selection.                              *)
(***************************************************************************)
EXTENDS GuiList, FiniteSetTheorems, TLAPS

(***************************************************************************)
(* Types                                                                   *)
(***************************************************************************)
PanelNames == {"instance", "volume", "backup", "network", "host_node", "storage_node"}
Buttons(p) == CASE p = "instance" -> {"menu", "backup"}
                [] p = "volume"   -> {"delete", "backup", "menu"}
                [] p = "backup"   -> {"create", "delete"}
                [] OTHER          -> {}
Request == [kind : {"list", "detail", "post"}, arg : Nat, off : SUBSET {"delete"}]

TypeOK ==
    /\ panel \in PanelNames
    /\ DOMAIN srv \subseteq Id
    /\ changes \in Nat
    /\ cur \in Nat /\ total \in Nat
    /\ DOMAIN rows \subseteq Id /\ dom \subseteq DOMAIN rows
    /\ chk \in Seq(Id)
    /\ det \in [Id -> Nat]
    /\ req \in Seq(Request)
    /\ btn \subseteq Buttons(panel)

(***************************************************************************)
(* What the actions do to the requests in flight                           *)
(***************************************************************************)
Old(n, k) == IF k < n THEN k ELSE k + 1
Cut(s, t, n) ==
    /\ \A k \in DOMAIN t : Old(n, k) \in DOMAIN s /\ Old(n, k) # n /\ t[k] = s[Old(n, k)]
    /\ \A k, m \in DOMAIN t : k < m <=> Old(n, k) < Old(n, m)
    /\ \A j \in DOMAIN s : j # n => \E k \in DOMAIN t : Old(n, k) = j
    /\ DOMAIN s \subseteq Nat /\ DOMAIN t \subseteq Nat

LEMMA Joined ==
  ASSUME NEW T, NEW u \in Seq(T), NEW v \in Seq(T)
  PROVE  u \o v \in Seq(T) /\ Len(u \o v) = Len(u) + Len(v)
OBVIOUS

LEMMA Part ==
  ASSUME NEW T, NEW s \in Seq(T), NEW a \in Nat \ {0}, NEW b \in Nat, a <= b + 1, b <= Len(s)
  PROVE  /\ SubSeq(s, a, b) \in Seq(T)
         /\ Len(SubSeq(s, a, b)) = b - a + 1
         /\ \A k \in 1 .. b - a + 1 : SubSeq(s, a, b)[k] = s[a + k - 1]
<1>1. \A k \in a .. b : s[k] \in T
  OBVIOUS
<1> QED
  BY <1>1

LEMMA Cutting ==
  ASSUME NEW T, NEW s \in Seq(T), NEW n \in DOMAIN s
  PROVE  RemoveAt(s, n) \in Seq(T) /\ Cut(s, RemoveAt(s, n), n)
<1> DEFINE u == SubSeq(s, 1, n - 1)
           v == SubSeq(s, n + 1, Len(s))
           t == u \o v
<1>0. n \in 1 .. Len(s) /\ Len(s) \in Nat /\ DOMAIN s = 1 .. Len(s)
  OBVIOUS
<1>1. /\ u \in Seq(T) /\ Len(u) = n - 1 /\ \A k \in 1 .. n - 1 : u[k] = s[k]
      /\ v \in Seq(T) /\ Len(v) = Len(s) - n /\ \A k \in 1 .. Len(s) - n : v[k] = s[k + n]
  <2>1. /\ u \in Seq(T) /\ Len(u) = (n - 1) - 1 + 1
        /\ \A k \in 1 .. (n - 1) - 1 + 1 : u[k] = s[1 + k - 1]
    BY <1>0, Part
  <2>2. /\ v \in Seq(T) /\ Len(v) = Len(s) - (n + 1) + 1
        /\ \A k \in 1 .. Len(s) - (n + 1) + 1 : v[k] = s[(n + 1) + k - 1]
    BY <1>0, Part
  <2> HIDE DEF u, v
  <2>3. /\ (n - 1) - 1 + 1 = n - 1 /\ Len(s) - (n + 1) + 1 = Len(s) - n
        /\ \A k \in 1 .. n - 1 : 1 + k - 1 = k
        /\ \A k \in 1 .. Len(s) - n : (n + 1) + k - 1 = k + n
    BY <1>0
  <2> QED
    BY <2>1, <2>2, <2>3
<1>2. RemoveAt(s, n) = t
  BY DEF RemoveAt
<1> HIDE DEF u, v
<1>3. t \in Seq(T) /\ Len(t) = Len(s) - 1
  <2>1. u \o v \in Seq(T) /\ Len(u \o v) = Len(u) + Len(v)
    BY <1>1, Joined
  <2>2. Len(u) + Len(v) = Len(s) - 1
    BY <1>0, <1>1
  <2> QED
    BY <2>1, <2>2
<1>4. DOMAIN t = 1 .. Len(s) - 1
  BY <1>3
<1>5. ASSUME NEW k \in 1 .. Len(s) - 1 PROVE t[k] = s[Old(n, k)]
  <2>1. CASE k < n
    BY <1>0, <1>1, <2>1 DEF Old
  <2>2. CASE ~(k < n)
    <3>1. (k - (n - 1)) \in 1 .. Len(s) - n /\ (k - (n - 1)) + n = k + 1 /\ k > Len(u) /\ k <= Len(u) + Len(v)
      BY <1>0, <1>1, <2>2
    <3>2. t[k] = v[k - Len(u)]
      BY <1>1, <3>1
    <3> QED
      BY <1>1, <2>2, <3>1, <3>2 DEF Old
  <2> QED
    BY <2>1, <2>2
<1> HIDE DEF t
<1>6. \A k \in DOMAIN t : Old(n, k) \in DOMAIN s /\ Old(n, k) # n
  BY <1>0, <1>4 DEF Old
<1>7. \A k, m \in DOMAIN t : k < m <=> Old(n, k) < Old(n, m)
  BY <1>0, <1>4 DEF Old
<1>8. ASSUME NEW j \in DOMAIN s, j # n PROVE \E k \in DOMAIN t : Old(n, k) = j
  <2>1. CASE j < n
    BY <1>0, <1>4, <2>1 DEF Old
  <2>2. CASE ~(j < n)
    <3>1. j - 1 \in 1 .. Len(s) - 1 /\ ~(j - 1 < n) /\ (j - 1) + 1 = j
      BY <1>0, <1>8, <2>2
    <3> QED
      BY <1>4, <3>1 DEF Old
  <2> QED
    BY <2>1, <2>2
<1> QED
  BY <1>0, <1>2, <1>3, <1>4, <1>5, <1>6, <1>7, <1>8 DEF Cut

Longer(s, t, q) ==
    /\ t \in Seq(Request) /\ Len(s) \in Nat /\ Len(q) \in Nat
    /\ DOMAIN s = 1 .. Len(s) /\ DOMAIN q = 1 .. Len(q) /\ DOMAIN t = 1 .. Len(s) + Len(q)
    /\ \A k \in 1 .. Len(s) : t[k] = s[k]
    /\ \A k \in 1 .. Len(q) : t[Len(s) + k] = q[k]

LEMMA Lengthening ==
  ASSUME NEW s \in Seq(Request), NEW q \in Seq(Request)
  PROVE  Longer(s, s \o q, q)
<1> DEFINE t == s \o q
<1>1. /\ t \in Seq(Request) /\ Len(t) = Len(s) + Len(q)
      /\ Len(s) \in Nat /\ Len(q) \in Nat
  BY Joined
<1>2. \A k \in 1 .. Len(s) : t[k] = s[k]
  OBVIOUS
<1>3. \A k \in 1 .. Len(q) : t[Len(s) + k] = q[k]
  <2> TAKE k \in 1 .. Len(q)
  <2>1. Len(s) + k > Len(s) /\ Len(s) + k <= Len(s) + Len(q) /\ (Len(s) + k) - Len(s) = k
    BY <1>1
  <2>2. t[Len(s) + k] = q[(Len(s) + k) - Len(s)]
    BY <1>1, <2>1
  <2> QED
    BY <2>1, <2>2
<1>4. DOMAIN s = 1 .. Len(s) /\ DOMAIN q = 1 .. Len(q) /\ DOMAIN t = 1 .. Len(s) + Len(q)
  BY <1>1
<1> QED
  BY <1>1, <1>2, <1>3, <1>4 DEF Longer

LEMMA Constants ==
  /\ Id \subseteq Nat /\ Row \in Nat \ {0} /\ MaxPage \in Nat
  /\ \A p \in Panels : p \in PanelNames
  /\ \A X \in InitRows : X \subseteq Id
BY ListAssumption DEF PanelNames

LEMMA RequestTypes ==
  /\ \A p \in Nat : ListRequest(p) \in Request /\ DetailRequest(p) \in Request
  /\ \A d : PostRequest(d) \in Request
BY DEF ListRequest, DetailRequest, PostRequest, SubmitDisables, Request

LEMMA RequestKinds ==
  /\ \A p : ListRequest(p).kind = "list" /\ ListRequest(p).arg = p
  /\ \A i : DetailRequest(i).kind = "detail" /\ DetailRequest(i).arg = i
  /\ \A d : PostRequest(d).kind = "post"
BY DEF ListRequest, DetailRequest, PostRequest

\* One request is appended.
LEMMA Appending ==
  ASSUME NEW s \in Seq(Request), NEW a \in Request, Send(s, <<a>>)
  PROVE  /\ req' \in Seq(Request) /\ Len(s) + 1 \in DOMAIN req' /\ req'[Len(s) + 1] = a
         /\ \A k \in DOMAIN s : k \in DOMAIN req' /\ req'[k] = s[k] /\ k # Len(s) + 1
         /\ \A k \in DOMAIN req' : k = Len(s) + 1 \/ k \in DOMAIN s
<1>1. <<a>> \in Seq(Request) /\ Len(<<a>>) = 1 /\ <<a>>[1] = a
  OBVIOUS
<1>2. Longer(s, req', <<a>>)
  BY <1>1, Lengthening DEF Send
<1> QED
  BY <1>1, <1>2 DEF Longer

\* A list and the details of c are appended.
LEMMA AppendingDetails ==
  ASSUME NEW s \in Seq(Request), NEW c \in Seq(Id), NEW p \in Nat,
         Send(s, <<ListRequest(p)>> \o [n \in DOMAIN c |-> DetailRequest(c[n])])
  PROVE  \E l \in Nat :
           /\ req' \in Seq(Request) /\ l \in DOMAIN req' /\ req'[l] = ListRequest(p)
           /\ \A k \in DOMAIN s : k \in DOMAIN req' /\ req'[k] = s[k] /\ k < l /\ k \in Nat
           /\ \A m \in DOMAIN c : l + m \in DOMAIN req' /\ req'[l + m] = DetailRequest(c[m]) /\ l < l + m /\ m \in Nat
           /\ \A k \in DOMAIN req' : k = l \/ k \in DOMAIN s \/ \E m \in DOMAIN c : k = l + m
<1> DEFINE a == <<ListRequest(p)>>
           b == [n \in DOMAIN c |-> DetailRequest(c[n])]
           q == a \o b
           l == Len(s) + 1
<1>1. a \in Seq(Request) /\ Len(a) = 1 /\ a[1] = ListRequest(p)
  BY RequestTypes
<1>2. Len(c) \in Nat /\ DOMAIN c = 1 .. Len(c) /\ \A n \in DOMAIN c : c[n] \in Nat
  <2>1. Len(c) \in Nat /\ DOMAIN c = 1 .. Len(c) /\ \A n \in DOMAIN c : c[n] \in Id
    OBVIOUS
  <2> QED
    BY <2>1, Constants
<1>3. b \in [1 .. Len(c) -> Request]
  BY <1>2, RequestTypes
<1>4. b \in Seq(Request) /\ Len(b) = Len(c) /\ \A n \in 1 .. Len(c) : b[n] = DetailRequest(c[n])
  <2>1. b \in Seq(Request)
    BY <1>2, <1>3
  <2> QED
    BY <1>2, <1>3, <2>1
<1>5. Send(s, q)
  OBVIOUS
<1> HIDE DEF a, b
<1>6. Longer(a, q, b)
  BY <1>1, <1>4, Lengthening
<1>7. q \in Seq(Request) /\ Len(q) = 1 + Len(c)
  <2>1. a \in Seq(Request) /\ b \in Seq(Request) /\ Len(a) + Len(b) = 1 + Len(c)
    BY <1>1, <1>4
  <2>2. a \o b \in Seq(Request) /\ Len(a \o b) = Len(a) + Len(b)
    BY <2>1, Joined
  <2> QED
    BY <2>1, <2>2
<1> HIDE DEF q
<1>8. Longer(s, req', q)
  BY <1>5, <1>7, Lengthening DEF Send
<1>9. q[1] = ListRequest(p) /\ \A m \in 1 .. Len(c) : q[1 + m] = DetailRequest(c[m])
  BY <1>1, <1>4, <1>6 DEF Longer
<1>10. /\ Len(s) \in Nat /\ DOMAIN s = 1 .. Len(s) /\ DOMAIN req' = 1 .. Len(s) + (1 + Len(c))
       /\ req' \in Seq(Request) /\ \A k \in 1 .. Len(s) : req'[k] = s[k]
       /\ \A k \in 1 .. 1 + Len(c) : req'[Len(s) + k] = q[k]
  BY <1>7, <1>8 DEF Longer
<1>11. l \in Nat /\ l \in DOMAIN req' /\ req'[l] = ListRequest(p)
  BY <1>2, <1>9, <1>10
<1>12. \A k \in DOMAIN s : k \in DOMAIN req' /\ req'[k] = s[k] /\ k < l /\ k \in Nat
  BY <1>2, <1>10
<1>13. \A m \in DOMAIN c : l + m \in DOMAIN req' /\ req'[l + m] = DetailRequest(c[m]) /\ l < l + m /\ m \in Nat
  <2> TAKE m \in DOMAIN c
  <2>1. m \in 1 .. Len(c) /\ 1 + m \in 1 .. 1 + Len(c) /\ l + m = Len(s) + (1 + m)
    BY <1>2, <1>10
  <2>2. req'[Len(s) + (1 + m)] = q[1 + m]
    BY <1>10, <2>1
  <2> QED
    BY <1>2, <1>9, <1>10, <2>1, <2>2
<1>14. ASSUME NEW k \in DOMAIN req', k # l, k \notin DOMAIN s PROVE \E m \in DOMAIN c : k = l + m
  <2>1. k - l \in DOMAIN c /\ k = l + (k - l)
    BY <1>2, <1>10, <1>14
  <2> QED
    BY <2>1
<1> QED
  BY <1>10, <1>11, <1>12, <1>13, <1>14

(***************************************************************************)
(* The invariants, stated for a queue q of requests so that an action that *)
(* removes one request and appends others is done in two steps             *)
(***************************************************************************)
Lists(q) == {n \in DOMAIN q : q[n].kind = "list"}
Asks(q, n, i) == n \in DOMAIN q /\ q[n].kind = "detail" /\ q[n].arg = i

\* The checked list is a set of keys, its rows are ticked, and the rows without
\* a detail are those that are not in it.
CheckedInv ==
    /\ \A m, n \in DOMAIN chk : chk[m] = chk[n] => m = n
    /\ ToSet(chk) \cap DOMAIN rows \subseteq dom
    /\ \A i \in Id : det[i] > 0 => i \in ToSet(chk)

\* A checked row has one detail, or one is on its way.
OneDetail(q, i, k) ==
    \/ k = 1 /\ \A n : ~Asks(q, n, i)
    \/ k = 0 /\ \E n : Asks(q, n, i) /\ \A m : Asks(q, m, i) => m = n
DetailsOf(q, c, d) == \A i \in ToSet(c) : OneDetail(q, i, d[i])
DetailsInv == hist \cap {"failed", "again"} = {} => DetailsOf(req, chk, det)

\* The list sent last asks for page p.
Newest(q, n) == \A m \in Lists(q) : m <= n
AsksFor(q, p) == \A n \in Lists(q) : Newest(q, n) => q[n].arg = p
PageInv ==
    hist \cap {"failed", "overtaken"} = {} =>
      /\ AsksFor(req, cur)
      /\ Lists(req) = {} => shown = cur /\ ("next" \in arrows <=> total > cur * Row)

\* Only a list on its way lets a box be ticked that is not in the checked list;
\* as long as the server's rows stand still the checked rows are on the page.
BoxesInv ==
    /\ "failed" \notin hist /\ Lists(req) = {} => dom \subseteq ToSet(chk)
    /\ changes = 0 /\ hist \cap {"failed", "overtaken", "late_click"} = {} =>
         /\ ToSet(chk) \subseteq PageIds(cur)
         /\ Lists(req) = {} => DOMAIN rows = PageIds(cur)

ListInv == TypeOK /\ CheckedInv /\ DetailsInv /\ PageInv /\ BoxesInv /\ NoEmptyAction

(***************************************************************************)
(* The refresh handlers                                                    *)
(***************************************************************************)
Distinct(c) == \A m, n \in DOMAIN c : c[m] = c[n] => m = n
NoDetail == [i \in Id |-> 0]

\* Whatever the panel, a refresh asks for the list of page p last and shows no
\* detail; the rows that stay checked have their details asked for.
LEMMA Refreshing ==
  ASSUME TypeOK, NEW r \in Seq(Request), NEW p \in Nat, NEW c \in Seq(Id), Distinct(c),
         NEW d \in [Id -> Nat], \A i \in Id : d[i] > 0 => i \in ToSet(c),
         Refresh(r, p, c, d)
  PROVE  /\ req' \in Seq(Request) /\ Lists(req') # {} /\ AsksFor(req', p)
         /\ chk' = IF panel = "instance" THEN <<>> ELSE c
         /\ chk' \in Seq(Id) /\ Distinct(chk') /\ ToSet(chk') \subseteq ToSet(c)
         /\ det' = NoDetail
         /\ (\A i \in ToSet(chk') : \A n : ~Asks(r, n, i)) => DetailsOf(req', chk', det')
<1> DEFINE e == IF panel = "instance" THEN <<>> ELSE c
<1>1. /\ Send(r, <<ListRequest(p)>> \o [n \in DOMAIN e |-> DetailRequest(e[n])])
      /\ chk' = e /\ det' = NoDetail
  <2>1. CASE panel = "instance"
    <3>1. ClearingRefresh(r, p)
      BY <2>1 DEF Refresh, InstanceRefresh
    <3>2. [n \in DOMAIN e |-> DetailRequest(e[n])] = <<>>
      BY <2>1
    <3>3. <<ListRequest(p)>> \o <<>> = <<ListRequest(p)>>
      <4>1. <<ListRequest(p)>> \in Seq(Request)
        BY RequestTypes
      <4> QED
        BY <4>1
    <3> QED
      BY <2>1, <3>1, <3>2, <3>3 DEF ClearingRefresh, NoDetail
  <2>2. CASE panel # "instance"
    <3>1. KeepingRefresh(r, p, c, d)
      BY <2>2 DEF Refresh, VolumeRefresh, BackupRefresh, NetworkRefresh, HostNodeRefresh, StorageNodeRefresh,
                  TypeOK, PanelNames
    <3>2. det' = NoDetail
      BY <3>1 DEF KeepingRefresh, NoDetail
    <3> QED
      BY <2>2, <3>1, <3>2 DEF KeepingRefresh
  <2> QED
    BY <2>1, <2>2
<1>2. e \in Seq(Id) /\ Distinct(e) /\ ToSet(e) \subseteq ToSet(c)
  BY DEF Distinct, ToSet
<1>a. chk' = IF panel = "instance" THEN <<>> ELSE c
  BY <1>1
<1> HIDE DEF e
<1>3. PICK l \in Nat :
           /\ req' \in Seq(Request) /\ l \in DOMAIN req' /\ req'[l] = ListRequest(p)
           /\ \A k \in DOMAIN r : k \in DOMAIN req' /\ req'[k] = r[k] /\ k < l /\ k \in Nat
           /\ \A m \in DOMAIN e : l + m \in DOMAIN req' /\ req'[l + m] = DetailRequest(e[m]) /\ l < l + m /\ m \in Nat
           /\ \A k \in DOMAIN req' : k = l \/ k \in DOMAIN r \/ \E m \in DOMAIN e : k = l + m
  BY <1>1, <1>2, AppendingDetails
<1>4. l \in Lists(req') /\ Newest(req', l) /\ \A n \in Lists(req') : n \in Nat /\ n <= l
  <2>1. req'[l].kind = "list" /\ \A m \in DOMAIN e : req'[l + m].kind # "list"
    BY <1>3, RequestKinds
  <2>2. \A n \in Lists(req') : n = l \/ n \in DOMAIN r
    BY <1>3, <2>1 DEF Lists
  <2>3. \A n \in Lists(req') : n \in Nat /\ n <= l
    BY <1>3, <2>2
  <2> QED
    BY <1>3, <2>1, <2>3 DEF Lists, Newest
<1>5. AsksFor(req', p)
  <2>1. \A n \in Lists(req') : Newest(req', n) => n = l
    BY <1>4 DEF Newest
  <2> QED
    BY <1>3, <2>1, RequestKinds DEF AsksFor
<1>6. ASSUME \A i \in ToSet(e) : \A n : ~Asks(r, n, i)
      PROVE  \A i \in ToSet(e) : OneDetail(req', i, 0)
  <2> TAKE i \in ToSet(e)
  <2>1. PICK m \in DOMAIN e : e[m] = i
    BY DEF ToSet
  <2>2. Asks(req', l + m, i)
    BY <1>3, <2>1, RequestKinds DEF Asks
  <2>3. ASSUME NEW k, Asks(req', k, i) PROVE k = l + m
    <3>1. k \in DOMAIN req' /\ req'[k].kind = "detail" /\ req'[k].arg = i
      BY <2>3 DEF Asks
    <3>2. k # l
      BY <1>3, <3>1, RequestKinds
    <3>3. k \notin DOMAIN r
      BY <1>3, <1>6, <3>1 DEF Asks
    <3>4. PICK j \in DOMAIN e : k = l + j
      BY <1>3, <3>1, <3>2, <3>3
    <3>5. e[j] = i
      BY <1>3, <3>1, <3>4, RequestKinds
    <3> QED
      BY <1>2, <2>1, <3>4, <3>5 DEF Distinct
  <2> QED
    BY <2>2, <2>3 DEF OneDetail
<1>7. (\A i \in ToSet(chk') : \A n : ~Asks(r, n, i)) => DetailsOf(req', chk', det')
  <2>1. \A i \in ToSet(e) : i \in Id
    BY <1>2 DEF ToSet
  <2> QED
    BY <1>1, <1>6, <2>1 DEF DetailsOf, NoDetail
<1> QED
  BY <1>1, <1>2, <1>3, <1>4, <1>5, <1>7, <1>a

\* The checked list without a key.
LEMMA Unchecking ==
  ASSUME NEW c \in Seq(Id), Distinct(c), NEW i
  PROVE  /\ RemoveFirst(c, i) \in Seq(Id) /\ Distinct(RemoveFirst(c, i))
         /\ ToSet(RemoveFirst(c, i)) = ToSet(c) \ {i}
<1>0. Len(c) \in Nat /\ DOMAIN c = 1 .. Len(c)
  OBVIOUS
<1>1. CASE i \notin ToSet(c)
  <2>1. RemoveFirst(c, i) = c
    BY <1>0, <1>1 DEF RemoveFirst, ToSet
  <2> QED
    BY <1>1, <2>1
<1>2. CASE i \in ToSet(c)
  <2>1. PICK n \in DOMAIN c : c[n] = i
    BY <1>2 DEF ToSet
  <2> DEFINE I == {k \in 1 .. Len(c) : c[k] = i}
  <2>2. I = {n}
    BY <1>0, <2>1 DEF Distinct
  <2>3. Min(I) = n
    <3>1. n \in Nat /\ n <= n
      BY <1>0, <2>1
    <3> QED
      BY <2>2, <3>1 DEF Min
  <2>4. RemoveFirst(c, i) = RemoveAt(c, n)
    <3>1. SelectInSeq(c, LAMBDA v : v = i) = n
      BY <2>2, <2>3 DEF SelectInSeq
    <3> QED
      BY <1>0, <2>1, <3>1 DEF RemoveFirst
  <2> DEFINE t == RemoveAt(c, n)
  <2>5. t \in Seq(Id) /\ Cut(c, t, n)
    BY <2>1, Cutting
  <2> HIDE DEF t, I
  <2>6. \A k \in DOMAIN t : Old(n, k) \in DOMAIN c /\ Old(n, k) # n /\ t[k] = c[Old(n, k)] /\ k \in Nat
    BY <2>5 DEF Cut
  <2>7. \A j \in DOMAIN c : j # n => \E k \in DOMAIN t : t[k] = c[j]
    BY <2>5 DEF Cut
  <2>8. ToSet(t) = ToSet(c) \ {i}
    <3>1. ASSUME NEW x \in ToSet(t) PROVE x \in ToSet(c) \ {i}
      <4>1. PICK k \in DOMAIN t : t[k] = x
        BY <3>1 DEF ToSet
      <4> QED
        BY <2>1, <2>6, <4>1 DEF ToSet, Distinct
    <3>2. ASSUME NEW x \in ToSet(c) \ {i} PROVE x \in ToSet(t)
      <4>1. PICK j \in DOMAIN c : c[j] = x /\ j # n
        BY <2>1, <3>2 DEF ToSet
      <4> QED
        BY <2>7, <4>1 DEF ToSet
    <3> QED
      BY <3>1, <3>2
  <2>9. Distinct(t)
    <3> SUFFICES ASSUME NEW k \in DOMAIN t, NEW m \in DOMAIN t, t[k] = t[m] PROVE k = m
      BY DEF Distinct
    <3>1. Old(n, k) = Old(n, m)
      BY <2>6 DEF Distinct
    <3>2. k \in Nat /\ m \in Nat /\ Old(n, k) \in Nat /\ (k < m <=> Old(n, k) < Old(n, m)) /\ (m < k <=> Old(n, m) < Old(n, k))
      BY <2>5 DEF Cut
    <3> QED
      BY <3>1, <3>2
  <2> QED
    BY <2>4, <2>5, <2>8, <2>9 DEF t
<1> QED
  BY <1>1, <1>2

(***************************************************************************)
(* What appending and removing a request does to lists and details         *)
(***************************************************************************)
LEMMA AppendOther ==
  ASSUME NEW s \in Seq(Request), NEW a \in Request, Send(s, <<a>>), a.kind # "list"
  PROVE  /\ req' \in Seq(Request) /\ Lists(req') = Lists(s)
         /\ \A p : AsksFor(s, p) => AsksFor(req', p)
         /\ \A n, i : Asks(s, n, i) => Asks(req', n, i)
         /\ \A n, i : Asks(req', n, i) => Asks(s, n, i) \/ (n = Len(s) + 1 /\ a.kind = "detail" /\ a.arg = i)
         /\ \A i : a.kind = "detail" /\ a.arg = i => Asks(req', Len(s) + 1, i)
<1>1. /\ req' \in Seq(Request) /\ Len(s) + 1 \in DOMAIN req' /\ req'[Len(s) + 1] = a
      /\ \A k \in DOMAIN s : k \in DOMAIN req' /\ req'[k] = s[k] /\ k # Len(s) + 1
      /\ \A k \in DOMAIN req' : k = Len(s) + 1 \/ k \in DOMAIN s
  BY Appending
<1>2. Lists(req') = Lists(s)
  BY <1>1 DEF Lists
<1>3. \A n \in Lists(s) : req'[n] = s[n] /\ (Newest(req', n) <=> Newest(s, n))
  BY <1>1, <1>2 DEF Newest, Lists
<1>4. \A p : AsksFor(s, p) => AsksFor(req', p)
  BY <1>2, <1>3 DEF AsksFor
<1>5. /\ \A n, i : Asks(s, n, i) => Asks(req', n, i)
      /\ \A n, i : Asks(req', n, i) => Asks(s, n, i) \/ (n = Len(s) + 1 /\ a.kind = "detail" /\ a.arg = i)
      /\ \A i : a.kind = "detail" /\ a.arg = i => Asks(req', Len(s) + 1, i)
  BY <1>1 DEF Asks
<1> QED
  BY <1>1, <1>2, <1>4, <1>5

LEMMA RemoveAny ==
  ASSUME NEW s, NEW t, NEW n \in DOMAIN s, Cut(s, t, n)
  PROVE  /\ \A k \in DOMAIN t : k \in Lists(t) <=> Old(n, k) \in Lists(s)
         /\ \A j \in DOMAIN s : j # n => \E k \in DOMAIN t : Old(n, k) = j /\ t[k] = s[j]
         /\ \A k, m \in DOMAIN t : k = m <=> Old(n, k) = Old(n, m)
         /\ s[n].kind # "list" => (Lists(s) = {} <=> Lists(t) = {})
         /\ Lists(t) = {} => Lists(s) \subseteq {n}
<1>1. \A k \in DOMAIN t : Old(n, k) \in DOMAIN s /\ Old(n, k) # n /\ t[k] = s[Old(n, k)]
  BY DEF Cut
<1>2. \A j \in DOMAIN s : j # n => \E k \in DOMAIN t : Old(n, k) = j /\ t[k] = s[j]
  BY DEF Cut
<1>3. \A k, m \in DOMAIN t : k = m <=> Old(n, k) = Old(n, m)
  <2>1. \A k, m \in DOMAIN t : k \in Nat /\ m \in Nat /\ Old(n, k) \in Nat /\ Old(n, m) \in Nat
                               /\ (k < m <=> Old(n, k) < Old(n, m)) /\ (m < k <=> Old(n, m) < Old(n, k))
    BY DEF Cut
  <2> QED
    BY <2>1
<1>4. \A k \in DOMAIN t : k \in Lists(t) <=> Old(n, k) \in Lists(s)
  BY <1>1 DEF Lists
<1>5. \A j \in Lists(s) : j \in DOMAIN s /\ s[j].kind = "list"
  BY DEF Lists
<1>6. \A k \in Lists(t) : k \in DOMAIN t
  BY DEF Lists
<1>7. Lists(t) = {} => Lists(s) \subseteq {n}
  BY <1>2, <1>4, <1>5
<1>8. s[n].kind # "list" => (Lists(s) = {} <=> Lists(t) = {})
  BY <1>4, <1>5, <1>6, <1>7
<1> QED
  BY <1>2, <1>3, <1>4, <1>7, <1>8

LEMMA OrderKept ==
  ASSUME NEW s, NEW t, NEW n \in DOMAIN s, Cut(s, t, n), NEW k \in Lists(t), Newest(t, k),
         s[n].kind # "list" \/ \A m \in Lists(s) : ~(m < n)
  PROVE  Old(n, k) \in Lists(s) /\ Newest(s, Old(n, k)) /\ t[k] = s[Old(n, k)]
<1>1. k \in DOMAIN t /\ Old(n, k) \in Lists(s) /\ t[k] = s[Old(n, k)] /\ Old(n, k) # n /\ Old(n, k) \in DOMAIN s
  BY RemoveAny DEF Lists, Cut
<1>2. DOMAIN s \subseteq Nat /\ DOMAIN t \subseteq Nat
  BY DEF Cut
<1>3. ASSUME NEW j \in Lists(s) PROVE j <= Old(n, k)
  <2>1. j \in DOMAIN s /\ j \in Nat /\ Old(n, k) \in Nat /\ n \in Nat
    BY <1>1, <1>2 DEF Lists
  <2>2. CASE j = n
    <3>1. ~(Old(n, k) < n)
      BY <1>1, <1>3, <2>2 DEF Lists
    <3> QED
      BY <2>1, <2>2, <3>1
  <2>3. CASE j # n
    <3>1. PICK i \in DOMAIN t : Old(n, i) = j
      BY <2>1, <2>3 DEF Cut
    <3>2. i \in Lists(t)
      BY <3>1, RemoveAny
    <3>3. i <= k /\ i \in Nat /\ k \in Nat
      BY <1>1, <1>2, <3>2 DEF Newest
    <3>4. ~(k < i)
      BY <3>3
    <3>5. ~(Old(n, k) < Old(n, i))
      BY <1>1, <3>1, <3>4 DEF Cut
    <3> QED
      BY <2>1, <3>1, <3>5
  <2> QED
    BY <2>2, <2>3
<1> QED
  BY <1>1, <1>3 DEF Newest

LEMMA RemoveList ==
  ASSUME NEW s, NEW t, NEW n \in DOMAIN s, Cut(s, t, n),
         s[n].kind # "list" \/ \A m \in Lists(s) : ~(m < n)
  PROVE  \A p : AsksFor(s, p) => AsksFor(t, p)
BY OrderKept DEF AsksFor

LEMMA RemoveDetail ==
  ASSUME NEW s, NEW t, NEW n \in DOMAIN s, Cut(s, t, n)
  PROVE  /\ \A i, k : OneDetail(s, i, k) /\ ~Asks(s, n, i) => OneDetail(t, i, k)
         /\ \A i, k : OneDetail(s, i, k) /\ Asks(s, n, i) => k = 0 /\ OneDetail(t, i, 1)
         /\ \A i, k : Asks(t, k, i) => \E m : Asks(s, m, i)
<1>1. \A k \in DOMAIN t : Old(n, k) \in DOMAIN s /\ Old(n, k) # n /\ t[k] = s[Old(n, k)]
  BY DEF Cut
<1>2. \A k, i : Asks(t, k, i) => k \in DOMAIN t /\ Asks(s, Old(n, k), i) /\ Old(n, k) # n
  BY <1>1 DEF Asks
<1>3. ASSUME NEW j, NEW i, Asks(s, j, i), j # n PROVE \E k \in DOMAIN t : Old(n, k) = j /\ Asks(t, k, i)
  <2>1. j \in DOMAIN s
    BY <1>3 DEF Asks
  <2>2. PICK k \in DOMAIN t : Old(n, k) = j /\ t[k] = s[j]
    BY <1>3, <2>1, RemoveAny
  <2> QED
    BY <1>3, <2>2 DEF Asks
<1>4. ASSUME NEW i, NEW k, OneDetail(s, i, k), ~Asks(s, n, i) PROVE OneDetail(t, i, k)
  <2>1. CASE k = 1 /\ \A m : ~Asks(s, m, i)
    BY <1>2, <2>1 DEF OneDetail
  <2>2. CASE k = 0 /\ \E j : Asks(s, j, i) /\ \A m : Asks(s, m, i) => m = j
    <3>1. PICK j : Asks(s, j, i) /\ \A m : Asks(s, m, i) => m = j
      BY <2>2
    <3>2. PICK l \in DOMAIN t : Old(n, l) = j /\ Asks(t, l, i)
      BY <1>3, <1>4, <3>1
    <3>3. \A m : Asks(t, m, i) => m = l
      BY <1>2, <3>1, <3>2, RemoveAny
    <3> QED
      BY <2>2, <3>2, <3>3 DEF OneDetail
  <2> QED
    BY <1>4, <2>1, <2>2 DEF OneDetail
<1>5. ASSUME NEW i, NEW k, OneDetail(s, i, k), Asks(s, n, i) PROVE k = 0 /\ OneDetail(t, i, 1)
  <2>1. k = 0 /\ \A m : Asks(s, m, i) => m = n
    BY <1>5 DEF OneDetail
  <2>2. \A m : ~Asks(t, m, i)
    BY <1>2, <2>1
  <2> QED
    BY <2>1, <2>2 DEF OneDetail
<1> QED
  BY <1>2, <1>4, <1>5

(***************************************************************************)
(* Types                                                                   *)
(***************************************************************************)
LEMMA ButtonTypes ==
  ASSUME NEW S
  PROVE  PanelButtons(S) \subseteq Buttons(panel) /\ PanelButtons({}) = {}
BY DEF PanelButtons, Buttons, InstanceButtons, VolumeButtons, BackupButtons

LEMMA PageInIds ==
  ASSUME TypeOK, NEW p
  PROVE  PageIds(p) \subseteq DOMAIN srv /\ PageIds(p) \subseteq Id
BY DEF PageIds, TypeOK

LEMMA SamePage ==
  ASSUME srv' = srv, NEW p, cur' = p
  PROVE  PageIds(cur)' = PageIds(p)
BY DEF PageIds, Position, StartCount

LEMMA Sizes ==
  ASSUME TypeOK
  PROVE  Cardinality(DOMAIN srv) \in Nat
<1>1. IsFiniteSet(DOMAIN srv)
  BY ListAssumption, FS_Subset DEF TypeOK
<1> QED
  BY <1>1, FS_CardinalityType

\* What every refresh is called with: the selection and the details as they
\* are, or none of either.
LEMMA RefreshCalls ==
  ASSUME TypeOK, CheckedInv
  PROVE  /\ chk \in Seq(Id) /\ Distinct(chk) /\ det \in [Id -> Nat]
         /\ \A i \in Id : det[i] > 0 => i \in ToSet(chk)
         /\ <<>> \in Seq(Id) /\ Distinct(<<>>) /\ ToSet(<<>>) = {}
         /\ NoDetail \in [Id -> Nat] /\ \A i \in Id : NoDetail[i] > 0 => i \in ToSet(<<>>)
BY DEF TypeOK, CheckedInv, Distinct, NoDetail, ToSet

LEMMA Paging ==
  ASSUME TypeOK, CheckedInv, NEW p \in Nat, UpdatePage(p)
  PROVE  /\ req' \in Seq(Request) /\ Lists(req') # {} /\ AsksFor(req', p)
         /\ cur' = p /\ chk' = <<>> /\ det' = NoDetail
<1>1. Refresh(req, p, <<>>, NoDetail) /\ cur' = p
  BY DEF UpdatePage, NoDetail
<1>2. <<>> \in Seq(Id) /\ Distinct(<<>>) /\ NoDetail \in [Id -> Nat] /\ \A i \in Id : NoDetail[i] > 0 => i \in ToSet(<<>>)
  BY RefreshCalls
<1>3. req \in Seq(Request)
  BY DEF TypeOK
<1> QED
  BY <1>1, <1>2, <1>3, Refreshing

LEMMA PageTurns ==
  ASSUME TypeOK, ClickNext \/ ClickPrev \/ TypePage
  PROVE  \E p \in Nat : UpdatePage(p)
<1>1. CASE ClickNext \/ ClickPrev
  <2>1. cur \in Nat
    BY DEF TypeOK
  <2>2. (IF cur >= 1 /\ cur < PageCount(total) THEN cur + 1 ELSE cur) \in Nat
    BY <2>1
  <2>3. (IF cur > 1 /\ cur <= PageCount(total) THEN cur - 1 ELSE cur) \in Nat
    BY <2>1
  <2> QED
    BY <1>1, <2>2, <2>3 DEF ClickNext, ClickPrev
<1>2. CASE TypePage
  <2>1. \A p \in 1 .. MaxPage : p \in Nat
    BY Constants
  <2> QED
    BY <1>2, <2>1 DEF TypePage
<1> QED
  BY <1>1, <1>2

\* A refresh of the page and the selection as they are, by the refresh link
\* or after a dialog's request.
LEMMA RefreshedAsIs ==
  ASSUME TypeOK, CheckedInv, NEW r \in Seq(Request), Refresh(r, cur, chk, det)
  PROVE  /\ req' \in Seq(Request) /\ Lists(req') # {} /\ AsksFor(req', cur)
         /\ chk' = IF panel = "instance" THEN <<>> ELSE chk
         /\ chk' \in Seq(Id) /\ Distinct(chk') /\ ToSet(chk') \subseteq ToSet(chk)
         /\ det' = NoDetail
         /\ (\A i \in ToSet(chk') : \A n : ~Asks(r, n, i)) => DetailsOf(req', chk', det')
<1>1. cur \in Nat
  BY DEF TypeOK
<1> QED
  BY <1>1, RefreshCalls, Refreshing

LEMMA TypeStep ==
  ASSUME TypeOK, CheckedInv, [Next]_vars
  PROVE  TypeOK'
<1> USE DEF TypeOK
<1>1. CASE UNCHANGED vars
  BY <1>1 DEF vars, server, pager, table, selection
<1>2. ASSUME NEW i \in Id, Check(i) PROVE TypeOK'
  <2>1. req' \in Seq(Request)
    BY <1>2, Constants, RequestTypes, Appending DEF Check
  <2>2. chk' \in Seq(Id)
    BY <1>2 DEF Check
  <2>3. btn' \subseteq Buttons(panel)
    BY <1>2, ButtonTypes DEF Check
  <2> QED
    BY <1>2, <2>1, <2>2, <2>3 DEF Check, server, pager
<1>3. ASSUME NEW i \in Id, Uncheck(i) PROVE TypeOK'
  <2>1. chk' \in Seq(Id)
    BY <1>3, RefreshCalls, Unchecking DEF Uncheck
  <2>2. btn' \subseteq Buttons(panel)
    BY <1>3, ButtonTypes DEF Uncheck
  <2>3. det' \in [Id -> Nat]
    BY <1>3 DEF Uncheck
  <2> QED
    BY <1>3, <2>1, <2>2, <2>3 DEF Uncheck, server, pager
<1>4. CASE ClickRefresh
  <2>1. req' \in Seq(Request) /\ chk' \in Seq(Id) /\ det' \in [Id -> Nat]
    BY <1>4, RefreshedAsIs, RefreshCalls DEF ClickRefresh
  <2> QED
    BY <1>4, <2>1 DEF ClickRefresh, server, pager, table
<1>5. CASE ClickNext \/ ClickPrev \/ TypePage
  <2>1. PICK p \in Nat : UpdatePage(p)
    BY <1>5, PageTurns
  <2>2. req' \in Seq(Request) /\ chk' \in Seq(Id) /\ det' \in [Id -> Nat] /\ cur' \in Nat
    BY <2>1, Paging, RefreshCalls
  <2> QED
    BY <2>1, <2>2 DEF UpdatePage, server, table
<1>6. CASE OpenDialog \/ CloseDialog
  BY <1>6 DEF OpenDialog, CloseDialog, server, pager, table, selection
<1>7. CASE Submit
  <2>1. req' \in Seq(Request)
    BY <1>7, RequestTypes, Appending DEF Submit
  <2>2. DOMAIN rows' = DOMAIN rows
    BY <1>7 DEF Submit
  <2> QED
    BY <1>7, <2>1, <2>2 DEF Submit, server, pager, selection
<1>8. ASSUME NEW n \in DOMAIN req, ListAnswer(n) PROVE TypeOK'
  <2>1. req' \in Seq(Request)
    BY <1>8, Cutting DEF ListAnswer, Completed
  <2>2. total' \in Nat
    BY <1>8, Sizes DEF ListAnswer
  <2>3. DOMAIN rows' = PageIds(req[n].arg) /\ dom' \subseteq DOMAIN rows'
    BY <1>8 DEF ListAnswer
  <2>4. DOMAIN rows' \subseteq Id
    BY <2>3, PageInIds
  <2> QED
    BY <1>8, <2>1, <2>2, <2>3, <2>4 DEF ListAnswer, Completed, server
<1>9. ASSUME NEW n \in DOMAIN req, DetailAnswer(n) \/ UpdateFails(n) \/ PostFails(n) PROVE TypeOK'
  <2>1. req' \in Seq(Request)
    BY <1>9, Cutting DEF DetailAnswer, UpdateFails, PostFails, Completed
  <2>2. det' \in [Id -> Nat]
    BY <1>9 DEF DetailAnswer, UpdateFails, PostFails, selection
  <2> QED
    BY <1>9, <2>1, <2>2 DEF DetailAnswer, UpdateFails, PostFails, Completed, server, pager, table, selection
<1>10. ASSUME NEW n \in DOMAIN req, PostAnswer(n) PROVE TypeOK'
  <2>1. RemoveAt(req, n) \in Seq(Request)
    BY Cutting
  <2>2. req' \in Seq(Request) /\ chk' \in Seq(Id) /\ det' \in [Id -> Nat]
    BY <1>10, <2>1, RefreshedAsIs, RefreshCalls DEF PostAnswer
  <2> QED
    BY <1>10, <2>2 DEF PostAnswer, server, pager, table
<1>11. CASE RowsChange
  <2>1. DOMAIN srv' \subseteq Id
    BY <1>11 DEF RowsChange
  <2> QED
    BY <1>11, <2>1 DEF RowsChange, pager, table, selection
<1> QED
  BY <1>1, <1>2, <1>3, <1>4, <1>5, <1>6, <1>7, <1>8, <1>9, <1>10, <1>11 DEF Next, Answer

(***************************************************************************)
(* The checked list and the table                                          *)
(***************************************************************************)
LEMMA CheckedStep ==
  ASSUME TypeOK, CheckedInv, [Next]_vars
  PROVE  CheckedInv'
<1>0. ASSUME UNCHANGED <<chk, det, dom>>, DOMAIN rows' = DOMAIN rows PROVE CheckedInv'
  BY <1>0 DEF CheckedInv, ToSet
<1>a. ASSUME det' = NoDetail, Distinct(chk'), ToSet(chk') \subseteq ToSet(chk), UNCHANGED <<rows, dom>>
      PROVE  CheckedInv'
  <2>1. ToSet(chk)' = ToSet(chk')
    BY DEF ToSet
  <2> QED
    BY <1>a, <2>1 DEF CheckedInv, NoDetail, Distinct
<1>1. CASE UNCHANGED vars
  BY <1>0, <1>1 DEF vars, server, pager, table, selection
<1>2. ASSUME NEW i \in Id, Check(i) PROVE CheckedInv'
  <2>1. i \notin ToSet(chk)
    BY <1>2 DEF Check, CheckedInv
  <2>2. chk' = Append(chk, i) /\ chk \in Seq(Id)
    BY <1>2, <2>1 DEF Check, TypeOK
  <2>3. /\ Len(chk) \in Nat /\ DOMAIN chk = 1 .. Len(chk) /\ DOMAIN chk' = 1 .. Len(chk) + 1
        /\ chk'[Len(chk) + 1] = i /\ \A k \in 1 .. Len(chk) : chk'[k] = chk[k]
    BY <2>2
  <2>4. ToSet(chk)' = ToSet(chk) \cup {i}
    BY <2>3 DEF ToSet
  <2>5. \A m, n \in DOMAIN chk' : chk'[m] = chk'[n] => m = n
    <3>1. \A m \in DOMAIN chk : chk[m] # i
      BY <2>1 DEF ToSet
    <3>2. \A m \in DOMAIN chk' : m = Len(chk) + 1 \/ m \in DOMAIN chk
      BY <2>3
    <3> QED
      BY <2>3, <3>1, <3>2 DEF CheckedInv
  <2> QED
    BY <1>2, <2>4, <2>5 DEF CheckedInv, Check
<1>3. ASSUME NEW i \in Id, Uncheck(i) PROVE CheckedInv'
  <2>1. Distinct(chk') /\ ToSet(chk') = ToSet(chk) \ {i}
    BY <1>3, RefreshCalls, Unchecking DEF Uncheck
  <2>2. ToSet(chk)' = ToSet(chk')
    BY DEF ToSet
  <2>3. dom' = dom \ {i} /\ rows' = rows
    BY <1>3 DEF Uncheck
  <2>4. det' = [det EXCEPT ![i] = IF i \in ToSet(chk) THEN 0 ELSE @] /\ det \in [Id -> Nat]
    BY <1>3 DEF Uncheck, TypeOK
  <2>5. ASSUME NEW j \in Id, det'[j] > 0 PROVE j \in ToSet(chk)'
    BY <2>1, <2>2, <2>4, <2>5 DEF CheckedInv
  <2> QED
    BY <2>1, <2>2, <2>3, <2>5 DEF CheckedInv, Distinct
<1>4. CASE ClickRefresh
  <2>1. det' = NoDetail /\ Distinct(chk') /\ ToSet(chk') \subseteq ToSet(chk)
    BY <1>4, RefreshedAsIs DEF ClickRefresh, TypeOK
  <2> QED
    BY <1>4, <1>a, <2>1 DEF ClickRefresh, table
<1>5. CASE ClickNext \/ ClickPrev \/ TypePage
  <2>1. PICK p \in Nat : UpdatePage(p)
    BY <1>5, PageTurns
  <2>2. det' = NoDetail /\ chk' = <<>>
    BY <2>1, Paging
  <2> QED
    BY <1>a, <2>1, <2>2, RefreshCalls DEF UpdatePage, table
<1>6. CASE OpenDialog \/ CloseDialog \/ RowsChange
  BY <1>0, <1>6 DEF OpenDialog, CloseDialog, RowsChange, table, selection
<1>7. CASE Submit
  BY <1>0, <1>7 DEF Submit, selection
<1>8. ASSUME NEW n \in DOMAIN req, ListAnswer(n) PROVE CheckedInv'
  <2>1. UNCHANGED <<chk, det>> /\ ToSet(chk)' = ToSet(chk)
    BY <1>8 DEF ListAnswer, ToSet
  <2>2. DOMAIN rows' = PageIds(req[n].arg) /\ dom' = ToSet(chk) \cap PageIds(req[n].arg)
    BY <1>8 DEF ListAnswer
  <2> QED
    BY <2>1, <2>2 DEF CheckedInv
<1>9. ASSUME NEW n \in DOMAIN req, DetailAnswer(n) PROVE CheckedInv'
  <2>1. UNCHANGED <<chk, rows, dom>> /\ ToSet(chk)' = ToSet(chk)
    BY <1>9 DEF DetailAnswer, table, ToSet
  <2>2. det \in [Id -> Nat] /\ det' = [det EXCEPT ![req[n].arg] = IF req[n].arg \in ToSet(chk) THEN @ + 1 ELSE @]
    BY <1>9 DEF DetailAnswer, TypeOK
  <2>3. \A i \in Id : i # req[n].arg \/ i \notin ToSet(chk) => det'[i] = det[i]
    BY <2>2
  <2> QED
    BY <2>1, <2>3 DEF CheckedInv
<1>10. ASSUME NEW n \in DOMAIN req, UpdateFails(n) \/ PostFails(n) PROVE CheckedInv'
  BY <1>0, <1>10 DEF UpdateFails, PostFails, table, selection
<1>11. ASSUME NEW n \in DOMAIN req, PostAnswer(n) PROVE CheckedInv'
  <2>1. RemoveAt(req, n) \in Seq(Request)
    BY Cutting DEF TypeOK
  <2>2. det' = NoDetail /\ Distinct(chk') /\ ToSet(chk') \subseteq ToSet(chk)
    BY <1>11, <2>1, RefreshedAsIs DEF PostAnswer
  <2> QED
    BY <1>11, <1>a, <2>2 DEF PostAnswer, table
<1> QED
  BY <1>1, <1>2, <1>3, <1>4, <1>5, <1>6, <1>7, <1>8, <1>9, <1>10, <1>11 DEF Next, Answer

(***************************************************************************)
(* The details                                                             *)
(***************************************************************************)
LEMMA NotesKept ==
  ASSUME [Next]_vars
  PROVE  hist \subseteq hist'
BY DEF Next, Check, Uncheck, ClickRefresh, ClickNext, ClickPrev, TypePage, UpdatePage, OpenDialog, CloseDialog,
       Submit, Answer, ListAnswer, DetailAnswer, UpdateFails, PostAnswer, PostFails, RowsChange, vars

LEMMA Awaited ==
  ASSUME NEW i
  PROVE  DetailInFlight(i) <=> \E n : Asks(req, n, i)
BY DEF DetailInFlight, InFlight, Asks

LEMMA DetailsStep ==
  ASSUME TypeOK, CheckedInv, DetailsInv, [Next]_vars
  PROVE  DetailsInv'
<1> SUFFICES ASSUME hist' \cap {"failed", "again"} = {} PROVE DetailsOf(req', chk', det')
  BY DEF DetailsInv, DetailsOf, ToSet, OneDetail, Asks
<1>0. DetailsOf(req, chk, det) /\ req \in Seq(Request) /\ chk \in Seq(Id)
  BY NotesKept DEF DetailsInv, TypeOK
<1>i. \A i \in ToSet(chk) : i \in Id
  BY <1>0 DEF ToSet
<1>1. CASE UNCHANGED <<req, chk, det>>
  BY <1>0, <1>1
<1>2. ASSUME NEW i \in Id, Check(i) PROVE DetailsOf(req', chk', det')
  <2>1. i \notin ToSet(chk)
    BY <1>2 DEF Check, CheckedInv
  <2>2. chk' = Append(chk, i)
    BY <1>2, <2>1 DEF Check
  <2>3. ToSet(chk') = ToSet(chk) \cup {i}
    <3>1. /\ Len(chk) \in Nat /\ DOMAIN chk = 1 .. Len(chk) /\ DOMAIN chk' = 1 .. Len(chk) + 1
          /\ chk'[Len(chk) + 1] = i /\ \A k \in 1 .. Len(chk) : chk'[k] = chk[k]
      BY <1>0, <2>2
    <3> QED
      BY <3>1 DEF ToSet
  <2>4. Send(req, <<DetailRequest(i)>>) /\ DetailRequest(i) \in Request
    BY <1>2, Constants, RequestTypes DEF Check
  <2>5. DetailRequest(i).kind = "detail" /\ DetailRequest(i).arg = i
    BY RequestKinds
  <2>6. /\ \A n, j : Asks(req, n, j) => Asks(req', n, j)
        /\ \A n, j : Asks(req', n, j) => Asks(req, n, j) \/ (n = Len(req) + 1 /\ i = j)
        /\ Asks(req', Len(req) + 1, i)
    BY <1>0, <2>4, <2>5, AppendOther
  <2>7. \A n : ~Asks(req, n, i)
    BY <1>2, Awaited DEF Check, Note
  <2>8. det[i] = 0 /\ det' = det
    BY <1>2, <2>1 DEF CheckedInv, TypeOK, Check
  <2>9. OneDetail(req', i, 0)
    BY <2>6, <2>7 DEF OneDetail
  <2>10. ASSUME NEW j \in ToSet(chk) PROVE OneDetail(req', j, det[j])
    <3>1. j # i /\ OneDetail(req, j, det[j])
      BY <1>0, <2>1 DEF DetailsOf
    <3>2. \A n : Asks(req', n, j) <=> Asks(req, n, j)
      BY <2>6, <3>1
    <3> QED
      BY <3>1, <3>2 DEF OneDetail
  <2> QED
    BY <2>3, <2>8, <2>9, <2>10 DEF DetailsOf
<1>3. ASSUME NEW i \in Id, Uncheck(i) PROVE DetailsOf(req', chk', det')
  <2>1. ToSet(chk') = ToSet(chk) \ {i}
    BY <1>3, RefreshCalls, Unchecking DEF Uncheck
  <2>2. req' = req /\ det' = [det EXCEPT ![i] = IF i \in ToSet(chk) THEN 0 ELSE @] /\ det \in [Id -> Nat]
    BY <1>3 DEF Uncheck, TypeOK
  <2>3. \A j \in ToSet(chk') : det'[j] = det[j] /\ j \in ToSet(chk)
    BY <1>i, <2>1, <2>2
  <2> QED
    BY <1>0, <2>2, <2>3 DEF DetailsOf
<1>4. CASE ClickRefresh
  <2>1. /\ chk' = IF panel = "instance" THEN <<>> ELSE chk
        /\ (\A i \in ToSet(chk') : \A n : ~Asks(req, n, i)) => DetailsOf(req', chk', det')
    BY <1>0, <1>4, RefreshedAsIs DEF ClickRefresh
  <2>2. panel # "instance" => \A i \in ToSet(chk) : ~DetailInFlight(i)
    BY <1>4 DEF ClickRefresh, RefreshNotes, Note
  <2>3. ToSet(<<>>) = {}
    BY DEF ToSet
  <2> QED
    BY <2>1, <2>2, <2>3, Awaited
<1>5. CASE ClickNext \/ ClickPrev \/ TypePage
  <2>1. PICK p \in Nat : UpdatePage(p)
    BY <1>5, PageTurns
  <2>2. chk' = <<>>
    BY <2>1, Paging
  <2> QED
    BY <2>2 DEF DetailsOf, ToSet
<1>6. CASE OpenDialog \/ CloseDialog \/ RowsChange
  BY <1>1, <1>6 DEF OpenDialog, CloseDialog, RowsChange, selection
<1>7. CASE Submit
  <2>1. Send(req, <<PostRequest(dlg)>>) /\ PostRequest(dlg) \in Request /\ PostRequest(dlg).kind = "post"
    BY <1>7, RequestTypes, RequestKinds DEF Submit
  <2>2. \A n, j : Asks(req, n, j) <=> Asks(req', n, j)
    BY <1>0, <2>1, AppendOther
  <2>3. UNCHANGED <<chk, det>>
    BY <1>7 DEF Submit, selection
  <2> QED
    BY <1>0, <2>2, <2>3 DEF DetailsOf, OneDetail
<1>8. ASSUME NEW n \in DOMAIN req, ListAnswer(n) \/ PostFails(n) PROVE DetailsOf(req', chk', det')
  <2>1. Cut(req, req', n) /\ req[n].kind # "detail" /\ UNCHANGED <<chk, det>>
    BY <1>0, <1>8, Cutting DEF ListAnswer, PostFails, Completed, selection
  <2>2. \A i : ~Asks(req, n, i)
    BY <2>1 DEF Asks
  <2> QED
    BY <1>0, <2>1, <2>2, RemoveDetail DEF DetailsOf
<1>9. ASSUME NEW n \in DOMAIN req, DetailAnswer(n) PROVE DetailsOf(req', chk', det')
  <2> DEFINE a == req[n].arg
  <2>1. Cut(req, req', n) /\ req[n].kind = "detail" /\ chk' = chk
    BY <1>0, <1>9, Cutting DEF DetailAnswer, Completed
  <2>2. det \in [Id -> Nat] /\ det' = [det EXCEPT ![a] = IF a \in ToSet(chk) THEN @ + 1 ELSE @]
    BY <1>9 DEF DetailAnswer, TypeOK
  <2>3. \A i : Asks(req, n, i) <=> i = a
    BY <2>1 DEF Asks
  <2>4. ASSUME NEW i \in ToSet(chk) PROVE OneDetail(req', i, det'[i])
    <3>1. OneDetail(req, i, det[i]) /\ i \in Id
      BY <1>0, <1>i DEF DetailsOf
    <3>2. CASE i # a
      <4>1. det'[i] = det[i]
        BY <2>2, <3>1, <3>2
      <4> QED
        BY <2>1, <2>3, <3>1, <3>2, <4>1, RemoveDetail
    <3>3. CASE i = a
      <4>1. det[i] = 0 /\ OneDetail(req', i, 1)
        BY <2>1, <2>3, <3>1, <3>3, RemoveDetail
      <4>2. det'[i] = 1
        BY <2>2, <2>4, <3>1, <3>3, <4>1
      <4> QED
        BY <4>1, <4>2
    <3> QED
      BY <3>2, <3>3
  <2> QED
    BY <2>1, <2>4 DEF DetailsOf
<1>10. ASSUME NEW n \in DOMAIN req, UpdateFails(n) PROVE FALSE
  BY <1>10 DEF UpdateFails
<1>11. ASSUME NEW n \in DOMAIN req, PostAnswer(n) PROVE DetailsOf(req', chk', det')
  <2> DEFINE r == RemoveAt(req, n)
  <2>1. r \in Seq(Request) /\ Cut(req, r, n)
    BY <1>0, Cutting
  <2>2. Refresh(r, cur, chk, det) /\ hist' = hist \cup RefreshNotes
    BY <1>11 DEF PostAnswer
  <2> HIDE DEF r
  <2>3. /\ chk' = IF panel = "instance" THEN <<>> ELSE chk
        /\ (\A i \in ToSet(chk') : \A m : ~Asks(r, m, i)) => DetailsOf(req', chk', det')
    BY <2>1, <2>2, RefreshedAsIs
  <2>4. panel # "instance" => \A i \in ToSet(chk) : ~DetailInFlight(i)
    BY <2>2 DEF RefreshNotes, Note
  <2>5. \A i, m : Asks(r, m, i) => DetailInFlight(i)
    BY <2>1, RemoveDetail, Awaited
  <2>6. ToSet(<<>>) = {}
    BY DEF ToSet
  <2> QED
    BY <2>3, <2>4, <2>5, <2>6
<1>12. CASE UNCHANGED vars
  BY <1>1, <1>12 DEF vars, selection
<1> QED
  BY <1>2, <1>3, <1>4, <1>5, <1>6, <1>7, <1>8, <1>9, <1>10, <1>11, <1>12 DEF Next, Answer

(***************************************************************************)
(* The page                                                                *)
(***************************************************************************)
PageShown == shown = cur /\ ("next" \in arrows <=> total > cur * Row)

LEMMA PageStep ==
  ASSUME TypeOK, CheckedInv, PageInv, [Next]_vars
  PROVE  PageInv'
<1> SUFFICES ASSUME hist' \cap {"failed", "overtaken"} = {}
             PROVE  AsksFor(req', cur') /\ (Lists(req') = {} => PageShown')
  BY DEF PageInv, PageShown, AsksFor, Newest, Lists
<1>0. AsksFor(req, cur) /\ (Lists(req) = {} => PageShown) /\ req \in Seq(Request)
  BY NotesKept DEF PageInv, PageShown, TypeOK
<1>1. CASE UNCHANGED <<req, pager, shown>>
  BY <1>0, <1>1 DEF pager, PageShown
<1>2. ASSUME NEW i \in Id, Check(i) PROVE AsksFor(req', cur') /\ (Lists(req') = {} => PageShown')
  <2>1. Send(req, <<DetailRequest(i)>>) /\ DetailRequest(i) \in Request /\ DetailRequest(i).kind # "list"
    BY <1>2, Constants, RequestTypes, RequestKinds DEF Check
  <2>2. Lists(req') = Lists(req) /\ AsksFor(req', cur)
    BY <1>0, <2>1, AppendOther
  <2>3. UNCHANGED <<cur, total, arrows, shown>>
    BY <1>2 DEF Check, pager
  <2> QED
    BY <1>0, <2>2, <2>3 DEF PageShown
<1>3. ASSUME NEW i \in Id, Uncheck(i) PROVE UNCHANGED <<req, pager, shown>>
  BY <1>3 DEF Uncheck
<1>4. CASE ClickRefresh
  <2>1. Lists(req') # {} /\ AsksFor(req', cur) /\ cur' = cur
    BY <1>0, <1>4, RefreshedAsIs DEF ClickRefresh, pager
  <2> QED
    BY <2>1
<1>5. CASE ClickNext \/ ClickPrev \/ TypePage
  <2>1. PICK p \in Nat : UpdatePage(p)
    BY <1>5, PageTurns
  <2> QED
    BY <2>1, Paging
<1>6. CASE OpenDialog \/ CloseDialog \/ RowsChange
  BY <1>1, <1>6 DEF OpenDialog, CloseDialog, RowsChange, table
<1>7. CASE Submit
  <2>1. Send(req, <<PostRequest(dlg)>>) /\ PostRequest(dlg) \in Request /\ PostRequest(dlg).kind = "post"
    BY <1>7, RequestTypes, RequestKinds DEF Submit
  <2>2. Lists(req') = Lists(req) /\ AsksFor(req', cur)
    BY <1>0, <2>1, AppendOther
  <2>3. UNCHANGED <<cur, total, arrows, shown>>
    BY <1>7 DEF Submit, pager
  <2> QED
    BY <1>0, <2>2, <2>3 DEF PageShown
<1>8. ASSUME NEW n \in DOMAIN req, ListAnswer(n) PROVE AsksFor(req', cur') /\ (Lists(req') = {} => PageShown')
  <2>1. Cut(req, req', n) /\ req[n].kind = "list" /\ cur' = cur /\ shown' = req[n].arg
    BY <1>0, <1>8, Cutting DEF ListAnswer, Completed
  <2>2. \A m \in Lists(req) : ~(m < n)
    BY <1>8 DEF ListAnswer, Note, Lists, InFlight
  <2>3. AsksFor(req', cur)
    BY <1>0, <2>1, <2>2, RemoveList
  <2>4. ASSUME Lists(req') = {} PROVE shown' = cur
    <3>1. Lists(req) = {n}
      BY <2>1, <2>4, RemoveAny DEF Lists
    <3>2. n <= n
      BY <1>0
    <3> QED
      BY <1>0, <2>1, <3>1, <3>2 DEF AsksFor, Newest
  <2>5. "next" \in arrows' <=> total' > cur * Row
    BY <1>8 DEF ListAnswer, Note
  <2> QED
    BY <2>1, <2>3, <2>4, <2>5 DEF PageShown
<1>9. ASSUME NEW n \in DOMAIN req, DetailAnswer(n) \/ PostFails(n)
      PROVE  AsksFor(req', cur') /\ (Lists(req') = {} => PageShown')
  <2>1. Cut(req, req', n) /\ req[n].kind # "list" /\ UNCHANGED <<cur, total, arrows, shown>>
    BY <1>0, <1>9, Cutting DEF DetailAnswer, PostFails, Completed, pager, table
  <2>2. AsksFor(req', cur) /\ (Lists(req') = {} => Lists(req) = {})
    BY <1>0, <2>1, RemoveList, RemoveAny
  <2> QED
    BY <1>0, <2>1, <2>2 DEF PageShown
<1>10. ASSUME NEW n \in DOMAIN req, UpdateFails(n) PROVE FALSE
  BY <1>10 DEF UpdateFails
<1>11. ASSUME NEW n \in DOMAIN req, PostAnswer(n) PROVE AsksFor(req', cur') /\ Lists(req') # {}
  <2>1. RemoveAt(req, n) \in Seq(Request)
    BY <1>0, Cutting
  <2> QED
    BY <1>11, <2>1, RefreshedAsIs DEF PostAnswer, pager
<1>12. CASE UNCHANGED vars
  BY <1>1, <1>12 DEF vars, table
<1> QED
  BY <1>1, <1>2, <1>3, <1>4, <1>5, <1>6, <1>7, <1>8, <1>9, <1>10, <1>11, <1>12 DEF Next, Answer

(***************************************************************************)
(* The boxes                                                               *)
(***************************************************************************)
LEMMA TickedStep ==
  ASSUME TypeOK, CheckedInv, BoxesInv, [Next]_vars, "failed" \notin hist', Lists(req') = {}
  PROVE  dom' \subseteq ToSet(chk')
<1>0. req \in Seq(Request) /\ (Lists(req) = {} => dom \subseteq ToSet(chk))
  BY NotesKept DEF BoxesInv, TypeOK
<1>1. ASSUME UNCHANGED <<dom, chk>>, Lists(req) = {} PROVE dom' \subseteq ToSet(chk')
  BY <1>0, <1>1
<1>2. ASSUME NEW i \in Id, Check(i) PROVE dom' \subseteq ToSet(chk')
  <2>1. Send(req, <<DetailRequest(i)>>) /\ DetailRequest(i) \in Request /\ DetailRequest(i).kind # "list"
    BY <1>2, Constants, RequestTypes, RequestKinds DEF Check
  <2>2. Lists(req) = {}
    BY <1>0, <2>1, AppendOther
  <2>3. i \in ToSet(chk') /\ ToSet(chk) \subseteq ToSet(chk')
    <3>1. CASE i \in ToSet(chk)
      BY <1>2, <3>1 DEF Check
    <3>2. CASE i \notin ToSet(chk)
      <4>1. chk \in Seq(Id) /\ chk' = Append(chk, i)
        BY <1>2, <3>2 DEF Check, TypeOK
      <4>2. /\ Len(chk) \in Nat /\ DOMAIN chk = 1 .. Len(chk) /\ DOMAIN chk' = 1 .. Len(chk) + 1
            /\ chk'[Len(chk) + 1] = i /\ \A k \in 1 .. Len(chk) : chk'[k] = chk[k]
        BY <4>1
      <4> QED
        BY <4>2 DEF ToSet
    <3> QED
      BY <3>1, <3>2
  <2> QED
    BY <1>0, <1>2, <2>2, <2>3 DEF Check
<1>3. ASSUME NEW i \in Id, Uncheck(i) PROVE dom' \subseteq ToSet(chk')
  <2>1. ToSet(chk') = ToSet(chk) \ {i} /\ dom' = dom \ {i} /\ req' = req
    BY <1>3, RefreshCalls, Unchecking DEF Uncheck
  <2> QED
    BY <1>0, <2>1
<1>4. CASE ClickRefresh
  BY <1>0, <1>4, RefreshedAsIs DEF ClickRefresh
<1>5. CASE ClickNext \/ ClickPrev \/ TypePage
  BY <1>5, PageTurns, Paging
<1>6. CASE OpenDialog \/ CloseDialog \/ RowsChange
  BY <1>1, <1>6 DEF OpenDialog, CloseDialog, RowsChange, table, selection
<1>7. CASE Submit
  <2>1. Send(req, <<PostRequest(dlg)>>) /\ PostRequest(dlg) \in Request /\ PostRequest(dlg).kind = "post"
    BY <1>7, RequestTypes, RequestKinds DEF Submit
  <2>2. Lists(req') = Lists(req)
    BY <1>0, <2>1, AppendOther
  <2> QED
    BY <1>1, <1>7, <2>2 DEF Submit, selection
<1>8. ASSUME NEW n \in DOMAIN req, ListAnswer(n) PROVE dom' \subseteq ToSet(chk')
  BY <1>8 DEF ListAnswer
<1>9. ASSUME NEW n \in DOMAIN req, DetailAnswer(n) \/ PostFails(n) PROVE dom' \subseteq ToSet(chk')
  <2>1. Cut(req, req', n) /\ req[n].kind # "list" /\ UNCHANGED <<dom, chk>>
    BY <1>0, <1>9, Cutting DEF DetailAnswer, PostFails, Completed, table, selection
  <2> QED
    BY <1>1, <2>1, RemoveAny
<1>10. ASSUME NEW n \in DOMAIN req, UpdateFails(n) PROVE FALSE
  BY <1>10 DEF UpdateFails
<1>11. ASSUME NEW n \in DOMAIN req, PostAnswer(n) PROVE FALSE
  <2>1. RemoveAt(req, n) \in Seq(Request)
    BY <1>0, Cutting
  <2> QED
    BY <1>11, <2>1, RefreshedAsIs DEF PostAnswer
<1>12. CASE UNCHANGED vars
  BY <1>1, <1>12 DEF vars, table, selection
<1> QED
  BY <1>2, <1>3, <1>4, <1>5, <1>6, <1>7, <1>8, <1>9, <1>10, <1>11, <1>12 DEF Next, Answer

\* The checked rows are on the current page while the server's rows stand still.
OnPage == /\ ToSet(chk) \subseteq PageIds(cur)
          /\ Lists(req) = {} => DOMAIN rows = PageIds(cur)

LEMMA OnPageStep ==
  ASSUME TypeOK, CheckedInv, PageInv, BoxesInv, [Next]_vars,
         changes' = 0, hist' \cap {"failed", "overtaken", "late_click"} = {}
  PROVE  OnPage'
<1>a. \/ UNCHANGED <<srv, changes>>
      \/ RowsChange
  BY DEF Next, Check, Uncheck, ClickRefresh, ClickNext, ClickPrev, TypePage, UpdatePage, OpenDialog, CloseDialog, Submit,
         Answer, ListAnswer, DetailAnswer, UpdateFails, PostAnswer, PostFails, Completed, vars, server
<1>b. ~RowsChange
  <2>1. changes \in Nat => changes + 1 # 0
    OBVIOUS
  <2> QED
    BY <2>1 DEF RowsChange, TypeOK
<1>c. srv' = srv /\ changes = 0
  BY <1>a, <1>b
<1>0. OnPage /\ req \in Seq(Request) /\ AsksFor(req, cur)
  BY <1>c, NotesKept DEF BoxesInv, PageInv, OnPage, TypeOK
<1>p. PageIds(cur)' = PageIds(cur')
  BY <1>c, SamePage
<1>t. ToSet(chk)' = ToSet(chk') /\ Lists(req)' = Lists(req')
  BY DEF ToSet, Lists
<1> DEFINE Goal == /\ ToSet(chk') \subseteq PageIds(cur')
                   /\ Lists(req') = {} => DOMAIN rows' = PageIds(cur')
<1> SUFFICES Goal
  BY <1>p, <1>t DEF OnPage
<1>1. ASSUME ToSet(chk') \subseteq ToSet(chk), DOMAIN rows' = DOMAIN rows, cur' = cur, Lists(req') = {} => Lists(req) = {}
      PROVE  Goal
  BY <1>0, <1>1 DEF OnPage
<1>2. ASSUME NEW i \in Id, Check(i) PROVE Goal
  <2>1. Send(req, <<DetailRequest(i)>>) /\ DetailRequest(i) \in Request /\ DetailRequest(i).kind # "list"
    BY <1>2, Constants, RequestTypes, RequestKinds DEF Check
  <2>2. Lists(req') = Lists(req)
    BY <1>0, <2>1, AppendOther
  <2>3. Lists(req) = {}
    BY <1>2 DEF Check, Note, Lists, InFlight
  <2>4. i \in PageIds(cur)
    BY <1>0, <1>2, <2>3 DEF OnPage, Check
  <2>5. ToSet(chk') \subseteq ToSet(chk) \cup {i}
    <3>1. chk \in Seq(Id) /\ (chk' = chk \/ chk' = Append(chk, i))
      BY <1>2 DEF Check, TypeOK
    <3>2. CASE chk' = Append(chk, i)
      <4>1. /\ Len(chk) \in Nat /\ DOMAIN chk = 1 .. Len(chk) /\ DOMAIN chk' = 1 .. Len(chk) + 1
            /\ chk'[Len(chk) + 1] = i /\ \A k \in 1 .. Len(chk) : chk'[k] = chk[k]
        BY <3>1, <3>2
      <4> QED
        BY <4>1 DEF ToSet
    <3> QED
      BY <3>1, <3>2
  <2>6. UNCHANGED <<rows, cur>>
    BY <1>2 DEF Check, pager
  <2> QED
    BY <1>0, <2>2, <2>4, <2>5, <2>6 DEF OnPage
<1>3. ASSUME NEW i \in Id, Uncheck(i) PROVE Goal
  <2>1. ToSet(chk') = ToSet(chk) \ {i} /\ UNCHANGED <<rows, req, cur>>
    BY <1>3, RefreshCalls, Unchecking DEF Uncheck, pager
  <2> QED
    BY <1>1, <2>1
<1>4. CASE ClickRefresh
  <2>1. Lists(req') # {} /\ ToSet(chk') \subseteq ToSet(chk) /\ UNCHANGED <<rows, cur>>
    BY <1>0, <1>4, RefreshedAsIs DEF ClickRefresh, pager, table
  <2> QED
    BY <1>1, <2>1
<1>5. CASE ClickNext \/ ClickPrev \/ TypePage
  <2>1. Lists(req') # {} /\ chk' = <<>>
    BY <1>5, PageTurns, Paging
  <2> QED
    BY <2>1, RefreshCalls
<1>6. CASE OpenDialog \/ CloseDialog
  BY <1>1, <1>6 DEF OpenDialog, CloseDialog, table, selection, pager
<1>7. CASE Submit
  <2>1. Send(req, <<PostRequest(dlg)>>) /\ PostRequest(dlg) \in Request /\ PostRequest(dlg).kind = "post"
    BY <1>7, RequestTypes, RequestKinds DEF Submit
  <2>2. Lists(req') = Lists(req)
    BY <1>0, <2>1, AppendOther
  <2>3. DOMAIN rows' = DOMAIN rows /\ UNCHANGED <<chk, cur>>
    BY <1>7 DEF Submit, selection, pager
  <2> QED
    BY <1>1, <2>2, <2>3
<1>8. ASSUME NEW n \in DOMAIN req, ListAnswer(n) PROVE Goal
  <2>1. /\ Cut(req, req', n) /\ req[n].kind = "list" /\ UNCHANGED <<cur, chk>>
        /\ DOMAIN rows' = PageIds(req[n].arg)
    BY <1>0, <1>8, Cutting DEF ListAnswer, Completed
  <2>2. ASSUME Lists(req') = {} PROVE req[n].arg = cur
    <3>1. Lists(req) = {n}
      BY <2>1, <2>2, RemoveAny DEF Lists
    <3>2. n <= n
      BY <1>0
    <3> QED
      BY <1>0, <3>1, <3>2 DEF AsksFor, Newest
  <2> QED
    BY <1>0, <2>1, <2>2 DEF OnPage
<1>9. ASSUME NEW n \in DOMAIN req, DetailAnswer(n) \/ PostFails(n) PROVE Goal
  <2>1. Cut(req, req', n) /\ req[n].kind # "list" /\ UNCHANGED <<rows, chk, cur>>
    BY <1>0, <1>9, Cutting DEF DetailAnswer, PostFails, Completed, table, selection, pager
  <2> QED
    BY <1>1, <2>1, RemoveAny
<1>10. ASSUME NEW n \in DOMAIN req, UpdateFails(n) PROVE FALSE
  BY <1>10 DEF UpdateFails
<1>11. ASSUME NEW n \in DOMAIN req, PostAnswer(n) PROVE Goal
  <2>1. RemoveAt(req, n) \in Seq(Request)
    BY <1>0, Cutting
  <2>2. Lists(req') # {} /\ ToSet(chk') \subseteq ToSet(chk) /\ UNCHANGED <<rows, cur>>
    BY <1>11, <2>1, RefreshedAsIs DEF PostAnswer, pager, table
  <2> QED
    BY <1>1, <2>2
<1>12. CASE UNCHANGED vars
  BY <1>1, <1>12 DEF vars, table, selection, pager
<1> QED
  BY <1>b, <1>2, <1>3, <1>4, <1>5, <1>6, <1>7, <1>8, <1>9, <1>10, <1>11, <1>12 DEF Next, Answer

LEMMA BoxesStep ==
  ASSUME TypeOK, CheckedInv, PageInv, BoxesInv, [Next]_vars
  PROVE  BoxesInv'
<1>1. ToSet(chk)' = ToSet(chk') /\ Lists(req)' = Lists(req')
  BY DEF ToSet, Lists
<1>2. "failed" \notin hist' /\ Lists(req') = {} => dom' \subseteq ToSet(chk')
  BY TickedStep
<1>3. changes' = 0 /\ hist' \cap {"failed", "overtaken", "late_click"} = {} => OnPage'
  BY OnPageStep
<1> QED
  BY <1>1, <1>2, <1>3 DEF BoxesInv, OnPage

(***************************************************************************)
(* The buttons                                                             *)
(***************************************************************************)
LEMMA ButtonsStep ==
  ASSUME TypeOK, CheckedInv, BoxesInv, NoEmptyAction, [Next]_vars
  PROVE  NoEmptyAction'
<1> SUFFICES ASSUME btn' # {}, hist' \cap {"orphan", "failed", "late_click"} = {} PROVE chk' # <<>>
  BY DEF NoEmptyAction
<1>0. btn # {} => chk # <<>>
  BY NotesKept DEF NoEmptyAction
<1>1. CASE UNCHANGED <<btn, chk>>
  BY <1>0, <1>1
<1>2. ASSUME NEW i \in Id, Check(i) PROVE chk' # <<>>
  <2>1. CASE i \in ToSet(chk)
    BY <1>2, <2>1 DEF Check, ToSet
  <2>2. CASE i \notin ToSet(chk)
    <3>1. chk \in Seq(Id) /\ chk' = Append(chk, i)
      BY <1>2, <2>2 DEF Check, TypeOK
    <3> QED
      BY <3>1
  <2> QED
    BY <2>1, <2>2
<1>3. ASSUME NEW i \in Id, Uncheck(i) PROVE chk' # <<>>
  <2>1. ToSet(chk') = ToSet(chk) \ {i} /\ dom' = dom \ {i}
    BY <1>3, RefreshCalls, Unchecking DEF Uncheck
  <2>2. dom \subseteq ToSet(chk)
    <3>1. Lists(req) = {}
      BY <1>3 DEF Uncheck, Note, Lists, InFlight
    <3> QED
      BY <3>1, NotesKept DEF BoxesInv
  <2>3. dom' # {}
    <3>1. ASSUME dom' = {} PROVE FALSE
      <4>1. TickedStates(dom') = {}
        BY <3>1 DEF TickedStates
      <4>2. btn' = PanelButtons({})
        BY <1>3, <4>1 DEF Uncheck
      <4> QED
        BY <4>2, ButtonTypes
    <3> QED
      BY <3>1
  <2>4. ToSet(<<>>) = {}
    BY DEF ToSet
  <2> QED
    BY <2>1, <2>2, <2>3, <2>4
<1>4. CASE ClickRefresh
  <2>1. chk' = (IF panel = "instance" THEN <<>> ELSE chk) /\ btn' = btn
    BY <1>4, RefreshedAsIs DEF ClickRefresh, TypeOK
  <2>2. panel # "instance"
    BY <1>4, <2>1 DEF ClickRefresh, RefreshNotes, Note
  <2> QED
    BY <1>0, <2>1, <2>2
<1>5. ASSUME NEW p \in Nat, UpdatePage(p) PROVE FALSE
  <2>1. btn' = btn \ PageDisables /\ panel # "backup"
    BY <1>5 DEF UpdatePage, Note
  <2> QED
    BY <2>1 DEF TypeOK, PanelNames, Buttons, PageDisables, InstancePageDisables, VolumePageDisables
<1>6. CASE OpenDialog \/ CloseDialog \/ RowsChange \/ Submit
  BY <1>1, <1>6 DEF OpenDialog, CloseDialog, RowsChange, Submit, selection
<1>7. ASSUME NEW n \in DOMAIN req, ListAnswer(n) \/ DetailAnswer(n) \/ UpdateFails(n) \/ PostFails(n)
      PROVE  chk' # <<>>
  BY <1>1, <1>7 DEF ListAnswer, DetailAnswer, UpdateFails, PostFails, selection
<1>8. ASSUME NEW n \in DOMAIN req, PostAnswer(n) PROVE chk' # <<>>
  <2>1. RemoveAt(req, n) \in Seq(Request)
    BY Cutting DEF TypeOK
  <2>2. chk' = (IF panel = "instance" THEN <<>> ELSE chk) /\ btn' \subseteq btn
    BY <1>8, <2>1, RefreshedAsIs DEF PostAnswer
  <2>3. panel # "instance"
    BY <1>8, <2>2 DEF PostAnswer, RefreshNotes, Note
  <2> QED
    BY <1>0, <2>2, <2>3
<1>9. CASE UNCHANGED vars
  BY <1>1, <1>9 DEF vars, selection
<1> QED
  BY <1>2, <1>3, <1>4, <1>5, <1>6, <1>7, <1>8, <1>9, PageTurns DEF Next, Answer

(***************************************************************************)
(* Together                                                                *)
(***************************************************************************)
LEMMA ListInit == Init => ListInv
<1> SUFFICES ASSUME Init PROVE ListInv
  OBVIOUS
<1> USE DEF Init
<1>1. TypeOK
  <2>1. panel \in PanelNames /\ DOMAIN srv \subseteq Id
    BY Constants
  <2>2. req \in Seq(Request)
    BY RequestTypes
  <2>3. DOMAIN rows = {} /\ chk \in Seq(Id)
    OBVIOUS
  <2> QED
    BY <2>1, <2>2, <2>3 DEF TypeOK
<1>2. CheckedInv
  BY DEF CheckedInv, ToSet
<1>3. DetailsInv
  BY DEF DetailsInv, DetailsOf, ToSet
<1>4. Lists(req) = {1} /\ req[1].arg = 1
  BY RequestKinds DEF Lists
<1>5. PageInv
  BY <1>4 DEF PageInv, AsksFor, Newest
<1>6. BoxesInv
  BY <1>4 DEF BoxesInv, ToSet
<1>7. NoEmptyAction
  BY DEF NoEmptyAction
<1> QED
  BY <1>1, <1>2, <1>3, <1>5, <1>6, <1>7 DEF ListInv

LEMMA ListStep == ListInv /\ [Next]_vars => ListInv'
BY TypeStep, CheckedStep, DetailsStep, PageStep, BoxesStep, ButtonsStep DEF ListInv

\* The state of a page with check boxes keeps its shape, and its buttons are
\* its panel's, for any number of rows, pages, clicks and requests in flight.
THEOREM TypeCorrect == Spec => []TypeOK
<1>1. ListInv => TypeOK
  BY DEF ListInv
<1> QED
  BY <1>1, ListInit, ListStep, PTL DEF Spec

\* However answers of multiCheckList's detail requests, refreshes, page changes
\* and clicks interleave, a detail is shown for checked rows only, and once
\* nothing is in flight for each of them exactly once, unless a request failed
\* or was sent twice at a time.
THEOREM DetailsFollowBoxes == Spec => []DetailsMatchChecked
<1>1. ListInv => DetailsMatchChecked
  <2> SUFFICES ASSUME ListInv PROVE DetailsMatchChecked
    OBVIOUS
  <2>1. \A i \in Id : det[i] > 0 => i \in ToSet(chk)
    BY DEF ListInv, CheckedInv
  <2>2. ASSUME InFlight(Updates) = {}, hist \cap {"failed", "again"} = {}, NEW i \in ToSet(chk)
        PROVE  det[i] = 1
    <3>1. OneDetail(req, i, det[i])
      BY <2>2 DEF ListInv, DetailsInv, DetailsOf
    <3>2. \A n : ~Asks(req, n, i)
      BY <2>2 DEF InFlight, Updates, Asks
    <3> QED
      BY <3>1, <3>2 DEF OneDetail
  <2> QED
    BY <2>1, <2>2 DEF DetailsMatchChecked
<1> QED
  BY <1>1, ListInit, ListStep, PTL DEF Spec

\* Once no list is in flight the table is the page of c_pagenate.current_page
\* and the next arrow is right, whatever pages were turned to or typed while
\* lists were on their way, unless a list failed or was overtaken by a later one.
THEOREM PageFollowsPager == Spec => []PageIsCurrent
<1>1. ListInv => PageIsCurrent
  BY DEF ListInv, PageInv, PageIsCurrent, Lists, InFlight
<1> QED
  BY <1>1, ListInit, ListStep, PTL DEF Spec

\* Once no list is in flight the ticked boxes are exactly the checked rows that
\* the table shows, through refreshes, page changes and answers in any order;
\* and they are all of the checked rows unless the server's rows changed, a box
\* was clicked while a list was on its way, or a list was overtaken.
THEOREM BoxesFollowList == Spec => []BoxesMatchList
<1>1. ListInv => BoxesMatchList
  <2> SUFFICES ASSUME ListInv, InFlight({"list"}) = {}, "failed" \notin hist
               PROVE  /\ dom = ToSet(chk) \cap DOMAIN rows
                      /\ \/ ToSet(chk) \subseteq DOMAIN rows
                         \/ changes > 0
                         \/ hist \cap {"late_click", "overtaken"} # {}
    BY DEF BoxesMatchList
  <2>1. Lists(req) = {}
    BY DEF Lists, InFlight
  <2>2. dom \subseteq ToSet(chk) /\ ToSet(chk) \cap DOMAIN rows \subseteq dom /\ dom \subseteq DOMAIN rows
    BY <2>1 DEF ListInv, CheckedInv, BoxesInv, TypeOK
  <2>3. changes > 0 \/ changes = 0
    BY DEF ListInv, TypeOK
  <2>4. ASSUME changes = 0, hist \cap {"late_click", "overtaken"} = {} PROVE ToSet(chk) \subseteq DOMAIN rows
    <3>1. hist \cap {"failed", "overtaken", "late_click"} = {}
      BY <2>4
    <3> QED
      BY <2>1, <2>4, <3>1 DEF ListInv, BoxesInv
  <2> QED
    BY <2>2, <2>3, <2>4
<1> QED
  BY <1>1, ListInit, ListStep, PTL DEF Spec

\* No dialog button is enabled over an empty selection: changeButtonState and
\* the subscriptions to change_pagenate see to it, but for the two places that
\* the property names.
THEOREM NoButtonForNothing == Spec => []NoEmptyAction
<1>1. ListInv => NoEmptyAction
  BY DEF ListInv
<1> QED
  BY <1>1, ListInit, ListStep, PTL DEF Spec

=============================================================================
