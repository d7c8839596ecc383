---------------------------- MODULE IpAllocation ----------------------------
(***************************************************************************)
(* Leasing the IPv4 addresses of one network: the search of                *)
(* scheduler/ip_address/incremental.rb over the DHCP ranges of the network *)
(* (models/dhcp_range.rb, models/ip_lease.rb), the leases it creates       *)
(* (models/network_vif_ip_lease.rb) and their release                      *)
(* (models/network_vif.rb), fixed addresses                                *)
(* (scheduler/ip_address/specify_ip.rb), and adding and deleting ranges    *)
(* (models/network.rb).                                                    *)
(*                                                                         *)
(* Addresses are 0 .. Broadcast, 0 being the network address.  A lease is  *)
(* made in a transaction of its own: it reads, and commits later, when the *)
(* unique index of ip_leases on (network_id, ipv4) decides.  The lookups   *)
(* in ip_leases that have no ORDER BY return rows in index order.          *)
(*                                                                         *)
(* A released lease is only marked as deleted and stays with its vif: each *)
(* later release of the vif (it is detached, stopped, terminated) destroys *)
(* it again, and with it the row that ip_leases has for its address now.   *)
(***************************************************************************)
EXTENDS Integers, Sequences, FiniteSets, FiniteSetsExt, SequencesExt

CONSTANTS
    Broadcast,      \* the broadcast address
    Service,        \* gateway, DNS, DHCP and metadata server addresses
    Vif,            \* network interfaces; one transaction of each may be open
    Manual,         \* whether instances may ask for a fixed address
    MaxRanges,      \* bound: DHCP ranges of the network
    MaxDeleted,     \* bound: deleted leases, two of one vif with one address count once
    None            \* nil

ASSUME IpConstants ==
    /\ Broadcast \in Nat \ {0}
    /\ Service \subseteq 1 .. Broadcast - 1
    /\ Manual \in BOOLEAN
    /\ MaxRanges \in Nat
    /\ MaxDeleted \in Nat
    /\ None \notin 0 .. Broadcast

VARIABLES
    order,      \* networks.ip_assignment
    ranges,     \* dhcp_ranges: pairs <<range_begin, range_end>>
    leased,     \* ip_leases: the addresses in use
    auto,       \* live leases with alloc_type auto, in the order of their ids
    past,       \* the addresses of the deleted leases of each vif
    struck,     \* history: vifs whose lease lost its row to another vif's release
    tx          \* what each transaction has read and is about to insert

vars == <<order, ranges, leased, auto, past, struck, tx>>

Addr == 0 .. Broadcast
NoTx == [addr |-> None, reserved |-> {}]

\* Network#reserved_ip?
reserved_ip(a) == a \in {0, Broadcast} \cup Service

Init ==
    /\ order \in {"asc", "desc"}
    /\ ranges = {}
    /\ leased = {}
    /\ auto = <<>>
    /\ past = [v \in Vif |-> {}]
    /\ struck = {}
    /\ tx = [v \in Vif |-> NoTx]

(***************************************************************************)
(* The search                                                              *)
(***************************************************************************)

\* IpLease.leased_ip_bound_lease: leased addresses of the window from .. to
\* that have no leased neighbour in it, below (prev) or above (follow).
window(ls, from, to) == ls \cap (from .. to)
has_prev(ls, a, from, to) == a - 1 \in window(ls, from, to)
has_follow(ls, a, from, to) == a + 1 \in window(ls, from, to)
leased_ip_bound_lease(ls, from, to) ==
    {a \in window(ls, from, to) : ~has_prev(ls, a, from, to) \/ ~has_follow(ls, a, from, to)}

\* DhcpRange#get_assignment_ip: b holds the first two boundaries in the
\* direction of the search, which starts at first and ends at last.
get_assignment_ip_NoEdge(b, ls, first, last) ==
    LET step == IF first <= last THEN 1 ELSE -1
        lo == Min({first, last})
        hi == Max({first, last})
        before(a) == a - step \in window(ls, lo, hi)
        after(a)  == a + step \in window(ls, lo, hi)
        ends == {i \in DOMAIN b : ~after(b[i]) /\ (i = 2 => after(b[1]))}
    IN IF b = <<>> THEN first
       ELSE IF ~before(b[1]) /\ b[1] # first THEN first
       ELSE IF ends = {} THEN None
       ELSE b[Min(ends)] + step
get_assignment_ip(b, ls, first, last) ==
    LET step == IF first <= last THEN 1 ELSE -1
        lo == Min({first, last})
        hi == Max({first, last})
        before(a) == a - step \in window(ls, lo, hi)
        after(a)  == a + step \in window(ls, lo, hi)
        ends == {i \in DOMAIN b : ~after(b[i]) /\ (i = 2 => after(b[1]))}
    IN IF b = <<>> THEN first
       ELSE IF ~before(b[1]) /\ b[1] # first THEN first
       ELSE IF ends = {} \/ b[Min(ends)] = last THEN None
       ELSE b[Min(ends)] + step

\* DhcpRange#available_ip: the rows in the direction of the search, at most two.
nearest(s) == IF order = "asc" THEN Min(s) ELSE Max(s)
first_two(s) ==
    LET one == nearest(s)
        two == nearest(s \ {one})
    IN CASE s = {}     -> <<>>
         [] s = {one}  -> <<one>>
         [] OTHER      -> <<one, two>>
available_ip(ls, from, to) ==
    LET b == first_two(leased_ip_bound_lease(ls, from, to))
    IN IF order = "asc" THEN get_assignment_ip(b, ls, from, to)
                        ELSE get_assignment_ip(b, ls, to, from)

\* The search has found ip in the window f .. t, ls being leased.  While ip is
\* an address that can not be used, it is leased as reserved and the search
\* goes on behind it.
at_ip(ls, f, t) == [ls |-> ls, f |-> f, t |-> t, ip |-> available_ip(ls, f, t)]
skip_reserved(s) ==
    IF s.ip = None \/ ~reserved_ip(s.ip) THEN s
    ELSE IF order = "asc" THEN at_ip(s.ls \cup {s.ip}, s.ip, s.t)
                          ELSE at_ip(s.ls \cup {s.ip}, s.f, s.ip)
search_range(ls, f, t) ==
    LET it[n \in 0 .. Cardinality(Service) + 2] ==
            IF n = 0 THEN at_ip(ls, f, t) ELSE skip_reserved(it[n - 1])
    IN it[Cardinality(Service) + 2]

\* Incremental#get_lease_address: the ranges that meet from .. to, in order,
\* until one has an address.
containing_range(from, to) == {r \in ranges : r[2] >= from /\ r[1] <= to}
first_range(rs) == CHOOSE r \in rs : \A s \in rs : IF order = "asc" THEN r[1] <= s[1]
                                                                   ELSE r[2] >= s[2]
each_range(s, from, to) ==
    LET r == first_range(s.left)
        found == search_range(s.ls, Max({from, r[1]}), Min({to, r[2]}))
    IN IF s.ip # None \/ s.left = {} THEN s
       ELSE [ls |-> found.ls, ip |-> found.ip, left |-> s.left \ {r}]
get_lease_address(ls, from, to) ==
    LET rs == containing_range(from, to)
        it[n \in 0 .. Cardinality(rs)] ==
            IF n = 0 THEN [ls |-> ls, ip |-> None, left |-> rs]
                     ELSE each_range(it[n - 1], from, to)
    IN it[Cardinality(rs)]

\* Incremental#schedule: on from the newest live auto lease, then from the
\* other end.
wrapped(ls, from, to) == get_lease_address(ls, from, to)
lease_address ==
    LET n == Len(auto)
        up == <<IF n = 0 THEN 0 ELSE auto[n].addr, Broadcast>>
        dn == <<0, IF n = 0 THEN Broadcast ELSE auto[n].addr>>
        ahead == IF order = "asc" THEN up ELSE dn
        behind == IF order = "asc" THEN dn ELSE up
        one == get_lease_address(leased, ahead[1], ahead[2])
    IN IF one.ip # None THEN one ELSE wrapped(one.ls, behind[1], behind[2])

(***************************************************************************)
(* Transactions                                                            *)
(***************************************************************************)

\* NetworkVif#direct_ip_lease: the live lease of v. NetworkVif#lease_ip_lease
\* asks the scheduler for one only when there is none.
direct_ip_lease(v) == {i \in DOMAIN auto : auto[i].vif = v}
lease_ip_lease(v) == tx[v] = NoTx /\ direct_ip_lease(v) = {}

\* Incremental#schedule up to the insert.  When no address is left it raises
\* OutOfIpRange and the rows of the reserved addresses are rolled back.
schedule(v) ==
    /\ lease_ip_lease(v)
    /\ LET found == lease_address IN
       /\ found.ip # None
       /\ tx' = [tx EXCEPT ![v] = [addr |-> found.ip, reserved |-> found.ls \ leased]]
    /\ UNCHANGED <<order, ranges, leased, auto, past, struck>>

\* SpecifyIP#schedule: the address must be in a range and free.
specify_ip(v, a) ==
    /\ Manual
    /\ lease_ip_lease(v)
    /\ \E r \in ranges : r[1] <= a /\ a <= r[2]
    /\ a \notin leased
    /\ tx' = [tx EXCEPT ![v] = [addr |-> a, reserved |-> {}]]
    /\ UNCHANGED <<order, ranges, leased, auto, past, struck>>

\* NetworkVifIpLease.create and the commit: a duplicate address fails.
insertable_NoIndex(rows) == TRUE
insertable(rows) == rows \cap leased = {}
commit(v) ==
    LET rows == {tx[v].addr} \cup tx[v].reserved IN
    /\ tx[v] # NoTx
    /\ tx' = [tx EXCEPT ![v] = NoTx]
    /\ IF insertable(rows)
       THEN leased' = leased \cup rows /\ auto' = Append(auto, [vif |-> v, addr |-> tx[v].addr])
       ELSE UNCHANGED <<leased, auto>>
    /\ UNCHANGED <<order, ranges, past, struck>>

\* NetworkVif#release_ip_lease: every lease the vif ever had, deleted ones
\* included, is destroyed, and its address is deleted from ip_leases.
leases_of(v) == past[v] \cup {auto[i].addr : i \in direct_ip_lease(v)}
deleted(p) == {d \in Vif \X Addr : d[2] \in p[d[1]]}
destroy_leases(v) ==
    /\ past' = [past EXCEPT ![v] = leases_of(v)]
    /\ Cardinality(deleted(past')) <= MaxDeleted
    /\ IF direct_ip_lease(v) = {} THEN UNCHANGED auto
       ELSE \E i \in direct_ip_lease(v) : auto' = RemoveAt(auto, i)
release_KeepRow(v) ==
    /\ leases_of(v) # {}
    /\ destroy_leases(v)
    /\ UNCHANGED <<order, ranges, leased, struck, tx>>
release(v) ==
    /\ leases_of(v) # {}
    /\ destroy_leases(v)
    /\ leased' = leased \ leases_of(v)
    /\ struck' = {u \in Vif \ {v} : \/ u \in struck
                                    \/ \E i \in direct_ip_lease(u) : auto[i].addr \in leases_of(v)}
    /\ UNCHANGED <<order, ranges, tx>>

\* Network#add_ipv4_dynamic_range, del_ipv4_dynamic_range; DhcpRange#validate
hit_ranges(b, e) == {r \in ranges : \E a \in {b, e} : r[1] <= a /\ a <= r[2]}
add_ipv4_dynamic_range(b, e) ==
    /\ Cardinality(ranges) < MaxRanges
    /\ b <= e
    /\ 0 < b /\ e < Broadcast
    /\ hit_ranges(b, e) = {}
    /\ ranges' = ranges \cup {<<b, e>>}
    /\ UNCHANGED <<order, leased, auto, past, struck, tx>>
del_ipv4_dynamic_range(r) ==
    /\ ranges' = ranges \ {r}
    /\ UNCHANGED <<order, leased, auto, past, struck, tx>>

Next ==
    \/ \E v \in Vif : \/ schedule(v)
                      \/ \E a \in Addr : specify_ip(v, a)
                      \/ commit(v)
                      \/ release(v)
    \/ \E b, e \in Addr : add_ipv4_dynamic_range(b, e)
    \/ \E r \in ranges : del_ipv4_dynamic_range(r)

Spec == Init /\ [][Next]_vars

(***************************************************************************)
(* Properties                                                              *)
(***************************************************************************)

\* Ranges, rows, leases and transactions have their types.
TypeOK ==
    /\ order \in {"asc", "desc"}
    /\ ranges \subseteq (Addr \X Addr)
    /\ leased \subseteq Addr
    /\ auto \in Seq([vif : Vif, addr : Addr])
    /\ past \in [Vif -> SUBSET Addr]
    /\ struck \subseteq Vif
    /\ tx \in [Vif -> [addr : Addr \cup {None}, reserved : SUBSET Addr]]

usable == {a \in Addr : /\ \E r \in ranges : r[1] <= a /\ a <= r[2]
                        /\ a \notin leased
                        /\ ~reserved_ip(a)}
newest == IF auto = <<>> THEN IF order = "asc" THEN 0 ELSE Broadcast ELSE auto[Len(auto)].addr
ahead == {a \in usable : IF order = "asc" THEN a >= newest ELSE a <= newest}
first(s) == IF s = {} THEN None ELSE nearest(s)

\* The search over boundaries, ranges and reserved addresses finds exactly what
\* "the next usable address after the newest one, cyclically" means: an address
\* in a range, free, not a service address, and None only when there is none.
SearchIsNextUsable ==
    lease_address.ip = IF ahead # {} THEN first(ahead) ELSE first(usable)

\* Two transactions may have found the same address, and vifs are released and
\* lease again at any time: a live lease has its row in ip_leases and its address
\* alone, unless the row was deleted when a vif that had the address before was
\* released again. Of two live leases of one address at most one kept its row.
NoAddressTwice ==
    /\ \A i \in DOMAIN auto : auto[i].vif \in struck \/ auto[i].addr \in leased
    /\ \A i, j \in DOMAIN auto :
          auto[i].addr = auto[j].addr => i = j \/ auto[i].vif \in struck \/ auto[j].vif \in struck

\* A row in ip_leases is the row of a live lease or of a service address: a
\* release, a lost race or an exhausted range leave no address blocked.
NothingBlocked == \A a \in leased : reserved_ip(a) \/ \E i \in DOMAIN auto : auto[i].addr = a
=============================================================================
