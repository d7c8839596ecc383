------------------------- MODULE IpAllocationProofs -------------------------
(***************************************************************************)
(* For a network of any size, any service addresses, ranges and number of  *)
(* transactions: the search over boundary rows, ranges and reserved        *)
(* addresses finds the next usable address, an address is leased twice     *)
(* only after a repeated release, and no row of ip_leases is left behind.  *)
(*                                                                         *)
(* The loops of the search are recursive functions; what they compute is   *)
(* proved by least counterexamples (Least, Loop and LoopInv below).        *)
(***************************************************************************)
EXTENDS IpAllocation, FiniteSetTheorems, TLAPS

(***************************************************************************)
(* Least elements and loops                                                *)
(***************************************************************************)
LEMMA Least ==
  ASSUME NEW T \in SUBSET Nat, T # {}
  PROVE  \E n \in T : \A m \in T : n <= m
<1>1. IsWellFoundedOn(OpToRel(<, Nat), Nat)
  BY NatLessThanWellFounded
<1>2. PICK n \in T : \A m \in T : ~(<<m, n>> \in OpToRel(<, Nat))
  BY <1>1, WFMin
<1>3. \A m \in T : ~(m < n)
  BY <1>2 DEF OpToRel
<1> QED
  BY <1>3

LEMMA Greatest ==
  ASSUME NEW k \in Nat, NEW T \in SUBSET (0 .. k), T # {}
  PROVE  \E n \in T : \A m \in T : m <= n
<1> DEFINE D == {n \in Nat : k - n \in T}
<1>1. D # {}
  <2>1. PICK n \in T : TRUE
    OBVIOUS
  <2>2. k - n \in Nat /\ k - (k - n) = n
    OBVIOUS
  <2> QED
    BY <2>1, <2>2
<1>2. PICK d \in D : \A m \in D : d <= m
  BY <1>1, Least
<1>3. ASSUME NEW m \in T PROVE m <= k - d
  <2>1. k - m \in D
    <3>1. k - m \in Nat /\ k - (k - m) = m
      OBVIOUS
    <3> QED
      BY <3>1
  <2>2. d \in Nat /\ d <= k - m
    BY <1>2, <2>1
  <2> QED
    BY <2>2
<1>4. k - d \in T
  BY <1>2
<1> QED
  BY <1>3, <1>4

\* A loop that runs N times from x on: step maps the states X to themselves.
IsRun(h, N, X, x, step) ==
    h \in [0 .. N -> X] /\ h[0] = x /\ \A n \in 1 .. N : h[n] = step[h[n - 1]]

LEMMA Loop ==
  ASSUME NEW N \in Nat, NEW X, NEW x \in X, NEW step \in [X -> X]
  PROVE  \E h : IsRun(h, N, X, x, step)
<1> DEFINE Runs(h, k) == h[0] = x /\ \A n \in 1 .. k : h[n] = step[h[n - 1]]
           Bad == {k \in Nat : ~\E h \in [0 .. k -> X] : Runs(h, k)}
<1> SUFFICES ASSUME Bad # {} PROVE FALSE
  BY DEF IsRun
<1>1. PICK k \in Bad : \A m \in Bad : k <= m
  <2>1. Bad \in SUBSET Nat
    OBVIOUS
  <2> HIDE DEF Bad
  <2> QED
    BY <2>1, Least
<1>2. k # 0
  <2>1. SUFFICES ASSUME k = 0 PROVE FALSE
    OBVIOUS
  <2> DEFINE h == [n \in 0 .. 0 |-> x]
  <2>2. h \in [0 .. 0 -> X] /\ Runs(h, 0)
    OBVIOUS
  <2> HIDE DEF h
  <2> QED
    BY <2>1, <2>2
<1>3. k - 1 \in Nat /\ k - 1 \notin Bad
  <2>1. k \in Nat /\ k - 1 \in Nat /\ ~(k <= k - 1)
    BY <1>1, <1>2
  <2> HIDE DEF Bad
  <2> QED
    BY <2>1, <1>1
<1>4. PICK g \in [0 .. k - 1 -> X] : Runs(g, k - 1)
  BY <1>3
<1> DEFINE h == [n \in 0 .. k |-> IF n = k THEN step[g[k - 1]] ELSE g[n]]
<1>5. k - 1 \in 0 .. k - 1 /\ \A n \in 0 .. k : n # k => n \in 0 .. k - 1
  BY <1>3
<1>6. h \in [0 .. k -> X]
  BY <1>5
<1>7. h[0] = x
  BY <1>2, <1>3, <1>4
<1>8. ASSUME NEW n \in 1 .. k PROVE h[n] = step[h[n - 1]]
  <2>1. n - 1 \in 0 .. k - 1 /\ n - 1 \in 0 .. k /\ n - 1 # k /\ n \in 0 .. k
    BY <1>3
  <2>2. h[n - 1] = g[n - 1]
    BY <2>1
  <2>3. CASE n = k
    BY <2>1, <2>2, <2>3
  <2>4. CASE n # k
    <3>1. n \in 1 .. k - 1
      BY <1>3, <2>4
    <3>2. g[n] = step[g[n - 1]]
      BY <1>4, <3>1
    <3> QED
      BY <2>1, <2>2, <2>4, <3>2
  <2> QED
    BY <2>3, <2>4
<1>9. Runs(h, k)
  BY <1>7, <1>8
<1> QED
  BY <1>1, <1>6, <1>9

\* What holds at the start and is kept by each round holds after every round.
LEMMA LoopInv ==
  ASSUME NEW N \in Nat, NEW S, 0 \in S, \A n \in 1 .. N : n - 1 \in S => n \in S
  PROVE  \A n \in 0 .. N : n \in S
<1> DEFINE Bad == (0 .. N) \ S
<1> SUFFICES ASSUME Bad # {} PROVE FALSE
  OBVIOUS
<1>1. PICK k \in Bad : \A m \in Bad : k <= m
  <2>1. Bad \in SUBSET Nat
    OBVIOUS
  <2> HIDE DEF Bad
  <2> QED
    BY <2>1, Least
<1>2. k \in 1 .. N /\ k - 1 \in 0 .. N
  BY <1>1
<1>3. k - 1 \in S
  BY <1>1, <1>2
<1> QED
  BY <1>1, <1>2, <1>3

(***************************************************************************)
(* The boundary rows of one window                                         *)
(***************************************************************************)
Orders == {"asc", "desc"}
Before(a, b) == IF order = "asc" THEN a <= b ELSE a >= b

LEMMA MinMax ==
  ASSUME NEW a \in Int, NEW b \in Int
  PROVE  /\ Min({a, b}) = IF a <= b THEN a ELSE b
         /\ Max({a, b}) = IF a <= b THEN b ELSE a
BY DEF Min, Max

LEMMA MinOne == \A a \in Int : Min({a}) = a
BY DEF Min

LEMMA NearestIs ==
  ASSUME NEW S \in SUBSET Int, NEW a \in S, \A b \in S : Before(a, b)
  PROVE  nearest(S) = a
<1>1. CASE order = "asc"
  <2>1. \A b \in S : a =< b
    BY <1>1 DEF Before
  <2>2. ASSUME NEW x \in S, \A y \in S : x =< y PROVE x = a
    <3>1. x \in Int /\ a \in Int /\ x =< a /\ a =< x
      BY <2>1, <2>2
    <3> QED
      BY <3>1
  <2>3. Min(S) = a
    BY <2>1, <2>2 DEF Min
  <2> QED
    BY <1>1, <2>3 DEF nearest
<1>2. CASE order # "asc"
  <2>1. \A b \in S : a >= b
    BY <1>2 DEF Before
  <2>2. ASSUME NEW x \in S, \A y \in S : x >= y PROVE x = a
    <3>1. x \in Int /\ a \in Int /\ x >= a /\ a >= x
      BY <2>1, <2>2
    <3> QED
      BY <3>1
  <2>3. Max(S) = a
    BY <2>1, <2>2 DEF Max
  <2> QED
    BY <1>2, <2>3 DEF nearest
<1> QED
  BY <1>1, <1>2

LEMMA Nearest ==
  ASSUME NEW S \in SUBSET Addr, S # {}
  PROVE  nearest(S) \in S /\ \A b \in S : Before(nearest(S), b)
<1>1. Broadcast \in Nat /\ S \in SUBSET Nat /\ S \in SUBSET (0 .. Broadcast)
  BY IpConstants DEF Addr
<1>2. PICK a \in S : \A b \in S : Before(a, b)
  <2>1. CASE order = "asc"
    BY <1>1, <2>1, Least DEF Before
  <2>2. CASE order # "asc"
    <3>1. PICK a \in S : \A b \in S : b <= a
      BY <1>1, Greatest
    <3>2. \A b \in S : a >= b
      BY <1>1, <3>1
    <3> QED
      BY <2>2, <3>2 DEF Before
  <2> QED
    BY <2>1, <2>2
<1> QED
  BY <1>1, <1>2, NearestIs

LEMMA FirstTwo ==
  ASSUME NEW S \in SUBSET Addr, S # {}
  PROVE  \/ S = {nearest(S)} /\ first_two(S) = <<nearest(S)>>
         \/ S # {nearest(S)} /\ first_two(S) = <<nearest(S), nearest(S \ {nearest(S)})>>
BY DEF first_two

\* The window has one address.
LEMMA AvailableOne ==
  ASSUME NEW ls \in SUBSET Addr, NEW f \in Addr
  PROVE  available_ip(ls, f, f) = IF f \in ls THEN None ELSE f
<1> DEFINE W == window(ls, f, f)
           B == leased_ip_bound_lease(ls, f, f)
<1>0. f \in Int /\ f .. f = {f} /\ Min({f, f}) = f /\ Max({f, f}) = f
  BY IpConstants, MinMax DEF Addr
<1>1. CASE f \notin ls
  <2>1. W = {} /\ B = {}
    BY <1>0, <1>1 DEF window, leased_ip_bound_lease
  <2>2. first_two(B) = <<>>
    BY <2>1 DEF first_two
  <2> QED
    BY <1>1, <2>2 DEF available_ip, get_assignment_ip
<1>2. CASE f \in ls
  <2>1. W = {f}
    BY <1>0, <1>2 DEF window
  <2>2. f + 1 \notin W /\ f - 1 \notin W
    BY <1>0, <2>1
  <2>3. B = {f}
    BY <2>1, <2>2 DEF leased_ip_bound_lease, has_prev, has_follow
  <2>4. nearest(B) = f
    BY <1>0, <2>3, MinMax DEF nearest
  <2>5. first_two(B) = <<f>>
    BY <2>3, <2>4, FirstTwo
  <2>6. get_assignment_ip(<<f>>, ls, f, f) = None
    <3> DEFINE ends == {i \in DOMAIN <<f>> : f + 1 \notin W /\ (i = 2 => f + 1 \in W)}
    <3>1. ends = {1}
      BY <2>2
    <3>2. Min(ends) = 1
      BY <3>1, MinOne
    <3>3. <<f>>[1] = f /\ <<f>> # <<>> /\ DOMAIN <<f>> = {1}
      OBVIOUS
    <3>4. {i \in DOMAIN <<f>> : f + 1 \notin W /\ (i = 2 => f + 1 \in W)}
             = {i \in DOMAIN <<f>> : <<f>>[i] + 1 \notin W /\ (i = 2 => <<f>>[1] + 1 \in W)}
      BY <3>3
    <3> QED
      BY <1>0, <2>2, <3>1, <3>2, <3>3, <3>4 DEF get_assignment_ip
  <2> QED
    BY <1>2, <2>5, <2>6 DEF available_ip
<1> QED
  BY <1>1, <1>2

\* The window has several: what get_assignment_ip makes of the first two
\* boundaries b of the leased addresses W, searching from b0 to e0.
Step == IF order = "asc" THEN 1 ELSE -1
Begin(f, t) == IF order = "asc" THEN f ELSE t
End(f, t) == IF order = "asc" THEN t ELSE f
Ends(b, W) == {i \in DOMAIN b : ~(b[i] + Step \in W) /\ (i = 2 => b[1] + Step \in W)}
Assignment(b, W, b0, e0) ==
    IF b = <<>> THEN b0
    ELSE IF ~(b[1] - Step \in W) /\ b[1] # b0 THEN b0
    ELSE IF Ends(b, W) = {} \/ b[Min(Ends(b, W))] = e0 THEN None
    ELSE b[Min(Ends(b, W))] + Step

LEMMA Assigned ==
  ASSUME NEW ls \in SUBSET Addr, NEW f \in Addr, NEW t \in Addr, f < t, order \in Orders
  PROVE  available_ip(ls, f, t) = Assignment(first_two(leased_ip_bound_lease(ls, f, t)),
                                             window(ls, f, t), Begin(f, t), End(f, t))
<1>0. f \in Int /\ t \in Int /\ f <= t /\ ~(t <= f)
  BY IpConstants DEF Addr
<1>1. CASE order = "asc"
  <2>1. Min({f, t}) = f /\ Max({f, t}) = t
    BY <1>0, MinMax
  <2> QED
    BY <1>0, <1>1, <2>1 DEF available_ip, get_assignment_ip, Assignment, Ends, Step, Begin, End
<1>2. CASE order = "desc"
  <2>1. Min({t, f}) = f /\ Max({t, f}) = t
    BY <1>0, MinMax
  <2> QED
    BY <1>0, <1>2, <2>1 DEF available_ip, get_assignment_ip, Assignment, Ends, Step, Begin, End
<1> QED
  BY <1>1, <1>2 DEF Orders

\* Each way of naming the nearest free address.
LEMMA FirstFree ==
  ASSUME NEW F \in SUBSET Addr, NEW a \in F, \A b \in F : Before(a, b)
  PROVE  first(F) = a
<1>1. F \in SUBSET Int
  BY IpConstants DEF Addr
<1> QED
  BY <1>1, NearestIs DEF first

\* available_ip finds the nearest address of the window that is not leased.
LEMMA Available ==
  ASSUME NEW ls \in SUBSET Addr, NEW f \in Addr, NEW t \in Addr, f <= t, order \in Orders
  PROVE  available_ip(ls, f, t) = first((f .. t) \ ls)
<1> DEFINE F == (f .. t) \ ls
           W == window(ls, f, t)
           B == leased_ip_bound_lease(ls, f, t)
           b0 == Begin(f, t)
           e0 == End(f, t)
           b == first_two(B)
           ends == Ends(b, W)
<1>0. /\ Broadcast \in Nat /\ f \in Nat /\ t \in Nat /\ f .. t \subseteq Addr
      /\ F \in SUBSET Addr /\ W \in SUBSET Addr /\ B \in SUBSET Addr
      /\ W = (f .. t) \ F /\ F = (f .. t) \ W /\ B \subseteq W
      /\ \A a \in Addr : a \in Nat
  BY IpConstants DEF Addr, window, leased_ip_bound_lease
<1>1. CASE f = t
  <2>1. f .. t = {f}
    BY <1>0, <1>1
  <2>2. f \in ls => F = {}
    BY <2>1
  <2>3. f \notin ls => F = {f}
    BY <2>1
  <2>4. F = {f} => first(F) = f
    BY <1>0, FirstFree DEF Before
  <2>5. F = {} => first(F) = None
    BY DEF first
  <2> QED
    BY <1>1, <2>2, <2>3, <2>4, <2>5, AvailableOne
<1>2. CASE f < t
  <2>0. available_ip(ls, f, t) =
               IF b = <<>> THEN b0
               ELSE IF ~(b[1] - Step \in W) /\ b[1] # b0 THEN b0
               ELSE IF ends = {} \/ b[Min(ends)] = e0 THEN None
               ELSE b[Min(ends)] + Step
    BY <1>2, Assigned DEF Assignment
  <2>a. /\ order = "asc" => b0 = f /\ e0 = t /\ Step = 1
        /\ order = "desc" => b0 = t /\ e0 = f /\ Step = -1
        /\ order = "asc" \/ order = "desc"
        /\ b0 \in f .. t /\ e0 \in f .. t /\ Step \in Int
    BY <1>0 DEF Orders, Begin, End, Step
  <2>b. B = {a \in W : ~(a - Step \in W) \/ ~(a + Step \in W)}
    BY <1>0, <2>a DEF leased_ip_bound_lease, has_prev, has_follow
  <2>d. B # {} => \/ b = <<nearest(B)>>
                  \/ b = <<nearest(B), nearest(B \ {nearest(B)})>>
    BY <1>0, FirstTwo
  <2>e. b # <<>> => 1 \in DOMAIN b /\ DOMAIN b \subseteq {1, 2} /\ ends = {i \in DOMAIN b : ~(b[i] + Step \in W) /\ (i = 2 => b[1] + Step \in W)}
    BY <1>0, <2>d DEF Ends, first_two
  <2> HIDE DEF b0, e0, F, W, B, b, ends
  <2>c. \A a \in f .. t : Before(b0, a) /\ Before(a, e0)
    BY <1>0, <2>a DEF Before
  <2>1. CASE b0 \in F
    <3>1. first(F) = b0
      BY <1>0, <2>c, <2>1, FirstFree
    <3>2. CASE W = {}
      <4>1. b = <<>>
        BY <1>0, <3>2 DEF first_two, b
      <4> QED
        BY <2>0, <3>1, <4>1 DEF F
    <3>3. CASE W # {}
      <4>1. PICK p \in W : p = nearest(W) /\ \A a \in W : Before(p, a)
        BY <1>0, <3>3, Nearest
      <4>2. ~(p - Step \in W) /\ p # b0
        BY <1>0, <2>1, <2>a, <4>1 DEF Before
      <4>3. p \in B
        BY <4>1, <4>2, <2>b
      <4>4. nearest(B) = p
        <5>1. B \in SUBSET Int /\ \A a \in B : Before(p, a)
          BY <1>0, <4>1
        <5> QED
          BY <4>3, <5>1, NearestIs
      <4>5. b # <<>> /\ b[1] = p
        BY <4>3, <4>4, <2>d
      <4> QED
        BY <2>0, <3>1, <4>2, <4>5 DEF F
    <3> QED
      BY <3>2, <3>3
  <2>2. CASE b0 \in W
    <3>1. \A a \in W : Before(b0, a)
      BY <1>0, <2>c
    <3>2. ~(b0 - Step \in W) /\ b0 \in B
      BY <1>0, <2>2, <2>a, <2>b, <3>1 DEF Before
    <3>3. nearest(B) = b0
      <4>1. B \in SUBSET Int /\ \A a \in B : Before(b0, a)
        BY <1>0, <3>1
      <4> QED
        BY <3>2, <4>1, NearestIs
    <3>4. b # <<>> /\ b[1] = b0 /\ 1 \in DOMAIN b
      BY <2>d, <2>e, <3>2, <3>3
    <3>5. available_ip(ls, f, t) = IF ends = {} \/ b[Min(ends)] = e0 THEN None ELSE b[Min(ends)] + Step
      BY <2>0, <3>4
    <3> DEFINE RunEnds(e) == /\ e \in W /\ ~(e + Step \in W)
                             /\ \A a \in f .. t : Before(a, e) => a \in W
                             /\ ends # {} /\ b[Min(ends)] = e
    <3>6. ASSUME NEW e, RunEnds(e)
          PROVE  available_ip(ls, f, t) = first(F)
      <4>1. CASE e = e0
        <5>1. F = {}
          BY <1>0, <2>c, <3>6, <4>1
        <5> QED
          BY <3>5, <3>6, <4>1, <5>1 DEF first, F
      <4>2. CASE e # e0
        <5>1. e + Step \in F /\ \A a \in F : Before(e + Step, a)
          BY <1>0, <2>a, <2>c, <3>6, <4>2 DEF Before
        <5>2. first(F) = e + Step
          BY <1>0, <5>1, FirstFree
        <5> QED
          BY <3>5, <3>6, <4>2, <5>2 DEF F
      <4> QED
        BY <4>1, <4>2
    <3>7. CASE ~(b0 + Step \in W)
      <4>1. \A a \in f .. t : Before(a, b0) => a \in W
        BY <1>0, <2>a, <2>2 DEF Before
      <4>2. ends = {1}
        BY <3>4, <3>7, <2>e
      <4>3. Min(ends) = 1
        BY <4>2, MinOne
      <4> QED
        <5>1. ends # {} /\ b[Min(ends)] = b0
          BY <3>4, <4>2, <4>3
        <5>2. RunEnds(b0)
          BY <2>2, <3>7, <4>1, <5>1
        <5> HIDE DEF RunEnds
        <5> QED
          BY <3>6, <5>2 DEF F
    <3>8. CASE b0 + Step \in W
      <4> DEFINE E == {a \in W : ~(a + Step \in W)}
      <4>1. E # {} /\ E \in SUBSET Addr
        <5>1. PICK x \in W : \A a \in W : Before(a, x)
          <6>1. CASE order = "asc"
            <7>1. W \in SUBSET (0 .. Broadcast)
              BY <1>0 DEF Addr
            <7>2. PICK x \in W : \A a \in W : a <= x
              BY <1>0, <7>1, <2>2, Greatest
            <7> QED
              BY <6>1, <7>2 DEF Before
          <6>2. CASE order = "desc"
            <7>1. W \in SUBSET Nat
              BY <1>0
            <7>2. PICK x \in W : \A a \in W : x <= a
              BY <1>0, <7>1, <2>2, Least
            <7>3. \A a \in W : a >= x
              BY <7>1, <7>2
            <7> QED
              BY <6>2, <7>3 DEF Before
          <6> QED
            BY <6>1, <6>2, <2>a
        <5>2. ~(x + Step \in W)
          BY <1>0, <2>a, <5>1 DEF Before
        <5> QED
          BY <1>0, <5>2
      <4>2. PICK e \in E : \A a \in E : Before(e, a)
        BY <4>1, Nearest
      <4>3. e \in W /\ ~(e + Step \in W) /\ e # b0
        BY <3>8, <4>2
      <4>a. \A a \in W : ~(a + Step \in W) => a \in E
        OBVIOUS
      <4> HIDE DEF E
      <4>4. ASSUME NEW a \in f .. t, Before(a, e) PROVE a \in W
        <5> DEFINE G == {x \in f .. t : Before(x, e) /\ x \notin W}
        <5>1. SUFFICES ASSUME a \notin W PROVE FALSE
          OBVIOUS
        <5>2. G # {} /\ G \in SUBSET Addr
          BY <1>0, <4>4, <5>1
        <5>3. PICK g \in G : \A x \in G : Before(g, x)
          BY <5>2, Nearest
        <5>4. g \in f .. t /\ Before(g, e) /\ g \notin W /\ g # b0
          BY <2>2
        <5>5. /\ g - Step \in f .. t /\ Before(g - Step, e) /\ ~Before(g, g - Step)
              /\ g - Step \in Int /\ (g - Step) + Step = g
          BY <1>0, <2>a, <5>4, <4>3 DEF Before
        <5>6. g - Step \in W
          BY <5>3, <5>5
        <5>7. g - Step \in E
          BY <4>a, <5>4, <5>5, <5>6
        <5>8. Before(e, g - Step)
          BY <4>2, <5>7
        <5> QED
          BY <1>0, <2>a, <5>4, <5>5, <5>8, <4>3 DEF Before
      <4>5. e \in B
        BY <4>3, <2>b
      <4>6. ASSUME NEW a \in B, a # b0 PROVE Before(e, a)
        <5>1. SUFFICES ASSUME ~Before(e, a) PROVE FALSE
          OBVIOUS
        <5>2. a \in W /\ a \in f .. t /\ e \in f .. t
          BY <1>0, <4>3
        <5>3. /\ a - Step \in f .. t /\ Before(a - Step, e)
              /\ a + Step \in f .. t /\ Before(a + Step, e)
          BY <1>0, <2>a, <4>6, <5>1, <5>2 DEF Before
        <5>4. a - Step \in W /\ a + Step \in W
          BY <4>4, <5>3
        <5> QED
          BY <2>b, <5>4
      <4>7. nearest(B \ {b0}) = e
        <5>1. B \ {b0} \in SUBSET Int /\ e \in B \ {b0} /\ \A a \in B \ {b0} : Before(e, a)
          <6>1. B \ {b0} \in SUBSET Int
            <7>1. \A a \in B : a \in Int
              BY <1>0
            <7> QED
              BY <7>1
          <6>2. e \in B \ {b0} /\ \A a \in B \ {b0} : Before(e, a)
            BY <4>3, <4>5, <4>6
          <6> QED
            BY <6>1, <6>2
        <5> QED
          BY <5>1, NearestIs
      <4>8. b = <<b0, e>>
        <5>1. B # {b0} /\ B # {}
          BY <4>3, <4>5
        <5> QED
          BY <1>0, <3>3, <4>7, <5>1, FirstTwo DEF b
      <4>9. ends = {2}
        <5>1. b[1] = b0 /\ b[2] = e /\ DOMAIN b = {1, 2}
          BY <4>8
        <5> QED
          BY <2>e, <3>4, <3>8, <4>3, <5>1
      <4>10. ends # {} /\ b[Min(ends)] = e
        BY <4>8, <4>9, MinOne
      <4> QED
        <5>1. RunEnds(e)
          BY <4>3, <4>4, <4>10
        <5> HIDE DEF RunEnds
        <5> QED
          BY <3>6, <5>1 DEF F
    <3> QED
      BY <3>7, <3>8
  <2> QED
    BY <1>0, <2>a, <2>1, <2>2 DEF F
<1> QED
  BY <1>0, <1>1, <1>2

(***************************************************************************)
(* The reserved addresses of one range                                     *)
(***************************************************************************)
Reserved == {0, Broadcast} \cup Service
Usable(ls, S) == {a \in S : a \notin ls /\ ~reserved_ip(a)}

LEMMA ReservedFinite ==
  /\ IsFiniteSet(Reserved) /\ Cardinality(Reserved) <= Cardinality(Service) + 2
  /\ Cardinality(Service) \in Nat /\ Cardinality(Reserved) \in Nat
<1>0. Broadcast \in Nat \ {0} /\ Service \subseteq 1 .. Broadcast - 1
  BY IpConstants
<1>1. IsFiniteSet(1 .. Broadcast - 1)
  BY <1>0, FS_Interval
<1>2. IsFiniteSet(Service)
  BY <1>0, <1>1, FS_Subset
<1>3. /\ IsFiniteSet(Service \cup {Broadcast})
      /\ Cardinality(Service \cup {Broadcast}) <= Cardinality(Service) + 1
  <2>1. Cardinality(Service) \in Nat
    BY <1>2, FS_CardinalityType
  <2> QED
    BY <1>2, <2>1, FS_AddElement
<1>4. /\ IsFiniteSet((Service \cup {Broadcast}) \cup {0})
      /\ Cardinality((Service \cup {Broadcast}) \cup {0}) <= Cardinality(Service \cup {Broadcast}) + 1
  <2>1. Cardinality(Service \cup {Broadcast}) \in Nat
    BY <1>3, FS_CardinalityType
  <2> QED
    BY <1>3, <2>1, FS_AddElement
<1>5. Reserved = (Service \cup {Broadcast}) \cup {0}
  BY DEF Reserved
<1>6. /\ Cardinality(Service) \in Nat /\ Cardinality(Service \cup {Broadcast}) \in Nat
      /\ Cardinality((Service \cup {Broadcast}) \cup {0}) \in Nat
  BY <1>2, <1>3, <1>4, FS_CardinalityType
<1> QED
  BY <1>3, <1>4, <1>5, <1>6

LEMMA FirstType ==
  ASSUME NEW F \in SUBSET Addr
  PROVE  /\ first(F) = None <=> F = {}
         /\ F # {} => first(F) \in F /\ \A b \in F : Before(first(F), b)
         /\ first(F) \in Addr \cup {None}
<1>1. None \notin Addr
  BY IpConstants DEF Addr
<1>2. CASE F = {}
  BY <1>2 DEF first
<1>3. CASE F # {}
  BY <1>1, <1>3, Nearest DEF first
<1> QED
  BY <1>2, <1>3

\* A state of the loop over the range f .. t, with ls leased before it: what
\* lies behind the window is leased, and what the loop leased is reserved.
Searching(ls, f, t) ==
    {s \in [ls : SUBSET Addr, f : Addr, t : Addr, ip : Addr \cup {None}] :
        /\ f <= s.f /\ s.f <= s.t /\ s.t <= t
        /\ ls \subseteq s.ls /\ \A a \in s.ls : a \in ls \/ reserved_ip(a)
        /\ s.ip = first((s.f .. s.t) \ s.ls)
        /\ \A a \in f .. t : a \in s.f .. s.t \/ a \in s.ls}
Stopped(s) == s.ip = None \/ ~reserved_ip(s.ip)

LEMMA SearchBegins ==
  ASSUME NEW ls \in SUBSET Addr, NEW f \in Addr, NEW t \in Addr, f <= t, order \in Orders
  PROVE  at_ip(ls, f, t) \in Searching(ls, f, t)
<1>1. (f .. t) \ ls \in SUBSET Addr /\ f <= f /\ t <= t
  BY IpConstants DEF Addr
<1>2. available_ip(ls, f, t) = first((f .. t) \ ls)
  BY Available
<1>3. first((f .. t) \ ls) \in Addr \cup {None}
  BY <1>1, FirstType
<1> QED
  BY <1>1, <1>2, <1>3 DEF at_ip, Searching

LEMMA SearchGoesOn ==
  ASSUME NEW ls \in SUBSET Addr, NEW f \in Addr, NEW t \in Addr, order \in Orders,
         NEW s \in Searching(ls, f, t)
  PROVE  /\ skip_reserved(s) \in Searching(ls, f, t)
         /\ Stopped(s) => skip_reserved(s) = s
         /\ ~Stopped(s) => /\ skip_reserved(s).ls = s.ls \cup {s.ip}
                           /\ s.ip \in Reserved \ s.ls
<1> DEFINE F == (s.f .. s.t) \ s.ls
           nf == IF order = "asc" THEN s.ip ELSE s.f
           nt == IF order = "asc" THEN s.t ELSE s.ip
           nls == s.ls \cup {s.ip}
<1>0. /\ s \in [ls : SUBSET Addr, f : Addr, t : Addr, ip : Addr \cup {None}]
      /\ f <= s.f /\ s.f <= s.t /\ s.t <= t
      /\ ls \subseteq s.ls /\ \A a \in s.ls : a \in ls \/ reserved_ip(a)
      /\ s.ip = first(F)
      /\ \A a \in f .. t : a \in s.f .. s.t \/ a \in s.ls
  BY DEF Searching
<1>1. F \in SUBSET Addr /\ Addr \subseteq Nat
  BY <1>0, IpConstants DEF Addr
<1>2. CASE Stopped(s)
  BY <1>2 DEF skip_reserved, Stopped
<1>3. CASE ~Stopped(s)
  <2> HIDE DEF F
  <2>1. s.ip # None /\ reserved_ip(s.ip)
    BY <1>3 DEF Stopped
  <2>2. s.ip \in F /\ \A b \in F : Before(s.ip, b)
    BY <1>0, <1>1, <2>1, FirstType
  <2>3. s.ip \in s.f .. s.t /\ s.ip \notin s.ls /\ s.ip \in Addr /\ s.ip \in Reserved
    BY <1>1, <2>1, <2>2 DEF F, reserved_ip, Reserved
  <2>4. nls \in SUBSET Addr /\ nf \in Addr /\ nt \in Addr /\ nf <= nt /\ f <= nf /\ nt <= t
    <3>1. nls \in SUBSET Addr /\ s.f \in Addr /\ s.t \in Addr
      BY <1>0, <2>3
    <3>2. f \in Nat /\ t \in Nat /\ s.f \in Nat /\ s.t \in Nat /\ s.ip \in Nat
      BY <1>1, <2>3, <3>1
    <3>3. f <= s.f /\ s.f <= s.t /\ s.t <= t /\ s.f <= s.ip /\ s.ip <= s.t
      BY <1>0, <2>3, <3>2
    <3> QED
      BY <2>3, <3>1, <3>2, <3>3
  <2>5. skip_reserved(s) = at_ip(nls, nf, nt)
    BY <2>1 DEF skip_reserved
  <2> HIDE DEF nls, nf, nt
  <2>6. at_ip(nls, nf, nt) \in Searching(nls, nf, nt)
    BY <2>4, SearchBegins
  <2>7. at_ip(nls, nf, nt).ls = nls /\ at_ip(nls, nf, nt).f = nf /\ at_ip(nls, nf, nt).t = nt
    BY DEF at_ip
  <2>8. \A a \in nls : a \in ls \/ reserved_ip(a)
    BY <1>0, <2>1 DEF nls
  <2>9. ASSUME NEW a \in f .. t PROVE a \in nf .. nt \/ a \in nls
    <3>1. CASE a \in s.ls
      BY <3>1 DEF nls
    <3>2. CASE a \notin s.ls
      <4>1. a \in s.f .. s.t /\ a \in F
        BY <1>0, <3>2 DEF F
      <4>2. Before(s.ip, a)
        BY <2>2, <4>1
      <4> QED
        BY <1>0, <1>1, <2>3, <4>1, <4>2 DEF Before, nf, nt
    <3> QED
      BY <3>1, <3>2
  <2>10. at_ip(nls, nf, nt) \in Searching(ls, f, t)
    <3> DEFINE r == at_ip(nls, nf, nt)
    <3>1. /\ r \in [ls : SUBSET Addr, f : Addr, t : Addr, ip : Addr \cup {None}]
          /\ r.ip = first((r.f .. r.t) \ r.ls)
      BY <2>6 DEF Searching
    <3>2. ls \subseteq nls
      BY <1>0 DEF nls
    <3> HIDE DEF r
    <3> QED
      BY <2>4, <2>7, <2>8, <2>9, <3>1, <3>2 DEF Searching, r
  <2> QED
    BY <1>3, <2>3, <2>5, <2>7, <2>10 DEF nls
<1> QED
  BY <1>2, <1>3

\* When the loop has stopped, it has found what it looked for.
LEMMA SearchFound ==
  ASSUME NEW ls \in SUBSET Addr, NEW f \in Addr, NEW t \in Addr,
         NEW s \in Searching(ls, f, t), Stopped(s)
  PROVE  s.ip = first(Usable(ls, f .. t))
<1> DEFINE F == (s.f .. s.t) \ s.ls
           U == Usable(ls, f .. t)
<1>0. /\ s \in [ls : SUBSET Addr, f : Addr, t : Addr, ip : Addr \cup {None}]
      /\ f <= s.f /\ s.f <= s.t /\ s.t <= t
      /\ ls \subseteq s.ls /\ \A a \in s.ls : a \in ls \/ reserved_ip(a)
      /\ s.ip = first(F)
      /\ \A a \in f .. t : a \in s.f .. s.t \/ a \in s.ls
  BY DEF Searching
<1>1. Addr \subseteq Nat /\ f .. t \subseteq Addr
  BY IpConstants DEF Addr
<1>2. s.f .. s.t \subseteq f .. t
  <2>1. f \in Nat /\ t \in Nat /\ s.f \in Nat /\ s.t \in Nat
    BY <1>0, <1>1
  <2> QED
    BY <1>0, <2>1
<1>3. F \in SUBSET Addr /\ U \in SUBSET Addr /\ U \subseteq F
  BY <1>0, <1>1, <1>2 DEF Usable
<1>4. \A a \in F : ~reserved_ip(a) => a \in U
  BY <1>0, <1>2 DEF Usable
<1> HIDE DEF F, U
<1>5. CASE F = {}
  <2>1. U = {}
    BY <1>3, <1>5
  <2> QED
    BY <1>0, <1>5, <2>1 DEF first, U
<1>6. CASE F # {}
  <2>1. s.ip # None /\ s.ip \in F /\ \A b \in F : Before(s.ip, b)
    BY <1>0, <1>3, <1>6, FirstType
  <2>2. s.ip \in U /\ \A b \in U : Before(s.ip, b)
    BY <1>3, <1>4, <2>1 DEF Stopped
  <2> QED
    BY <1>3, <2>2, FirstFree DEF U
<1> QED
  BY <1>5, <1>6

LEMMA SearchRange ==
  ASSUME NEW ls \in SUBSET Addr, NEW f \in Addr, NEW t \in Addr, f <= t, order \in Orders
  PROVE  /\ search_range(ls, f, t) \in Searching(ls, f, t)
         /\ search_range(ls, f, t).ip = first(Usable(ls, f .. t))
<1> DEFINE N == Cardinality(Service) + 2
           X == Searching(ls, f, t)
           step == [s \in X |-> skip_reserved(s)]
           Eq(g) == g = [n \in 0 .. N |-> IF n = 0 THEN at_ip(ls, f, t) ELSE skip_reserved(g[n - 1])]
           it == CHOOSE g : Eq(g)
<1>0. N \in Nat
  BY ReservedFinite
<1>1. search_range(ls, f, t) = it[N]
  BY DEF search_range
<1>2. at_ip(ls, f, t) \in X /\ step \in [X -> X]
  BY SearchBegins, SearchGoesOn
<1>3. Eq(it)
  <2>1. PICK h \in [0 .. N -> X] : h[0] = at_ip(ls, f, t) /\ \A n \in 1 .. N : h[n] = step[h[n - 1]]
    <3> DEFINE x == at_ip(ls, f, t)
    <3>1. x \in X
      BY <1>2
    <3> HIDE DEF N, X, step, x
    <3>2. \E h : IsRun(h, N, X, x, step)
      BY <1>0, <1>2, <3>1, Loop
    <3> QED
      BY <3>2 DEF x, IsRun
  <2>2. ASSUME NEW n \in 0 .. N
        PROVE  h[n] = IF n = 0 THEN at_ip(ls, f, t) ELSE skip_reserved(h[n - 1])
    <3>1. n # 0 => n - 1 \in 0 .. N /\ n \in 1 .. N
      BY <1>0
    <3> QED
      BY <2>1, <3>1
  <2>3. Eq(h)
    <3> HIDE DEF step
    <3> QED
      BY <2>1, <2>2
  <2> HIDE DEF Eq
  <2> QED
    BY <2>3
<1>4. /\ it[0] = at_ip(ls, f, t)
      /\ \A n \in 1 .. N : n - 1 \in 0 .. N /\ n # 0 /\ it[n] = skip_reserved(it[n - 1])
  <2>1. \A n \in 1 .. N : n - 1 \in 0 .. N /\ n # 0 /\ n \in 0 .. N
    BY <1>0
  <2>2. 0 \in 0 .. N
    BY <1>0
  <2> HIDE DEF it
  <2> QED
    BY <1>3, <2>1, <2>2
<1> HIDE DEF it, N, X, step
<1> DEFINE S == {n \in Nat : /\ it[n] \in X
                             /\ Stopped(it[n]) \/ Cardinality(it[n].ls \cap Reserved) >= n}
<1>5. 0 \in S
  <2>1. it[0] \in X
    BY <1>2, <1>4
  <2>2. IsFiniteSet(it[0].ls \cap Reserved)
    BY ReservedFinite, FS_Subset
  <2>3. Cardinality(it[0].ls \cap Reserved) \in Nat
    BY <2>2, FS_CardinalityType
  <2> QED
    BY <2>1, <2>3
<1>6. ASSUME NEW n \in 1 .. N, n - 1 \in S PROVE n \in S
  <2> DEFINE p == it[n - 1]
  <2>1. n \in Nat /\ n - 1 \in Nat /\ it[n] = skip_reserved(p) /\ p \in X
    BY <1>0, <1>4, <1>6
  <2> HIDE DEF p
  <2>2. it[n] \in X /\ (Stopped(p) => it[n] = p)
        /\ (~Stopped(p) => it[n].ls = p.ls \cup {p.ip} /\ p.ip \in Reserved \ p.ls)
    <3>1. p \in Searching(ls, f, t)
      BY <2>1 DEF X
    <3>2. /\ skip_reserved(p) \in Searching(ls, f, t)
          /\ Stopped(p) => skip_reserved(p) = p
          /\ ~Stopped(p) => skip_reserved(p).ls = p.ls \cup {p.ip} /\ p.ip \in Reserved \ p.ls
      BY <3>1, SearchGoesOn
    <3> QED
      BY <2>1, <3>2 DEF X
  <2>3. CASE Stopped(p)
    BY <2>1, <2>2, <2>3
  <2>4. CASE ~Stopped(p)
    <3>1. it[n].ls \cap Reserved = (p.ls \cap Reserved) \cup {p.ip} /\ p.ip \notin p.ls \cap Reserved
      BY <2>2, <2>4
    <3>2. IsFiniteSet(p.ls \cap Reserved)
      BY ReservedFinite, FS_Subset
    <3>3. Cardinality(p.ls \cap Reserved) \in Nat
      BY <3>2, FS_CardinalityType
    <3>4. Cardinality(it[n].ls \cap Reserved) = Cardinality(p.ls \cap Reserved) + 1
      BY <3>1, <3>2, FS_AddElement
    <3>5. Cardinality(p.ls \cap Reserved) >= n - 1
      BY <1>6, <2>4 DEF p
    <3>6. Cardinality(it[n].ls \cap Reserved) >= n
      BY <2>1, <3>3, <3>4, <3>5
    <3> QED
      BY <2>1, <2>2, <3>6
  <2> QED
    BY <2>3, <2>4
<1>7. N \in S
  <2>1. N \in 0 .. N
    BY <1>0
  <2> HIDE DEF S
  <2> QED
    BY <1>0, <1>5, <1>6, <2>1, LoopInv
<1>8. it[N] \in X /\ Stopped(it[N])
  <2> SUFFICES ASSUME ~Stopped(it[N]) PROVE FALSE
    BY <1>7
  <2> DEFINE p == it[N]
  <2>1. p \in X /\ Cardinality(p.ls \cap Reserved) >= N
    BY <1>7
  <2>2. p.ip \in Reserved \ p.ls
    BY <2>1, SearchGoesOn DEF X
  <2> HIDE DEF p
  <2>3. IsFiniteSet(p.ls \cap Reserved) /\ p.ip \notin p.ls \cap Reserved
    BY <2>2, ReservedFinite, FS_Subset
  <2>4. Cardinality((p.ls \cap Reserved) \cup {p.ip}) = Cardinality(p.ls \cap Reserved) + 1
    BY <2>3, FS_AddElement
  <2>5. (p.ls \cap Reserved) \cup {p.ip} \subseteq Reserved
    BY <2>2
  <2>6. Cardinality((p.ls \cap Reserved) \cup {p.ip}) <= Cardinality(Reserved)
    BY <2>5, ReservedFinite, FS_Subset
  <2>7. Cardinality(p.ls \cap Reserved) \in Nat
    BY <2>3, FS_CardinalityType
  <2>8. Cardinality(Reserved) <= N /\ Cardinality(Reserved) \in Nat
    BY ReservedFinite DEF N
  <2> QED
    BY <1>0, <2>1, <2>4, <2>6, <2>7, <2>8
<1> QED
  BY <1>1, <1>8, SearchFound DEF X

(***************************************************************************)
(* The ranges of the network, in order                                     *)
(***************************************************************************)
RangesOK == ranges \in SUBSET (Addr \X Addr) /\ \A r \in ranges : r[1] <= r[2]
Covers(r, a) == r[1] <= a /\ a <= r[2]
Wanted(ls, from, to) == Usable(ls, {a \in from .. to : \E r \in ranges : Covers(r, a)})

LEMMA FirstRange ==
  ASSUME RangesOK, NEW rs \in SUBSET ranges, rs # {}, order \in Orders
  PROVE  /\ first_range(rs) \in rs
         /\ \A s \in rs : IF order = "asc" THEN first_range(rs)[1] <= s[1]
                                           ELSE first_range(rs)[2] >= s[2]
<1>0. \A r \in rs : r[1] \in 0 .. Broadcast /\ r[2] \in 0 .. Broadcast
  BY DEF RangesOK, Addr
<1>1. \E r \in rs : \A s \in rs : IF order = "asc" THEN r[1] <= s[1] ELSE r[2] >= s[2]
  <2>1. CASE order = "asc"
    <3> DEFINE T == {r[1] : r \in rs}
    <3>1. T \in SUBSET Nat /\ T # {}
      BY <1>0
    <3>2. PICK n \in T : \A m \in T : n <= m
      BY <3>1, Least
    <3> QED
      BY <2>1, <3>2
  <2>2. CASE order = "desc"
    <3> DEFINE T == {r[2] : r \in rs}
    <3>1. T \in SUBSET (0 .. Broadcast) /\ T # {} /\ Broadcast \in Nat
      BY <1>0, IpConstants
    <3>2. PICK n \in T : \A m \in T : m <= n
      BY <3>1, Greatest
    <3>3. \A m \in T : n >= m
      BY <3>1, <3>2
    <3> QED
      BY <2>2, <3>2, <3>3
  <2> QED
    BY <2>1, <2>2 DEF Orders
<1> QED
  BY <1>1 DEF first_range

\* A state of the loop over the ranges: it has found the nearest address, or
\* every wanted address is in a range that is left.
Visiting(ls, from, to) ==
    {s \in [ls : SUBSET Addr, ip : Addr \cup {None}, left : SUBSET ranges] :
        /\ \A a \in s.ls : a \in ls \/ reserved_ip(a)
        /\ ls \subseteq s.ls
        /\ \A r \in s.left : r[2] >= from /\ r[1] <= to
        /\ s.ip # None => s.ip = first(Wanted(ls, from, to))
        /\ s.ip = None => \A a \in Wanted(ls, from, to) : \E r \in s.left : Covers(r, a)}

OneLess(s, n) == \E r \in s.left : n.left = s.left \ {r}

LEMMA VisitNext ==
  ASSUME RangesOK, order \in Orders,
         NEW ls \in SUBSET Addr, NEW from \in Addr, NEW to \in Addr, from <= to,
         NEW s \in Visiting(ls, from, to)
  PROVE  /\ each_range(s, from, to) \in Visiting(ls, from, to)
         /\ s.ip # None \/ s.left = {} => each_range(s, from, to) = s
         /\ s.ip = None /\ s.left # {} => OneLess(s, each_range(s, from, to))
<1> DEFINE r == first_range(s.left)
           f == Max({from, r[1]})
           t == Min({to, r[2]})
           found == search_range(s.ls, f, t)
           U == Wanted(ls, from, to)
<1>0. /\ s \in [ls : SUBSET Addr, ip : Addr \cup {None}, left : SUBSET ranges]
      /\ \A a \in s.ls : a \in ls \/ reserved_ip(a)
      /\ ls \subseteq s.ls
      /\ \A q \in s.left : q[2] >= from /\ q[1] <= to
      /\ s.ip # None => s.ip = first(U)
      /\ s.ip = None => \A a \in U : \E q \in s.left : Covers(q, a)
  BY DEF Visiting
<1>1. CASE s.ip # None \/ s.left = {}
  BY <1>1 DEF each_range
<1>2. CASE s.ip = None /\ s.left # {}
  <2>0. Addr \subseteq Nat /\ from .. to \subseteq Addr /\ U \in SUBSET Addr
    BY IpConstants DEF Addr, Wanted, Usable
  <2>1. each_range(s, from, to) = [ls |-> found.ls, ip |-> found.ip, left |-> s.left \ {r}]
    BY <1>2 DEF each_range
  <2>2. r \in s.left /\ \A q \in s.left : IF order = "asc" THEN r[1] <= q[1] ELSE r[2] >= q[2]
    BY <1>0, <1>2, FirstRange
  <2>3. /\ r[1] \in Addr /\ r[2] \in Addr /\ r[1] <= r[2] /\ r[2] >= from /\ r[1] <= to
        /\ r \in ranges /\ \A q \in s.left : q[1] \in Addr /\ q[2] \in Addr /\ q \in ranges
    BY <1>0, <2>2 DEF RangesOK
  <2> HIDE DEF r, U
  <2>4. /\ f \in Addr /\ t \in Addr /\ f <= t
        /\ \A a \in Nat : a \in f .. t <=> a \in from .. to /\ Covers(r, a)
    <3>0. from \in Nat /\ to \in Nat /\ r[1] \in Nat /\ r[2] \in Nat
      BY <2>0, <2>3
    <3>1. /\ f = IF from <= r[1] THEN r[1] ELSE from
          /\ t = IF to <= r[2] THEN to ELSE r[2]
      <4>1. from \in Int /\ to \in Int /\ r[1] \in Int /\ r[2] \in Int
        BY <3>0
      <4>2. Max({from, r[1]}) = IF from <= r[1] THEN r[1] ELSE from
        BY <4>1, MinMax
      <4>3. Min({to, r[2]}) = IF to <= r[2] THEN to ELSE r[2]
        BY <4>1, MinMax
      <4> QED
        BY <4>2, <4>3
    <3> HIDE DEF f, t
    <3> QED
      BY <2>3, <3>0, <3>1 DEF Covers
  <2> HIDE DEF f, t
  <2>5. found \in Searching(s.ls, f, t) /\ found.ip = first(Usable(s.ls, f .. t))
    BY <1>0, <2>4, SearchRange
  <2> DEFINE V == Usable(s.ls, f .. t)
  <2>6. /\ found.ls \in SUBSET Addr /\ s.ls \subseteq found.ls
        /\ \A a \in found.ls : a \in s.ls \/ reserved_ip(a)
    BY <2>5 DEF Searching
  <2> HIDE DEF found
  <2>7. V \subseteq U /\ V \in SUBSET Addr /\ \A a \in U : Covers(r, a) => a \in V
    <3>1. \A a \in f .. t : a \in Nat /\ a \in Addr
      BY <2>0, <2>4 DEF Addr
    <3>2. V \in SUBSET Addr
      BY <3>1 DEF Usable
    <3>3. ASSUME NEW a \in V PROVE a \in U
      BY <1>0, <2>3, <2>4, <3>1 DEF Usable, U, Wanted
    <3>4. ASSUME NEW a \in U, Covers(r, a) PROVE a \in V
      <4>1. a \in from .. to /\ a \notin ls /\ ~reserved_ip(a) /\ a \in Nat
        BY <2>0 DEF Usable, U, Wanted
      <4>2. a \in f .. t /\ a \notin s.ls
        BY <1>0, <2>4, <3>4, <4>1
      <4> QED
        BY <4>1, <4>2 DEF Usable
    <3> QED
      BY <3>2, <3>3, <3>4
  <2> HIDE DEF V
  <2>8. found.ip \in Addr \cup {None} /\ (found.ip = None <=> V = {})
    BY <2>5, <2>7, FirstType DEF V
  <2>9. found.ip # None => found.ip = first(U)
    <3> SUFFICES ASSUME V # {} PROVE first(V) = first(U)
      BY <2>5, <2>8 DEF V
    <3>1. first(V) \in V /\ \A b \in V : Before(first(V), b)
      BY <2>7, FirstType
    <3> DEFINE v == first(V)
    <3> HIDE DEF v
    <3>2. v \in V /\ \A b \in V : Before(v, b)
      BY <3>1 DEF v
    <3>3. v \in Nat /\ Covers(r, v) /\ r[1] \in Nat /\ r[2] \in Nat
      <4>1. v \in f .. t /\ v \in Nat
        BY <2>0, <2>7, <3>2 DEF V, Usable
      <4> QED
        BY <2>0, <2>3, <2>4, <4>1
    <3>4. ASSUME NEW u \in U PROVE Before(v, u)
      <4>1. PICK q \in s.left : Covers(q, u)
        BY <1>0, <1>2
      <4>2. u \in Nat /\ q[1] \in Nat /\ q[2] \in Nat
        BY <2>0, <2>3
      <4>3. Covers(r, u) => Before(v, u)
        BY <2>7, <3>2
      <4> QED
        BY <2>2, <3>3, <4>1, <4>2, <4>3 DEF Covers, Before, Orders
    <3>5. v \in U
      BY <2>7, <3>2
    <3> QED
      BY <2>0, <3>4, <3>5, FirstFree DEF v
  <2>10. found.ip = None => \A a \in U : \E q \in s.left \ {r} : Covers(q, a)
    <3> SUFFICES ASSUME V = {}, NEW a \in U PROVE \E q \in s.left \ {r} : Covers(q, a)
      BY <2>8
    <3>1. PICK q \in s.left : Covers(q, a)
      BY <1>0, <1>2
    <3> QED
      BY <2>7, <3>1
  <2> DEFINE n == [ls |-> found.ls, ip |-> found.ip, left |-> s.left \ {r}]
  <2>11. n \in [ls : SUBSET Addr, ip : Addr \cup {None}, left : SUBSET ranges]
    BY <1>0, <2>6, <2>8
  <2>12. n \in Visiting(ls, from, to)
    <3>1. /\ \A a \in n.ls : a \in ls \/ reserved_ip(a)
          /\ ls \subseteq n.ls
          /\ \A q \in n.left : q[2] >= from /\ q[1] <= to
      BY <1>0, <2>6
    <3>2. /\ n.ip # None => n.ip = first(U)
          /\ n.ip = None => \A a \in U : \E q \in n.left : Covers(q, a)
      BY <2>9, <2>10
    <3> HIDE DEF n
    <3> QED
      BY <2>11, <3>1, <3>2 DEF Visiting, U
  <2> QED
    BY <1>2, <2>1, <2>2, <2>12 DEF OneLess
<1> QED
  BY <1>1, <1>2

LEMMA GetLease ==
  ASSUME RangesOK, order \in Orders,
         NEW ls \in SUBSET Addr, NEW from \in Addr, NEW to \in Addr, from <= to
  PROVE  /\ get_lease_address(ls, from, to) \in Visiting(ls, from, to)
         /\ get_lease_address(ls, from, to).ip = first(Wanted(ls, from, to))
<1> DEFINE rs == containing_range(from, to)
           N == Cardinality(rs)
           X == Visiting(ls, from, to)
           x == [ls |-> ls, ip |-> None, left |-> rs]
           step == [s \in X |-> each_range(s, from, to)]
           Eq(g) == g = [n \in 0 .. N |-> IF n = 0 THEN [ls |-> ls, ip |-> None, left |-> rs]
                                                   ELSE each_range(g[n - 1], from, to)]
           it == CHOOSE g : Eq(g)
<1>0. IsFiniteSet(rs) /\ N \in Nat
  <2>1. Broadcast \in Nat /\ IsFiniteSet(Addr)
    BY IpConstants, FS_Interval DEF Addr
  <2>2. IsFiniteSet(Addr \X Addr)
    BY <2>1, FS_Product
  <2>3. rs \subseteq Addr \X Addr
    BY DEF containing_range, RangesOK
  <2>4. IsFiniteSet(rs)
    <3> HIDE DEF rs
    <3> QED
      BY <2>2, <2>3, FS_Subset
  <2> QED
    BY <2>4, FS_CardinalityType
<1>1. get_lease_address(ls, from, to) = it[N]
  BY DEF get_lease_address
<1>2. x \in X
  <2>1. x \in [ls : SUBSET Addr, ip : Addr \cup {None}, left : SUBSET ranges]
    BY DEF containing_range
  <2>2. ASSUME NEW a \in Wanted(ls, from, to) PROVE \E r \in rs : Covers(r, a)
    <3>1. PICK r \in ranges : Covers(r, a)
      BY DEF Wanted, Usable
    <3>2. a \in from .. to /\ from \in Nat /\ to \in Nat /\ r[1] \in Nat /\ r[2] \in Nat
      BY IpConstants DEF Wanted, Usable, Addr, RangesOK
    <3> QED
      BY <3>1, <3>2 DEF containing_range, Covers
  <2> QED
    BY <2>1, <2>2 DEF Visiting, containing_range
<1>3. step \in [X -> X]
  BY VisitNext
<1>4. Eq(it)
  <2>1. PICK h \in [0 .. N -> X] : h[0] = x /\ \A n \in 1 .. N : h[n] = step[h[n - 1]]
    <3> HIDE DEF N, X, step, x
    <3>1. \E h : IsRun(h, N, X, x, step)
      BY <1>0, <1>2, <1>3, Loop
    <3> QED
      BY <3>1 DEF IsRun
  <2> HIDE DEF rs
  <2>2. ASSUME NEW n \in 0 .. N
        PROVE  h[n] = IF n = 0 THEN x ELSE each_range(h[n - 1], from, to)
    <3>1. n # 0 => n - 1 \in 0 .. N /\ n \in 1 .. N
      BY <1>0
    <3> HIDE DEF x
    <3> QED
      BY <2>1, <3>1
  <2>3. Eq(h)
    <3> HIDE DEF step
    <3> QED
      BY <2>1, <2>2
  <2> HIDE DEF Eq
  <2> QED
    BY <2>3
<1>5. /\ it[0] = x
      /\ \A n \in 1 .. N : n - 1 \in 0 .. N /\ n # 0 /\ it[n] = each_range(it[n - 1], from, to)
  <2>1. \A n \in 1 .. N : n - 1 \in 0 .. N /\ n # 0 /\ n \in 0 .. N
    BY <1>0
  <2>2. 0 \in 0 .. N
    BY <1>0
  <2> HIDE DEF it, rs
  <2> QED
    BY <1>4, <2>1, <2>2
<1>6. x.left = rs
  OBVIOUS
<1> HIDE DEF it, N, X, step, x, rs
<1> DEFINE S == {n \in Nat : /\ it[n] \in X
                             /\ \/ it[n].ip # None \/ it[n].left = {}
                                \/ IsFiniteSet(it[n].left) /\ Cardinality(it[n].left) + n <= N}
<1>7. 0 \in S
  <2>1. N <= N /\ N + 0 = N
    BY <1>0
  <2> QED
    BY <1>0, <1>2, <1>5, <1>6, <2>1 DEF N
<1>8. ASSUME NEW n \in 1 .. N, n - 1 \in S PROVE n \in S
  <2> DEFINE p == it[n - 1]
  <2>1. n \in Nat /\ n - 1 \in Nat /\ it[n] = each_range(p, from, to) /\ p \in X
    BY <1>0, <1>5, <1>8
  <2>a. p.ip # None \/ p.left = {} \/ (IsFiniteSet(p.left) /\ Cardinality(p.left) + (n - 1) <= N)
    BY <1>8
  <2> HIDE DEF p
  <2>2. /\ it[n] \in X /\ (p.ip # None \/ p.left = {} => it[n] = p)
        /\ (p.ip = None /\ p.left # {} => OneLess(p, it[n]))
    <3>1. p \in Visiting(ls, from, to)
      BY <2>1 DEF X
    <3>2. /\ each_range(p, from, to) \in Visiting(ls, from, to)
          /\ p.ip # None \/ p.left = {} => each_range(p, from, to) = p
          /\ p.ip = None /\ p.left # {} => OneLess(p, each_range(p, from, to))
      BY <3>1, VisitNext
    <3> QED
      BY <2>1, <3>2 DEF X
  <2>3. CASE p.ip # None \/ p.left = {}
    BY <2>1, <2>2, <2>3
  <2>4. CASE p.ip = None /\ p.left # {}
    <3>1. PICK r \in p.left : it[n].left = p.left \ {r}
      BY <2>2, <2>4 DEF OneLess
    <3>2. IsFiniteSet(p.left) /\ Cardinality(p.left) + (n - 1) <= N
      BY <2>a, <2>4
    <3>3. IsFiniteSet(it[n].left) /\ Cardinality(it[n].left) = Cardinality(p.left) - 1
      <4>1. IsFiniteSet(p.left \ {r}) /\ Cardinality(p.left \ {r}) = Cardinality(p.left) - 1
        BY <3>2, FS_RemoveElement
      <4> QED
        BY <3>1, <4>1
    <3>4. Cardinality(p.left) \in Nat
      BY <3>2, FS_CardinalityType
    <3>5. Cardinality(it[n].left) + n <= N
      BY <1>0, <2>1, <3>2, <3>3, <3>4
    <3> QED
      BY <2>1, <2>2, <3>3, <3>5
  <2> QED
    BY <2>3, <2>4
<1>9. N \in S
  <2>1. N \in 0 .. N
    BY <1>0
  <2> HIDE DEF S
  <2> QED
    BY <1>0, <1>7, <1>8, <2>1, LoopInv
<1>10. it[N] \in X /\ (it[N].ip # None \/ it[N].left = {})
  <2> SUFFICES ASSUME IsFiniteSet(it[N].left), Cardinality(it[N].left) + N <= N
               PROVE  it[N].left = {}
    BY <1>9
  <2>1. Cardinality(it[N].left) \in Nat
    BY FS_CardinalityType
  <2>2. Cardinality(it[N].left) = 0
    BY <1>0, <2>1
  <2> QED
    BY <2>2, FS_EmptySet
<1>11. it[N].ip = first(Wanted(ls, from, to))
  <2>1. CASE it[N].ip # None
    BY <1>10, <2>1 DEF X, Visiting
  <2>2. CASE it[N].ip = None
    <3>1. Wanted(ls, from, to) = {}
      BY <1>10, <2>2 DEF X, Visiting
    <3> QED
      BY <2>2, <3>1 DEF first
  <2> QED
    BY <2>1, <2>2
<1> QED
  BY <1>1, <1>10, <1>11 DEF X

(***************************************************************************)
(* The whole search                                                        *)
(***************************************************************************)

\* Rows that were added are reserved, so the same addresses are wanted.
LEMMA SameWanted ==
  ASSUME NEW ls, NEW ms, NEW from, NEW to,
         ls \subseteq ms, \A a \in ms : a \in ls \/ reserved_ip(a)
  PROVE  Wanted(ms, from, to) = Wanted(ls, from, to)
BY DEF Wanted, Usable

Lease == [vif : Vif, addr : Addr]

LEMMA LeaseHas ==
  ASSUME NEW s \in Seq(Lease), NEW i \in 1 .. Len(s)
  PROVE  s[i].vif \in Vif /\ s[i].addr \in Addr
<1>1. s[i] \in Lease
  OBVIOUS
<1> QED
  BY <1>1 DEF Lease

LEMMA WholeSearch ==
  ASSUME TypeOK, RangesOK
  PROVE  /\ lease_address.ip = IF ahead # {} THEN first(ahead) ELSE first(usable)
         /\ lease_address.ls \in SUBSET Addr
         /\ \A a \in lease_address.ls : a \in leased \/ reserved_ip(a)
         /\ lease_address.ip \in Addr \cup {None}
<1> DEFINE n == Len(auto)
           end == IF n = 0 THEN IF order = "asc" THEN Broadcast ELSE 0 ELSE auto[n].addr
           lo1 == IF order = "asc" THEN newest ELSE 0
           hi1 == IF order = "asc" THEN Broadcast ELSE newest
           lo2 == IF order = "asc" THEN 0 ELSE end
           hi2 == IF order = "asc" THEN end ELSE Broadcast
           one == get_lease_address(leased, lo1, hi1)
           two == get_lease_address(one.ls, lo2, hi2)
<1>0. /\ order \in Orders /\ leased \in SUBSET Addr /\ Broadcast \in Nat
      /\ \A a : a \in Addr <=> a \in Nat /\ 0 <= a /\ a <= Broadcast
      /\ 0 \in Addr /\ Broadcast \in Addr
  BY IpConstants DEF TypeOK, Orders, Addr
<1>1. newest \in Addr /\ end \in Addr
  <2>1. auto \in Seq(Lease)
    BY DEF TypeOK, Lease
  <2>2. CASE auto = <<>>
    BY <1>0, <2>2 DEF newest
  <2>3. CASE auto # <<>>
    <3>1. Len(auto) \in 1 .. Len(auto) /\ Len(auto) # 0
      BY <2>1, <2>3
    <3>2. auto[Len(auto)].addr \in Addr
      BY <2>1, <3>1, LeaseHas
    <3> QED
      BY <2>3, <3>1, <3>2 DEF newest
  <2> QED
    BY <2>2, <2>3
<1>2. lease_address = IF one.ip # None THEN one ELSE two
  <2>1. auto = <<>> <=> n = 0
    BY DEF TypeOK
  <2> QED
    BY <2>1 DEF lease_address, wrapped, newest
<1>3. n = 0 => newest = IF order = "asc" THEN 0 ELSE Broadcast
  BY DEF newest, TypeOK
<1>4. n # 0 => newest = end
  BY DEF newest, TypeOK
<1> HIDE DEF n, end
<1>5. lo1 \in Addr /\ hi1 \in Addr /\ lo1 <= hi1 /\ lo2 \in Addr /\ hi2 \in Addr /\ lo2 <= hi2
  BY <1>0, <1>1
<1>6. /\ usable \in SUBSET Addr /\ ahead \in SUBSET Addr
      /\ Wanted(leased, lo1, hi1) = ahead
      /\ ahead = {} => Wanted(leased, lo2, hi2) = usable
  <2>1. usable \in SUBSET Addr /\ ahead \in SUBSET Addr
    BY DEF usable, ahead
  <2>2. \A a, from, to : a \in Wanted(leased, from, to) <=>
           /\ a \in from .. to /\ \E r \in ranges : r[1] <= a /\ a <= r[2]
           /\ a \notin leased /\ ~reserved_ip(a)
    BY DEF Wanted, Usable, Covers
  <2>3. \A a : a \in usable <=> /\ a \in Addr /\ \E r \in ranges : r[1] <= a /\ a <= r[2]
                                /\ a \notin leased /\ ~reserved_ip(a)
    BY DEF usable
  <2>4. \A a : a \in ahead <=> a \in usable /\ IF order = "asc" THEN a >= newest ELSE a <= newest
    BY DEF ahead
  <2>5. \A a : a \in lo1 .. hi1 <=> a \in Addr /\ IF order = "asc" THEN a >= newest ELSE a <= newest
    BY <1>0, <1>1
  <2>6. \A a : a \in lo2 .. hi2 <=> a \in Addr /\ IF order = "asc" THEN a <= end ELSE a >= end
    BY <1>0, <1>1
  <2> HIDE DEF lo1, hi1, lo2, hi2
  <2>7. Wanted(leased, lo1, hi1) = ahead
    BY <2>2, <2>3, <2>4, <2>5
  <2>8. ASSUME ahead = {}, NEW a \in usable PROVE a \in lo2 .. hi2
    <3>1. a \in Addr /\ ~(IF order = "asc" THEN a >= newest ELSE a <= newest)
      BY <2>1, <2>4, <2>8
    <3> QED
      BY <1>0, <1>1, <1>3, <1>4, <2>6, <3>1 DEF Orders
  <2>9. ahead = {} => Wanted(leased, lo2, hi2) = usable
    BY <2>2, <2>3, <2>6, <2>8
  <2> QED
    BY <2>1, <2>7, <2>9
<1> HIDE DEF lo1, hi1, lo2, hi2
<1>7. one \in Visiting(leased, lo1, hi1) /\ one.ip = first(ahead)
  BY <1>0, <1>5, <1>6, GetLease
<1>8. /\ one.ls \in SUBSET Addr /\ leased \subseteq one.ls
      /\ \A a \in one.ls : a \in leased \/ reserved_ip(a)
      /\ one.ip \in Addr \cup {None}
  BY <1>7 DEF Visiting
<1> HIDE DEF one
<1>9. CASE ahead # {}
  <2>1. one.ip # None
    BY <1>6, <1>7, <1>9, FirstType
  <2> QED
    BY <1>2, <1>7, <1>8, <1>9, <2>1
<1>10. CASE ahead = {}
  <2>1. one.ip = None
    BY <1>7, <1>10 DEF first
  <2>2. two \in Visiting(one.ls, lo2, hi2) /\ two.ip = first(Wanted(one.ls, lo2, hi2))
    BY <1>0, <1>5, <1>8, GetLease
  <2>3. Wanted(one.ls, lo2, hi2) = usable
    BY <1>6, <1>8, <1>10, SameWanted
  <2>4. /\ two.ls \in SUBSET Addr /\ \A a \in two.ls : a \in one.ls \/ reserved_ip(a)
        /\ two.ip \in Addr \cup {None}
    BY <2>2 DEF Visiting
  <2> HIDE DEF two
  <2> QED
    BY <1>2, <1>8, <1>10, <2>1, <2>2, <2>3, <2>4
<1> QED
  BY <1>9, <1>10

(***************************************************************************)
(* Transactions                                                            *)
(***************************************************************************)

\* What a transaction is about to insert is an address and reserved rows; its
\* vif has no lease yet, and a vif with a lease has one.
TxOK == \A v \in Vif : tx[v] # NoTx =>
          /\ tx[v].addr \in Addr /\ \A a \in tx[v].reserved : reserved_ip(a)
          /\ direct_ip_lease(v) = {}
OneLease == \A i, j \in DOMAIN auto : auto[i].vif = auto[j].vif => i = j
LeaseInv == TypeOK /\ RangesOK /\ TxOK /\ OneLease /\ NoAddressTwice /\ NothingBlocked

Tx == [addr : Addr \cup {None}, reserved : SUBSET Addr]

LEMMA Removed ==
  ASSUME NEW s \in Seq(Lease), NEW i \in 1 .. Len(s)
  PROVE  /\ RemoveAt(s, i) \in Seq(Lease)
         /\ Len(RemoveAt(s, i)) = Len(s) - 1
         /\ \A k \in 1 .. Len(s) - 1 : RemoveAt(s, i)[k] = IF k < i THEN s[k] ELSE s[k + 1]
<1> DEFINE u == SubSeq(s, 1, i - 1)
           v == SubSeq(s, i + 1, Len(s))
<1>1. /\ u \in Seq(Lease) /\ Len(u) = i - 1 /\ \A k \in 1 .. i - 1 : u[k] = s[k]
      /\ v \in Seq(Lease) /\ Len(v) = Len(s) - i /\ \A k \in 1 .. Len(s) - i : v[k] = s[k + i]
  OBVIOUS
<1>2. RemoveAt(s, i) = u \o v
  BY DEF RemoveAt
<1> HIDE DEF u, v
<1>3. u \o v \in Seq(Lease) /\ Len(u \o v) = Len(s) - 1
  BY <1>1
<1>4. ASSUME NEW k \in 1 .. Len(s) - 1 PROVE (u \o v)[k] = IF k < i THEN s[k] ELSE s[k + 1]
  <2>1. CASE k < i
    BY <1>1, <2>1
  <2>2. CASE ~(k < i)
    <3>1. (k - (i - 1)) \in 1 .. Len(s) - i /\ (k - (i - 1)) + i = k + 1 /\ k > Len(u) /\ k <= Len(u) + Len(v)
      BY <1>1, <2>2
    <3>2. (u \o v)[k] = v[k - Len(u)]
      BY <1>1, <3>1
    <3> QED
      BY <1>1, <2>2, <3>1, <3>2
  <2> QED
    BY <2>1, <2>2
<1> QED
  BY <1>2, <1>3, <1>4

LEMMA InitLease == Init => LeaseInv
BY DEF Init, LeaseInv, TypeOK, RangesOK, TxOK, OneLease, NoAddressTwice, NothingBlocked, NoTx

\* The leases of the network are as they were.
LEMMA SameLeases ==
  ASSUME LeaseInv, UNCHANGED <<order, ranges, leased, auto, past, struck>>
  PROVE  RangesOK' /\ OneLease' /\ NoAddressTwice' /\ NothingBlocked'
BY DEF LeaseInv, RangesOK, OneLease, NoAddressTwice, NothingBlocked, reserved_ip

LEMMA ScheduleStep ==
  ASSUME LeaseInv, NEW v \in Vif, schedule(v)
  PROVE  LeaseInv'
<1>0. TypeOK /\ RangesOK /\ TxOK
  BY DEF LeaseInv
<1> DEFINE found == lease_address
<1>1. /\ found.ls \in SUBSET Addr /\ \A a \in found.ls : a \in leased \/ reserved_ip(a)
      /\ found.ip \in Addr \cup {None}
  BY <1>0, WholeSearch
<1>2. /\ found.ip # None /\ direct_ip_lease(v) = {}
      /\ tx' = [tx EXCEPT ![v] = [addr |-> found.ip, reserved |-> found.ls \ leased]]
      /\ UNCHANGED <<order, ranges, leased, auto, past, struck>>
  BY DEF schedule, lease_ip_lease
<1> HIDE DEF found
<1>3. TypeOK'
  BY <1>0, <1>1, <1>2 DEF TypeOK
<1>4. TxOK'
  BY <1>0, <1>1, <1>2 DEF TxOK, TypeOK, reserved_ip, direct_ip_lease
<1> QED
  BY <1>2, <1>3, <1>4, SameLeases DEF LeaseInv

LEMMA SpecifyStep ==
  ASSUME LeaseInv, NEW v \in Vif, NEW a \in Addr, specify_ip(v, a)
  PROVE  LeaseInv'
<1>0. TypeOK /\ RangesOK /\ TxOK
  BY DEF LeaseInv
<1>1. /\ tx' = [tx EXCEPT ![v] = [addr |-> a, reserved |-> {}]] /\ direct_ip_lease(v) = {}
      /\ UNCHANGED <<order, ranges, leased, auto, past, struck>>
  BY DEF specify_ip, lease_ip_lease
<1>2. TypeOK'
  BY <1>0, <1>1 DEF TypeOK
<1>3. TxOK'
  BY <1>0, <1>1 DEF TxOK, TypeOK, direct_ip_lease
<1> QED
  BY <1>1, <1>2, <1>3, SameLeases DEF LeaseInv

LEMMA CommitStep ==
  ASSUME LeaseInv, NEW v \in Vif, commit(v)
  PROVE  LeaseInv'
<1> DEFINE rows == {tx[v].addr} \cup tx[v].reserved
           a == tx[v].addr
<1>0. TypeOK /\ RangesOK /\ TxOK /\ OneLease /\ NoAddressTwice /\ NothingBlocked
  BY DEF LeaseInv
<1>1. /\ tx[v] # NoTx /\ tx' = [tx EXCEPT ![v] = NoTx] /\ UNCHANGED <<order, ranges, past, struck>>
      /\ IF rows \cap leased = {} THEN leased' = leased \cup rows /\ auto' = Append(auto, [vif |-> v, addr |-> a])
                                  ELSE UNCHANGED <<leased, auto>>
  BY DEF commit, insertable
<1>2. a \in Addr /\ rows \in SUBSET Addr /\ \A b \in rows : b = a \/ reserved_ip(b)
  BY <1>0, <1>1 DEF TypeOK, TxOK
<1>3. /\ auto \in Seq(Lease) /\ tx \in [Vif -> Tx]
      /\ \A i \in DOMAIN auto : auto[i].vif # v
  BY <1>0, <1>1 DEF TypeOK, Lease, Tx, TxOK, direct_ip_lease
<1>4. a \in rows
  OBVIOUS
<1> HIDE DEF rows, a
<1>5. tx' \in [Vif -> Tx] /\ \A u \in Vif : tx'[u] # NoTx => u # v /\ tx'[u] = tx[u]
  BY <1>1, <1>3 DEF NoTx, Tx
<1>6. RangesOK'
  BY <1>0, <1>1 DEF RangesOK
<1>7. CASE rows \cap leased = {}
  <2>1. leased' = leased \cup rows /\ auto' = Append(auto, [vif |-> v, addr |-> a]) /\ a \notin leased
    BY <1>1, <1>4, <1>7
  <2>a. [vif |-> v, addr |-> a] \in Lease
    BY <1>2 DEF Lease
  <2>2. /\ auto' \in Seq(Lease) /\ DOMAIN auto = 1 .. Len(auto) /\ Len(auto) \in Nat
        /\ DOMAIN auto' = 1 .. Len(auto) + 1
        /\ auto'[Len(auto) + 1] = [vif |-> v, addr |-> a] /\ \A i \in 1 .. Len(auto) : auto'[i] = auto[i]
    BY <1>3, <2>1, <2>a
  <2>3. TypeOK'
    BY <1>0, <1>1, <1>2, <1>5, <2>1, <2>2 DEF TypeOK, Lease, Tx
  <2>4. \A i \in DOMAIN auto' : \/ i \in DOMAIN auto /\ auto'[i] = auto[i] /\ auto'[i].vif # v
                                \/ i = Len(auto) + 1 /\ auto'[i].vif = v /\ auto'[i].addr = a
    BY <1>3, <2>2
  <2>5. OneLease'
    BY <1>0, <2>4 DEF OneLease
  <2>6. TxOK'
    <3> SUFFICES ASSUME NEW u \in Vif, tx'[u] # NoTx
                 PROVE  /\ tx'[u].addr \in Addr /\ \A b \in tx'[u].reserved : reserved_ip(b)'
                        /\ direct_ip_lease(u)' = {}
      BY DEF TxOK
    <3>1. u # v /\ tx'[u] = tx[u] /\ direct_ip_lease(u) = {}
      BY <1>0, <1>5 DEF TxOK
    <3>2. direct_ip_lease(u)' = {}
      BY <2>4, <3>1 DEF direct_ip_lease
    <3> QED
      BY <1>0, <3>1, <3>2 DEF TxOK, reserved_ip
  <2>7. NoAddressTwice'
    <3>1. ASSUME NEW i \in DOMAIN auto' PROVE auto'[i].vif \in struck' \/ auto'[i].addr \in leased'
      BY <1>0, <1>1, <1>4, <2>1, <2>4 DEF NoAddressTwice
    <3>2. ASSUME NEW i \in DOMAIN auto, auto[i].addr = a PROVE auto[i].vif \in struck
      BY <1>0, <2>1, <3>2 DEF NoAddressTwice
    <3>3. ASSUME NEW i \in DOMAIN auto', NEW j \in DOMAIN auto', auto'[i].addr = auto'[j].addr
          PROVE  i = j \/ auto'[i].vif \in struck' \/ auto'[j].vif \in struck'
      <4>1. CASE i \in DOMAIN auto /\ j \in DOMAIN auto
        BY <1>0, <1>1, <2>2, <3>3, <4>1 DEF NoAddressTwice
      <4>2. CASE ~(i \in DOMAIN auto /\ j \in DOMAIN auto)
        BY <1>1, <2>4, <3>2, <3>3, <4>2
      <4> QED
        BY <4>1, <4>2
    <3> QED
      BY <3>1, <3>3 DEF NoAddressTwice
  <2>8. ASSUME NEW b \in leased' PROVE reserved_ip(b)' \/ \E i \in DOMAIN auto' : auto'[i].addr = b
    <3>1. CASE b \in leased
      BY <1>0, <2>2, <3>1 DEF NothingBlocked, reserved_ip
    <3>2. CASE b \in rows
      BY <1>2, <2>2, <3>2 DEF reserved_ip
    <3> QED
      BY <2>1, <2>8, <3>1, <3>2
  <2> QED
    BY <1>6, <2>3, <2>5, <2>6, <2>7, <2>8 DEF LeaseInv, NothingBlocked
<1>8. CASE rows \cap leased # {}
  <2>1. UNCHANGED <<order, ranges, leased, auto, past, struck>>
    BY <1>1, <1>8
  <2>2. TypeOK'
    BY <1>0, <1>5, <2>1 DEF TypeOK, Tx
  <2>3. TxOK'
    BY <1>0, <1>5, <2>1 DEF TxOK, reserved_ip, direct_ip_lease
  <2> QED
    BY <2>1, <2>2, <2>3, SameLeases DEF LeaseInv
<1> QED
  BY <1>7, <1>8

\* What stays of the live leases when the vif v is released.
LEMMA Destroyed ==
  ASSUME LeaseInv, NEW v \in Vif, destroy_leases(v)
  PROVE  /\ auto' \in Seq(Lease)
         /\ \E old \in [DOMAIN auto' -> DOMAIN auto] :
               /\ \A k \in DOMAIN auto' : auto'[k] = auto[old[k]] /\ auto[old[k]].vif # v
               /\ \A k, m \in DOMAIN auto' : old[k] = old[m] => k = m
         /\ \A m \in DOMAIN auto : auto[m].vif # v => \E k \in DOMAIN auto' : auto'[k] = auto[m]
<1>1. auto \in Seq(Lease) /\ DOMAIN auto = 1 .. Len(auto) /\ Len(auto) \in Nat /\ OneLease
  BY DEF LeaseInv, TypeOK, Lease
<1>2. CASE direct_ip_lease(v) = {}
  <2>1. auto' = auto /\ \A m \in DOMAIN auto : auto[m].vif # v
    BY <1>2 DEF destroy_leases, direct_ip_lease
  <2> DEFINE old == [k \in DOMAIN auto' |-> k]
  <2>2. old \in [DOMAIN auto' -> DOMAIN auto]
    BY <2>1
  <2>3. \A k \in DOMAIN auto' : old[k] = k
    OBVIOUS
  <2> HIDE DEF old
  <2> QED
    BY <1>1, <2>1, <2>2, <2>3
<1>3. CASE direct_ip_lease(v) # {}
  <2>1. PICK i \in DOMAIN auto : auto[i].vif = v /\ auto' = RemoveAt(auto, i)
    BY <1>3 DEF destroy_leases, direct_ip_lease
  <2>2. i \in 1 .. Len(auto) /\ \A m \in DOMAIN auto : m # i => auto[m].vif # v
    BY <1>1, <2>1 DEF OneLease
  <2>3. /\ auto' \in Seq(Lease) /\ Len(auto') = Len(auto) - 1
        /\ \A k \in 1 .. Len(auto) - 1 : auto'[k] = IF k < i THEN auto[k] ELSE auto[k + 1]
    BY <1>1, <2>1, <2>2, Removed
  <2>4. DOMAIN auto' = 1 .. Len(auto) - 1
    BY <1>1, <2>3
  <2> DEFINE old == [k \in DOMAIN auto' |-> IF k < i THEN k ELSE k + 1]
  <2>5. \A k \in DOMAIN auto' : old[k] = IF k < i THEN k ELSE k + 1
    OBVIOUS
  <2>6. old \in [DOMAIN auto' -> DOMAIN auto]
    BY <1>1, <2>2, <2>4
  <2> HIDE DEF old
  <2>7. \A k \in DOMAIN auto' : old[k] # i /\ auto'[k] = auto[old[k]]
    BY <1>1, <2>2, <2>3, <2>4, <2>5
  <2>8. \A k, m \in DOMAIN auto' : old[k] = old[m] => k = m
    BY <1>1, <2>2, <2>4, <2>5
  <2>9. ASSUME NEW m \in DOMAIN auto, m # i PROVE \E k \in DOMAIN auto' : auto'[k] = auto[m]
    <3>1. CASE m < i
      BY <1>1, <2>2, <2>3, <2>4, <2>9, <3>1
    <3>2. CASE ~(m < i)
      <4>1. m - 1 \in 1 .. Len(auto) - 1 /\ ~(m - 1 < i) /\ (m - 1) + 1 = m
        BY <1>1, <2>2, <2>9, <3>2
      <4> QED
        BY <2>3, <2>4, <4>1
    <3> QED
      BY <3>1, <3>2
  <2>10. /\ \A k \in DOMAIN auto' : auto'[k] = auto[old[k]] /\ auto[old[k]].vif # v
         /\ \A k, m \in DOMAIN auto' : old[k] = old[m] => k = m
    BY <2>2, <2>6, <2>7, <2>8
  <2>11. \A m \in DOMAIN auto : auto[m].vif # v => \E k \in DOMAIN auto' : auto'[k] = auto[m]
    BY <2>1, <2>9
  <2> QED
    BY <2>3, <2>6, <2>10, <2>11
<1> QED
  BY <1>2, <1>3

LEMMA ReleaseStep ==
  ASSUME LeaseInv, NEW v \in Vif, release(v)
  PROVE  LeaseInv'
<1>0. TypeOK /\ RangesOK /\ TxOK /\ OneLease /\ NoAddressTwice /\ NothingBlocked
  BY DEF LeaseInv
<1> DEFINE gone == leases_of(v)
<1>1. /\ destroy_leases(v) /\ leased' = leased \ gone /\ past' = [past EXCEPT ![v] = gone]
      /\ UNCHANGED <<order, ranges, tx>>
      /\ struck' = {u \in Vif \ {v} : \/ u \in struck
                                      \/ \E i \in direct_ip_lease(u) : auto[i].addr \in gone}
  BY DEF release, destroy_leases
<1>a. auto \in Seq(Lease) /\ \A i \in DOMAIN auto : auto[i].vif \in Vif /\ auto[i].addr \in Addr
  <2>1. auto \in Seq(Lease) /\ DOMAIN auto = 1 .. Len(auto)
    BY <1>0 DEF TypeOK, Lease
  <2> QED
    BY <2>1, LeaseHas
<1>2. gone \in SUBSET Addr /\ \A i \in DOMAIN auto : auto[i].vif = v => auto[i].addr \in gone
  BY <1>0, <1>a DEF TypeOK, leases_of, direct_ip_lease
<1>3. /\ auto \in Seq(Lease) /\ \A i \in DOMAIN auto : auto[i].vif \in Vif
      /\ \A u : u \in struck' <=> /\ u \in Vif /\ u # v
                                  /\ u \in struck \/ \E i \in DOMAIN auto : auto[i].vif = u /\ auto[i].addr \in gone
  BY <1>0, <1>1, <1>a DEF TypeOK, direct_ip_lease
<1> HIDE DEF gone
<1>4. PICK old \in [DOMAIN auto' -> DOMAIN auto] :
         /\ \A k \in DOMAIN auto' : auto'[k] = auto[old[k]] /\ auto[old[k]].vif # v
         /\ \A k, m \in DOMAIN auto' : old[k] = old[m] => k = m
  BY <1>1, Destroyed
<1>5. /\ auto' \in Seq(Lease)
      /\ \A m \in DOMAIN auto : auto[m].vif # v => \E k \in DOMAIN auto' : auto'[k] = auto[m]
  BY <1>1, Destroyed
<1>6. \A k \in DOMAIN auto' : old[k] \in DOMAIN auto
  BY <1>4
<1>7. OneLease'
  BY <1>0, <1>4, <1>6 DEF OneLease
<1>8. NoAddressTwice'
  <2>1. ASSUME NEW k \in DOMAIN auto' PROVE auto'[k].vif \in struck' \/ auto'[k].addr \in leased'
    <3>1. auto[old[k]].vif \in struck \/ auto[old[k]].addr \in leased
      BY <1>0, <1>6 DEF NoAddressTwice
    <3> QED
      BY <1>1, <1>3, <1>4, <1>6, <3>1
  <2>2. ASSUME NEW k \in DOMAIN auto', NEW m \in DOMAIN auto', auto'[k].addr = auto'[m].addr
        PROVE  k = m \/ auto'[k].vif \in struck' \/ auto'[m].vif \in struck'
    <3>1. old[k] = old[m] \/ auto[old[k]].vif \in struck \/ auto[old[m]].vif \in struck
      BY <1>0, <1>4, <1>6, <2>2 DEF NoAddressTwice
    <3> QED
      BY <1>3, <1>4, <1>6, <3>1
  <2> QED
    BY <2>1, <2>2 DEF NoAddressTwice
<1>9. NothingBlocked'
  BY <1>0, <1>1, <1>2, <1>5 DEF NothingBlocked, reserved_ip
<1>10. TypeOK'
  BY <1>0, <1>1, <1>2, <1>5 DEF TypeOK, Lease
<1>11. TxOK'
  <2>1. ASSUME NEW u \in Vif, direct_ip_lease(u) = {} PROVE direct_ip_lease(u)' = {}
    BY <1>4, <1>6, <2>1 DEF direct_ip_lease
  <2> QED
    BY <1>0, <1>1, <2>1 DEF TxOK, reserved_ip
<1>12. RangesOK'
  BY <1>0, <1>1 DEF RangesOK
<1> QED
  BY <1>7, <1>8, <1>9, <1>10, <1>11, <1>12 DEF LeaseInv

LEMMA RangeStep ==
  ASSUME LeaseInv,
         \/ \E b, e \in Addr : add_ipv4_dynamic_range(b, e)
         \/ \E r \in ranges : del_ipv4_dynamic_range(r)
  PROVE  LeaseInv'
<1>0. TypeOK /\ RangesOK /\ TxOK /\ OneLease /\ NoAddressTwice /\ NothingBlocked
  BY DEF LeaseInv
<1>1. UNCHANGED <<order, leased, auto, past, struck, tx>>
  BY DEF add_ipv4_dynamic_range, del_ipv4_dynamic_range
<1>2. RangesOK'
  BY <1>0 DEF RangesOK, add_ipv4_dynamic_range, del_ipv4_dynamic_range
<1>3. TypeOK'
  BY <1>0, <1>1, <1>2 DEF TypeOK, RangesOK
<1>4. TxOK' /\ OneLease' /\ NoAddressTwice' /\ NothingBlocked'
  BY <1>0, <1>1 DEF TxOK, OneLease, NoAddressTwice, NothingBlocked, reserved_ip, direct_ip_lease
<1> QED
  BY <1>2, <1>3, <1>4 DEF LeaseInv

LEMMA LeaseStep == LeaseInv /\ [Next]_vars => LeaseInv'
<1> SUFFICES ASSUME LeaseInv, [Next]_vars PROVE LeaseInv'
  OBVIOUS
<1>1. CASE UNCHANGED vars
  <2>1. TypeOK' /\ TxOK'
    BY <1>1 DEF vars, LeaseInv, TypeOK, TxOK, reserved_ip, direct_ip_lease
  <2> QED
    BY <1>1, <2>1, SameLeases DEF vars, LeaseInv
<1>2. CASE Next
  BY <1>2, ScheduleStep, SpecifyStep, CommitStep, ReleaseStep, RangeStep DEF Next
<1> QED
  BY <1>1, <1>2

(***************************************************************************)
(* The theorems                                                            *)
(***************************************************************************)

\* The rows of networks, dhcp_ranges and ip_leases and the open transactions
\* always have their types.
THEOREM TypeCorrect == Spec => []TypeOK
<1>1. LeaseInv => TypeOK
  BY DEF LeaseInv
<1> QED
  BY <1>1, InitLease, LeaseStep, PTL DEF Spec

\* In every reachable state the search of Incremental#schedule, over boundary
\* rows, ranges and reserved addresses, yields the next usable address after
\* the newest lease, cyclically, and nil only when there is none.
THEOREM SearchIsRight == Spec => []SearchIsNextUsable
<1>1. LeaseInv => SearchIsNextUsable
  BY WholeSearch DEF LeaseInv, SearchIsNextUsable
<1> QED
  BY <1>1, InitLease, LeaseStep, PTL DEF Spec

\* Two transactions that found the same address do not both lease it, and a live
\* lease has its row in ip_leases and its address alone, unless the row was deleted
\* by a vif that had the address before and was released again.
THEOREM NoDoubleLease == Spec => []NoAddressTwice
<1>1. LeaseInv => NoAddressTwice
  BY DEF LeaseInv
<1> QED
  BY <1>1, InitLease, LeaseStep, PTL DEF Spec

\* A release, also a repeated one, a lost race for an address or an exhausted range leave no row in
\* ip_leases behind: what is leased is a live lease or a reserved address.
THEOREM NothingStaysBlocked == Spec => []NothingBlocked
<1>1. LeaseInv => NothingBlocked
  BY DEF LeaseInv
<1> QED
  BY <1>1, InitLease, LeaseStep, PTL DEF Spec
=============================================================================
