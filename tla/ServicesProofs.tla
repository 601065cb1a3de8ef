--------------------------- MODULE ServicesProofs ---------------------------
(***************************************************************************)
(* What holds of the services around a conversation, whatever the values of *)
(* the constants: the routing of a turn to a connection, the rounds of a    *)
(* streamed turn, the compatible APIs, the login limiter, what a turn is    *)
(* grounded on and how documents come in.  Each part is proved of its own   *)
(* specification, with an inductive invariant that ties what the program    *)
(* keeps to what happened.                                                  *)
(***************************************************************************)
EXTENDS MCServices, Lists, FiniteSetTheorems, WellFoundedInduction, TLAPS

\* The least of some naturals.
LEMMA LeastOfNats ==
    ASSUME NEW S \in SUBSET Nat, S # {}
    PROVE  \E x \in S : \A y \in S : x =< y
<1>1. \E x \in S : \A y \in S : ~(<<y, x>> \in OpToRel(<, Nat))
  BY WFMin, NatLessThanWellFounded
<1>2. \A x, y \in Nat : y < x => <<y, x>> \in OpToRel(<, Nat)
  BY DEF OpToRel
<1>3. PICK x \in S : \A y \in S : ~(<<y, x>> \in OpToRel(<, Nat))
  BY <1>1
<1>4. \A y \in S : ~(y < x)
  BY <1>2, <1>3
<1> QED
  BY <1>4

-----------------------------------------------------------------------------
(* sorted() and list comprehensions. *)

\* R orders S strictly and totally.
Orders(R, S) ==
    /\ \A x \in S : <<x, x>> \notin R
    /\ \A x, y \in S : x # y => <<x, y>> \in R \/ <<y, x>> \in R
    /\ \A x, y, z \in S : <<x, y>> \in R /\ <<y, z>> \in R => <<x, z>> \in R

\* sorted() of a finite set that R orders is a permutation of it, in the order R.
LEMMA OrderedPermutes ==
    ASSUME NEW S, IsFiniteSet(S), NEW R, Orders(R, S)
    PROVE  /\ Cardinality(S) \in Nat
           /\ Ordered(S, R) \in [1..Cardinality(S) -> S]
           /\ \A x \in S : \E k \in 1..Cardinality(S) : Ordered(S, R)[k] = x
           /\ \A i, j \in 1..Cardinality(S) : i < j => <<Ordered(S, R)[i], Ordered(S, R)[j]>> \in R
<1>. DEFINE n == Cardinality(S)
            Below(x) == {y \in S : <<y, x>> \in R}
            rank == [x \in S |-> Cardinality(Below(x)) + 1]
            o == Ordered(S, R)
<1>1. n \in Nat
  BY FS_CardinalityType
<1>2. \A x \in S : IsFiniteSet(Below(x)) /\ Cardinality(Below(x)) \in Nat
  <2>. TAKE x \in S
  <2>1. Below(x) \in SUBSET S
    OBVIOUS
  <2>2. IsFiniteSet(Below(x))
    BY <2>1, FS_Subset
  <2>. QED
    BY <2>2, FS_CardinalityType
<1>3. ASSUME NEW T \in SUBSET S, NEW U \in SUBSET T, U # T
      PROVE  Cardinality(U) < Cardinality(T)
  <2>1. IsFiniteSet(T)
    BY FS_Subset
  <2>2. IsFiniteSet(U) /\ Cardinality(U) <= Cardinality(T) /\ Cardinality(U) # Cardinality(T)
    BY <1>3, <2>1, FS_Subset
  <2>3. Cardinality(U) \in Nat /\ Cardinality(T) \in Nat
    BY <2>1, <2>2, FS_CardinalityType
  <2>. QED
    BY <2>2, <2>3
<1>4. ASSUME NEW x \in S, NEW y \in S, <<x, y>> \in R
      PROVE  rank[x] < rank[y]
  <2>1. Below(x) \subseteq Below(y)
    BY <1>4 DEF Orders
  <2>2. x \in Below(y) /\ x \notin Below(x)
    BY <1>4 DEF Orders
  <2>3. Below(y) \in SUBSET S /\ Below(x) # Below(y)
    BY <2>2
  <2>4. Cardinality(Below(x)) < Cardinality(Below(y))
    BY <1>3, <2>1, <2>3
  <2>. QED
    BY <1>2, <2>4
<1>5. ASSUME NEW x \in S
      PROVE  rank[x] \in 1..n
  <2>1. Below(x) \in SUBSET S /\ Below(x) # S
    BY DEF Orders
  <2>2. Cardinality(Below(x)) < n
    BY <1>3, <2>1
  <2>. QED
    BY <1>1, <1>2, <2>2
<1>6. rank \in [S -> 1..n]
  BY <1>5
<1>7. \A x, y \in S : rank[x] = rank[y] => x = y
  <2>. SUFFICES ASSUME NEW x \in S, NEW y \in S, rank[x] = rank[y], x # y
                PROVE  FALSE
    OBVIOUS
  <2>1. <<x, y>> \in R \/ <<y, x>> \in R
    BY DEF Orders
  <2>2. rank[x] < rank[y] \/ rank[y] < rank[x]
    BY <1>4, <2>1
  <2>3. rank[x] \in Int /\ rank[y] \in Int
    BY <1>5
  <2>. QED
    BY <2>2, <2>3
<1>8. rank \in Injection(S, 1..n)
  BY <1>6, <1>7 DEF Injection, IsInjective
<1>9. IsFiniteSet(1..n) /\ Cardinality(1..n) = n
  <2>1. 1 \in Int /\ n \in Int
    BY <1>1
  <2>2. IsFiniteSet(1..n) /\ Cardinality(1..n) = IF 1 > n THEN 0 ELSE n - 1 + 1
    BY <2>1, FS_Interval
  <2>. QED
    BY <1>1, <2>2
<1>10. rank \in Surjection(S, 1..n)
  BY <1>8, <1>9, FS_Injection
<1>11. \A k \in 1..n : \E x \in S : rank[x] = k
  BY <1>10 DEF Surjection
<1>12. ASSUME NEW k \in 1..n
       PROVE  o[k] \in S /\ rank[o[k]] = k
  <2>1. PICK x \in S : rank[x] = k
    BY <1>11
  <2>2. Cardinality(Below(x)) = k - 1
    BY <1>2, <2>1
  <2>3. o[k] = CHOOSE y \in S : Cardinality(Below(y)) = k - 1
    BY DEF Ordered
  <2>4. o[k] \in S /\ Cardinality(Below(o[k])) = k - 1
    BY <2>2, <2>3
  <2>. QED
    BY <2>4
<1>13. ASSUME NEW x \in S
       PROVE  \E k \in 1..n : o[k] = x
  <2>1. rank[x] \in 1..n /\ o[rank[x]] \in S /\ rank[o[rank[x]]] = rank[x]
    BY <1>5, <1>12
  <2>. QED
    BY <1>7, <2>1
<1>14. ASSUME NEW i \in 1..n, NEW j \in 1..n, i < j
       PROVE  <<o[i], o[j]>> \in R
  <2>1. o[i] \in S /\ o[j] \in S /\ rank[o[i]] = i /\ rank[o[j]] = j
    BY <1>12
  <2>2. o[i] # o[j] /\ ~(<<o[j], o[i]>> \in R)
    BY <1>4, <1>14, <2>1, SMTT(30)
  <2>. QED
    BY <2>1, <2>2 DEF Orders
<1>15. o \in [1..n -> S]
  <2>1. o = [k \in 1..n |-> CHOOSE y \in S : Cardinality(Below(y)) = k - 1]
    BY DEF Ordered
  <2>2. DOMAIN o = 1..n /\ o = [k \in DOMAIN o |-> o[k]]
    BY <2>1
  <2>. HIDE DEF o
  <2>. QED
    BY <1>12, <2>2
<1>. QED
  BY <1>1, <1>13, <1>14, <1>15

\* L lists K in the order R, each member once.
Listing(L, K, R) ==
    /\ L \in Seq(K)
    /\ \A x \in K : \E i \in DOMAIN L : L[i] = x
    /\ \A i, j \in DOMAIN L : i < j => <<L[i], L[j]>> \in R
    /\ \A i, j \in DOMAIN L : i # j => L[i] # L[j]

LEMMA OrderedLists ==
    ASSUME NEW S, IsFiniteSet(S), NEW R, Orders(R, S)
    PROVE  Listing(Ordered(S, R), S, R) /\ Len(Ordered(S, R)) = Cardinality(S)
<1>. DEFINE n == Cardinality(S)
            o == Ordered(S, R)
<1>1. /\ n \in Nat /\ o \in [1..n -> S]
      /\ \A x \in S : \E k \in 1..n : o[k] = x
      /\ \A i, j \in 1..n : i < j => <<o[i], o[j]>> \in R
  BY OrderedPermutes
<1>. HIDE DEF n, o
<1>2. o \in Seq(S) /\ Len(o) = n /\ DOMAIN o = 1..n
  BY <1>1
<1>3. ASSUME NEW i \in 1..n, NEW j \in 1..n, i # j
      PROVE  o[i] # o[j]
  <2>1. i < j \/ j < i
    BY <1>1, <1>3
  <2>2. <<o[i], o[j]>> \in R \/ <<o[j], o[i]>> \in R
    BY <1>1, <2>1
  <2>3. o[i] \in S /\ <<o[i], o[i]>> \notin R
    BY <1>1 DEF Orders
  <2>. QED
    BY <2>2, <2>3
<1>4. Listing(o, S, R)
  BY <1>1, <1>2, <1>3 DEF Listing
<1>. QED
  BY <1>2, <1>4 DEF n, o

\* A listing has as many elements as what it lists.
LEMMA ListingCount ==
    ASSUME NEW K, NEW R, NEW L, Listing(L, K, R)
    PROVE  IsFiniteSet(K) /\ Cardinality(K) = Len(L)
<1>1. Len(L) \in Nat /\ DOMAIN L = 1..Len(L) /\ L \in [1..Len(L) -> K]
  BY DEF Listing
<1>2. L \in Bijection(1..Len(L), K)
  BY <1>1 DEF Listing, Bijection, Injection, Surjection, IsInjective
<1>3. ExistsBijection(1..Len(L), K)
  BY <1>2 DEF ExistsBijection
<1>. QED
  BY <1>1, <1>3, FS_CountingElements, FS_NatBijection

\* The front of a sequence of distinct elements.
LEMMA ListingFront ==
    ASSUME NEW T, NEW L \in Seq(T), NEW n \in Nat,
           \A i, j \in DOMAIN L : i # j => L[i] # L[j]
    PROVE  LET m == IF n < Len(L) THEN n ELSE Len(L)
               F == SubSeq(L, 1, m)
           IN  /\ F \in Seq(T) /\ Len(F) = m /\ DOMAIN F = 1..m
               /\ \A i \in 1..m : i \in DOMAIN L /\ F[i] = L[i]
               /\ Cardinality({F[i] : i \in DOMAIN F}) = Len(F)
<1>. DEFINE m == IF n < Len(L) THEN n ELSE Len(L)
            F == SubSeq(L, 1, m)
            K == {F[i] : i \in DOMAIN F}
<1>1. Len(L) \in Nat /\ DOMAIN L = 1..Len(L) /\ m \in 0..Len(L)
  OBVIOUS
<1>2. /\ F \in Seq(T) /\ Len(F) = m /\ DOMAIN F = 1..m
      /\ \A i \in 1..m : i \in DOMAIN L /\ F[i] = L[i]
  <2>. HIDE DEF m
  <2>. QED
    BY <1>1
<1>. HIDE DEF m, F
<1>3. Listing(F, K, K \X K)
  BY <1>1, <1>2 DEF Listing
<1>4. Cardinality(K) = Len(F)
  BY <1>3, ListingCount
<1>. QED
  BY <1>2, <1>4 DEF m, F

\* a strict total order of a set of numbers.
LEMMA LessOrders == ASSUME NEW K \in SUBSET Int PROVE Orders(Less(K), K)
BY DEF Orders, Less

LEMMA KeyOrders ==
    ASSUME NEW K \in SUBSET Int, NEW keyOf \in [K -> Int]
    PROVE  Orders(ByKey(K, keyOf), K)
<1>. DEFINE R == ByKey(K, keyOf)
<1>1. \A i, j \in K : <<i, j>> \in R <=> keyOf[i] < keyOf[j] \/ (keyOf[i] = keyOf[j] /\ i < j)
  BY DEF ByKey
<1>2. \A i \in K : i \in Int /\ keyOf[i] \in Int
  OBVIOUS
<1>. HIDE DEF R
<1>3. \A x \in K : <<x, x>> \notin R
  BY <1>1, <1>2
<1>4. ASSUME NEW x \in K, NEW y \in K, x # y
      PROVE  <<x, y>> \in R \/ <<y, x>> \in R
  <2>1. \/ keyOf[x] < keyOf[y] \/ keyOf[y] < keyOf[x]
        \/ keyOf[x] = keyOf[y] /\ (x < y \/ y < x)
    BY <1>2, <1>4
  <2>2. /\ <<x, y>> \in R <=> keyOf[x] < keyOf[y] \/ (keyOf[x] = keyOf[y] /\ x < y)
        /\ <<y, x>> \in R <=> keyOf[y] < keyOf[x] \/ (keyOf[y] = keyOf[x] /\ y < x)
    BY <1>1
  <2>. QED
    BY <2>1, <2>2
<1>5. ASSUME NEW x \in K, NEW y \in K, NEW z \in K, <<x, y>> \in R, <<y, z>> \in R
      PROVE  <<x, z>> \in R
  BY <1>1, <1>2, <1>5
<1>6. Orders(R, K)
  BY <1>3, <1>4, <1>5 DEF Orders
<1>. QED
  BY <1>6 DEF R

-----------------------------------------------------------------------------
(* Routing. *)

RoutePcs == {"idle", "committed", "key", "look", "rows", "probe", "answered"}
AllRows == Routing!AllRows
AllProcesses == Routing!AllProcesses

RouteType ==
    /\ version \in [Extras -> 0..MaxVersion] /\ latest \in [Extras -> 0..MaxVersion]
    /\ enabled \in SUBSET Extras /\ \A c \in enabled : version[c] # 0
    /\ clock \in Nat
    /\ routePc \in [Requests \cup Admins -> RoutePcs]
    /\ model \in [Requests -> Models \cup {None}] /\ key \in [Requests -> SUBSET Extras]
    /\ taken \in [Requests -> Nat] /\ rows \in [Requests -> SUBSET AllRows]
    /\ answer \in [Requests -> AllRows \cup {None}] /\ fresh \in [Requests -> SUBSET AllRows]
    /\ DOMAIN map = AllProcesses /\ excused \in [AllProcesses -> SUBSET AllRows]
    /\ over \in [AllRows -> Nat \cup {None}]

\* Row may serve process p with what was read at time t: it is enabled as it is, or it
\* was until t at least and p may not know.
Serves(row, p, t) ==
    \/ row \in Routing!Current
    \/ row \in excused[p] /\ row \in AllRows /\ over[row] \in Nat /\ t <= over[row]

\* The rows of a map may serve its process since they were read.
MapsServe ==
    \A p \in AllProcesses : map[p] # None =>
         /\ map[p].expires \in Nat /\ map[p].expires <= clock + TTL
         /\ \A m \in DOMAIN map[p].routes :
              \/ map[p].routes[m] = Routing!EnvRow
              \/ Serves(map[p].routes[m], p, map[p].expires - TTL)

\* A request knows what has been enabled since it began, and the rows it probes may serve
\* its process.
Knows(r) ==
    /\ routePc[r] \in {"key", "look", "rows", "probe"} => Routing!Current \subseteq fresh[r]
    /\ rows[r] \subseteq fresh[r]
    /\ rows[r] # {} => routePc[r] = "probe"
    /\ taken[r] <= clock
    /\ \A row \in rows[r] : Serves(row, Process[r], taken[r])

RouteInv == MapsServe /\ \A r \in Requests : Knows(r)

LEMMA CurrentRows == RouteType => Routing!Current \subseteq AllRows
BY DEF RouteType, Routing!Current, Routing!Row, AllRows, Routing!AllRows

LEMMA EnvIsRow == Routing!EnvRow \in AllRows
BY DEF AllRows, Routing!AllRows

LEMMA ProcessOf == \A x \in Requests \cup Admins : Process[x] \in AllProcesses
BY DEF AllProcesses, Routing!AllProcesses

\* A model is routed to a connection that listed it.
LEMMA RoutesAreListed ==
    ASSUME NEW probed \in SUBSET AllRows, NEW lists \in [probed -> {{}, Models}],
           NEW m \in DOMAIN Routing!Routes(lists)
    PROVE  Routing!Routes(lists)[m] \in probed
<1> DEFINE T == {row \in probed : m \in lists[row]}
           S == {row[1] : row \in T}
<1>1. T # {}
  BY DEF Routing!Routes
<1>2. \A row \in AllRows : row[1] \in Nat
  <2> SUFFICES ASSUME NEW row \in AllRows PROVE row[1] \in Nat
    OBVIOUS
  <2>1. CASE row = Routing!EnvRow
    BY <2>1 DEF Routing!EnvRow, Routing!Env
  <2>2. CASE row \in Extras \X (1..MaxVersion)
    <3>1. row[1] \in Extras
      BY <2>2
    <3> QED
      BY <3>1, RoutingAssumption
  <2> QED
    BY <2>1, <2>2 DEF AllRows, Routing!AllRows
<1>3. S \in SUBSET Nat /\ S # {}
  BY <1>1, <1>2
<1>4. PICK x \in S : \A y \in S : x =< y
  BY <1>3, LeastOfNats
<1>5. PICK row \in T : row[1] = x
  BY <1>4
<1>6. row \in probed /\ m \in lists[row] /\ \A other \in probed : m \in lists[other] => row[1] <= other[1]
  BY <1>4, <1>5
<1>7. Routing!First(lists, m) \in probed
  BY <1>6 DEF Routing!First
<1> QED
  BY <1>7 DEF Routing!Routes

\* What a request is answered with was listed, or is the environment's.
LEMMA RouteIsListed ==
    ASSUME NEW routes, NEW m
    PROVE  \/ Routing!Route(routes, m) = Routing!EnvRow
           \/ m \in DOMAIN routes /\ Routing!Route(routes, m) = routes[m]
BY DEF Routing!Route

LEMMA BecomesType ==
    ASSUME RouteType, NEW a \in Admins, routePc[a] = "idle",
           NEW v \in [Extras -> 0..MaxVersion], NEW on \in SUBSET Extras,
           \A c \in on : v[c] # 0, latest' \in [Extras -> 0..MaxVersion],
           Routing!Becomes(v, on, a)
    PROVE  RouteType'
<1>1. {<<c, v[c]>> : c \in on} \subseteq AllRows
  BY DEF AllRows, Routing!AllRows
<1>2. fresh' \in [Requests -> SUBSET AllRows]
  BY <1>1 DEF Routing!Becomes, RouteType
<1>3. excused' \in [AllProcesses -> SUBSET AllRows]
  BY CurrentRows DEF Routing!Becomes, RouteType
<1>4. over' \in [AllRows -> Nat \cup {None}]
  BY DEF Routing!Becomes, RouteType
<1>5. routePc' \in [Requests \cup Admins -> RoutePcs]
  BY DEF Routing!Becomes, Routing!Goto, RouteType, RoutePcs
<1> QED
  BY <1>2, <1>3, <1>4, <1>5 DEF Routing!Becomes, RouteType, Routing!requestVars

LEMMA AnswerType ==
    ASSUME RouteType, NEW r \in Requests, NEW row \in AllRows, Routing!Answer(r, row)
    PROVE  /\ answer' \in [Requests -> AllRows \cup {None}] /\ rows' \in [Requests -> SUBSET AllRows]
           /\ key' \in [Requests -> SUBSET Extras] /\ taken' \in [Requests -> Nat]
           /\ routePc' \in [Requests \cup Admins -> RoutePcs]
BY DEF Routing!Answer, Routing!Goto, RouteType, RoutePcs

\* What may serve is a row.
LEMMA ServersAreRows ==
    ASSUME RouteType, NEW row, NEW p, NEW t, Serves(row, p, t)
    PROVE  row \in AllRows
BY CurrentRows DEF Serves

LEMMA LooksAtRows ==
    ASSUME RouteType, RouteInv, NEW r \in Requests, Routing!Hit(r)
    PROVE  LET p == Process[r]
               row == Routing!Route(map[p].routes, model[r])
           IN  /\ p \in AllProcesses /\ row \in AllRows
               /\ map[p].expires \in Nat /\ map[p].expires > clock
               /\ row = Routing!EnvRow \/ Serves(row, p, map[p].expires - TTL)
<1> DEFINE p == Process[r]
           row == Routing!Route(map[p].routes, model[r])
<1>1. p \in AllProcesses
  BY ProcessOf
<1>2. map[p] # None /\ map[p].expires > clock
  BY DEF Routing!Hit
<1>3. /\ map[p].expires \in Nat
      /\ \A m \in DOMAIN map[p].routes :
           \/ map[p].routes[m] = Routing!EnvRow
           \/ Serves(map[p].routes[m], p, map[p].expires - TTL)
  BY <1>1, <1>2 DEF RouteInv, MapsServe, Knows
<1>4. row = Routing!EnvRow \/ Serves(row, p, map[p].expires - TTL)
  BY <1>3, RouteIsListed
<1>5. row \in AllRows
  BY <1>4, EnvIsRow, ServersAreRows
<1> QED
  BY <1>1, <1>2, <1>3, <1>4, <1>5

LEMMA RouteTypeStep ==
    ASSUME RouteType, RouteInv, [Routing!Next]_routing
    PROVE  RouteType'
<1> USE DEF RoutePcs
<1>1. ASSUME NEW a \in Admins, Routing!Create(a) PROVE RouteType'
  <2>1. PICK c \in Extras, on \in BOOLEAN :
          /\ latest[c] = 0 /\ latest' = [latest EXCEPT ![c] = 1]
          /\ Routing!Becomes([version EXCEPT ![c] = 1], IF on THEN enabled \cup {c} ELSE enabled, a)
    BY <1>1 DEF Routing!Create, Routing!Absent
  <2>2. /\ [version EXCEPT ![c] = 1] \in [Extras -> 0..MaxVersion]
        /\ latest' \in [Extras -> 0..MaxVersion]
    BY <2>1, RoutingAssumption DEF RouteType
  <2>3. routePc[a] = "idle" /\ (IF on THEN enabled \cup {c} ELSE enabled) \in SUBSET Extras
    BY <1>1 DEF Routing!Create, RouteType
  <2>4. \A d \in (IF on THEN enabled \cup {c} ELSE enabled) : [version EXCEPT ![c] = 1][d] # 0
    BY DEF RouteType
  <2> QED
    BY <2>1, <2>2, <2>3, <2>4, BecomesType
<1>2. ASSUME NEW a \in Admins, Routing!Patch(a) PROVE RouteType'
  <2>1. PICK c \in Extras, on \in BOOLEAN :
          /\ latest[c] < MaxVersion /\ latest' = [latest EXCEPT ![c] = @ + 1]
          /\ Routing!Becomes([version EXCEPT ![c] = latest[c] + 1],
                             IF on THEN enabled \cup {c} ELSE enabled \ {c}, a)
    BY <1>2 DEF Routing!Patch
  <2>2. /\ [version EXCEPT ![c] = latest[c] + 1] \in [Extras -> 0..MaxVersion]
        /\ latest' \in [Extras -> 0..MaxVersion] /\ latest[c] + 1 # 0
    BY <2>1, RoutingAssumption DEF RouteType
  <2>3. routePc[a] = "idle" /\ (IF on THEN enabled \cup {c} ELSE enabled \ {c}) \in SUBSET Extras
    BY <1>2 DEF Routing!Patch, RouteType
  <2>4. \A d \in (IF on THEN enabled \cup {c} ELSE enabled \ {c}) :
          [version EXCEPT ![c] = latest[c] + 1][d] # 0
    BY <2>2 DEF RouteType
  <2> QED
    BY <2>1, <2>2, <2>3, <2>4, BecomesType
<1>3. ASSUME NEW a \in Admins, Routing!Delete(a) PROVE RouteType'
  <2>1. PICK c \in Extras :
          /\ UNCHANGED latest
          /\ Routing!Becomes([version EXCEPT ![c] = 0], enabled \ {c}, a)
    BY <1>3 DEF Routing!Delete, Routing!Absent
  <2>2. [version EXCEPT ![c] = 0] \in [Extras -> 0..MaxVersion] /\ latest' \in [Extras -> 0..MaxVersion]
    BY <2>1, RoutingAssumption DEF RouteType
  <2>3. routePc[a] = "idle" /\ enabled \ {c} \in SUBSET Extras
    BY <1>3 DEF Routing!Delete, RouteType
  <2>4. \A d \in enabled \ {c} : [version EXCEPT ![c] = 0][d] # 0
    BY DEF RouteType
  <2> QED
    BY <2>1, <2>2, <2>3, <2>4, BecomesType
<1>4. ASSUME NEW a \in Admins, Routing!Invalidate(a) PROVE RouteType'
  <2>1. Process[a] \in AllProcesses
    BY ProcessOf
  <2>2. excused' \in [AllProcesses -> SUBSET AllRows]
    BY <1>4, <2>1 DEF Routing!Invalidate, RouteType
  <2>3. DOMAIN map' = AllProcesses
    BY <1>4, <2>1 DEF Routing!Invalidate, RouteType
  <2>4. routePc' \in [Requests \cup Admins -> RoutePcs]
    BY <1>4 DEF Routing!Invalidate, Routing!Goto, RouteType
  <2> QED
    BY <1>4, <2>2, <2>3, <2>4 DEF Routing!Invalidate, RouteType, Routing!requestVars
<1>5. ASSUME NEW r \in Requests, Routing!HasExtra(r) PROVE RouteType'
  <2>1. model' \in [Requests -> Models \cup {None}]
    BY <1>5 DEF Routing!HasExtra, RouteType
  <2>2. fresh' \in [Requests -> SUBSET AllRows]
    BY <1>5, CurrentRows DEF Routing!HasExtra, RouteType
  <2>3. /\ answer' \in [Requests -> AllRows \cup {None}] /\ rows' \in [Requests -> SUBSET AllRows]
        /\ key' \in [Requests -> SUBSET Extras] /\ taken' \in [Requests -> Nat]
        /\ routePc' \in [Requests \cup Admins -> RoutePcs]
    <3>1. CASE enabled = {}
      <4>1. Routing!Answer(r, Routing!EnvRow)
        BY <1>5, <3>1 DEF Routing!HasExtra
      <4> QED
        BY <4>1, AnswerType, EnvIsRow
    <3>2. CASE enabled # {}
      BY <1>5, <3>2 DEF Routing!HasExtra, Routing!Goto, RouteType
    <3> QED
      BY <3>1, <3>2
  <2> QED
    BY <1>5, <2>1, <2>2, <2>3 DEF Routing!HasExtra, RouteType
<1>6. ASSUME NEW r \in Requests, Routing!ReadKey(r) PROVE RouteType'
  <2>1. key' \in [Requests -> SUBSET Extras] /\ routePc' \in [Requests \cup Admins -> RoutePcs]
    BY <1>6 DEF Routing!ReadKey, Routing!Goto, RouteType
  <2> QED
    BY <1>6, <2>1 DEF Routing!ReadKey, RouteType
<1>7. ASSUME NEW r \in Requests, Routing!Look(r) PROVE RouteType'
  <2>1. /\ answer' \in [Requests -> AllRows \cup {None}] /\ rows' \in [Requests -> SUBSET AllRows]
        /\ key' \in [Requests -> SUBSET Extras] /\ taken' \in [Requests -> Nat]
        /\ routePc' \in [Requests \cup Admins -> RoutePcs]
    <3>1. CASE Routing!Hit(r)
      <4>1. Routing!Answer(r, Routing!Route(map[Process[r]].routes, model[r]))
        BY <1>7, <3>1 DEF Routing!Look
      <4> QED
        BY <3>1, <4>1, LooksAtRows, AnswerType
    <3>2. CASE ~Routing!Hit(r)
      BY <1>7, <3>2 DEF Routing!Look, Routing!Goto, RouteType
    <3> QED
      BY <3>1, <3>2
  <2> QED
    BY <1>7, <2>1 DEF Routing!Look, RouteType
<1>8. ASSUME NEW r \in Requests, Routing!ReadRows(r) PROVE RouteType'
  <2>1. rows' \in [Requests -> SUBSET AllRows] /\ routePc' \in [Requests \cup Admins -> RoutePcs]
    BY <1>8, CurrentRows DEF Routing!ReadRows, Routing!Goto, RouteType
  <2> QED
    BY <1>8, <2>1 DEF Routing!ReadRows, RouteType
<1>9. ASSUME NEW r \in Requests, Routing!Probe(r) PROVE RouteType'
  <2>1. PICK lists \in [{Routing!EnvRow} \cup rows[r] -> {{}, Models}] :
          Routing!Answer(r, Routing!Route(Routing!Routes(lists), model[r]))
    BY <1>9 DEF Routing!Probe
  <2>2. {Routing!EnvRow} \cup rows[r] \in SUBSET AllRows
    BY EnvIsRow DEF RouteType
  <2>3. Routing!Route(Routing!Routes(lists), model[r]) \in AllRows
    BY <2>2, RouteIsListed, RoutesAreListed, EnvIsRow
  <2>4. /\ answer' \in [Requests -> AllRows \cup {None}] /\ rows' \in [Requests -> SUBSET AllRows]
        /\ key' \in [Requests -> SUBSET Extras] /\ taken' \in [Requests -> Nat]
        /\ routePc' \in [Requests \cup Admins -> RoutePcs]
    BY <2>1, <2>3, AnswerType
  <2>5. DOMAIN map' = AllProcesses
    BY <1>9 DEF Routing!Probe, RouteType
  <2> QED
    BY <1>9, <2>4, <2>5 DEF Routing!Probe, RouteType
<1>10. CASE Routing!Tick
  BY <1>10 DEF Routing!Tick, RouteType, Routing!requestVars
<1>11. CASE UNCHANGED routing
  BY <1>11 DEF routing, RouteType
<1> QED
  BY <1>1, <1>2, <1>3, <1>4, <1>5, <1>6, <1>7, <1>8, <1>9, <1>10, <1>11 DEF Routing!Next

\* A change leaves what may serve able to, if it was read by now.
LEMMA BecomesKeeps ==
    ASSUME RouteType, NEW a \in Admins, NEW v \in [Extras -> 0..MaxVersion],
           NEW on \in SUBSET Extras, Routing!Becomes(v, on, a),
           NEW p \in AllProcesses, NEW t \in Int, t <= clock, NEW row, Serves(row, p, t)
    PROVE  Serves(row, p, t)'
<1> DEFINE current == {<<c, v[c]>> : c \in on}
           dropped == Routing!Current \ current
<1>1. row \in AllRows
  BY ServersAreRows
<1>2. /\ excused' = [q \in DOMAIN excused |-> excused[q] \cup dropped]
      /\ over' = [other \in DOMAIN over |-> IF other \in dropped THEN clock ELSE over[other]]
      /\ version' = v /\ enabled' = on
  BY DEF Routing!Becomes
<1>3. excused'[p] = excused[p] \cup dropped
  BY <1>2 DEF RouteType
<1>4. over'[row] = IF row \in dropped THEN clock ELSE over[row]
  BY <1>1, <1>2 DEF RouteType
<1>5. Routing!Current' = current
  BY <1>2 DEF Routing!Current, Routing!Row
<1>6. clock \in Nat
  BY DEF RouteType
<1>7. CASE row \in dropped
  BY <1>1, <1>3, <1>4, <1>6, <1>7 DEF Serves
<1>8. CASE row \notin dropped /\ row \in Routing!Current
  BY <1>5, <1>8 DEF Serves
<1>9. CASE row \notin dropped /\ row \notin Routing!Current
  BY <1>1, <1>3, <1>4, <1>9 DEF Serves
<1> QED
  BY <1>7, <1>8, <1>9

LEMMA BecomesInv ==
    ASSUME RouteType, RouteInv, NEW a \in Admins, NEW v \in [Extras -> 0..MaxVersion],
           NEW on \in SUBSET Extras, Routing!Becomes(v, on, a)
    PROVE  RouteInv'
<1>1. /\ UNCHANGED <<map, clock, taken, rows>> /\ enabled' = on /\ version' = v
      /\ fresh' = [r \in Requests |-> fresh[r] \cup {<<c, v[c]>> : c \in on}]
  BY DEF Routing!Becomes, Routing!requestVars
<1>2. Routing!Current' = {<<c, v[c]>> : c \in on}
  BY <1>1 DEF Routing!Current, Routing!Row
<1>3. \A r \in Requests : routePc'[r] = routePc[r]
  BY RoutingAssumption DEF Routing!Becomes, Routing!Goto, RouteType
<1>4. clock \in Nat /\ TTL \in Nat /\ \A r \in Requests : taken[r] \in Nat
  BY RoutingAssumption DEF RouteType
<1>5. ASSUME NEW r \in Requests
      PROVE  /\ routePc'[r] \in {"key", "look", "rows", "probe"} => Routing!Current' \subseteq fresh'[r]
             /\ rows'[r] \subseteq fresh'[r]
             /\ rows'[r] # {} => routePc'[r] = "probe"
             /\ taken'[r] <= clock'
             /\ \A row \in rows'[r] : Serves(row, Process[r], taken[r])'
  <2>1. Process[r] \in AllProcesses /\ taken[r] \in Int /\ taken[r] <= clock
    BY ProcessOf, <1>4 DEF RouteInv, MapsServe, Knows
  <2>2. \A row \in rows[r] : Serves(row, Process[r], taken[r])
    BY DEF RouteInv, MapsServe, Knows
  <2>3. \A row \in rows'[r] : Serves(row, Process[r], taken[r])'
    BY <1>1, <2>1, <2>2, BecomesKeeps
  <2> QED
    BY <1>1, <1>2, <1>3, <2>3 DEF RouteInv, MapsServe, Knows
<1>6. ASSUME NEW p \in AllProcesses, map'[p] # None
      PROVE  /\ map'[p].expires \in Nat /\ map'[p].expires <= clock' + TTL
             /\ \A m \in DOMAIN map'[p].routes :
                  \/ map'[p].routes[m] = Routing!EnvRow
                  \/ Serves(map[p].routes[m], p, map[p].expires - TTL)'
  <2>1. /\ map[p].expires \in Nat /\ map[p].expires <= clock + TTL
        /\ \A m \in DOMAIN map[p].routes :
             \/ map[p].routes[m] = Routing!EnvRow
             \/ Serves(map[p].routes[m], p, map[p].expires - TTL)
    BY <1>1, <1>6 DEF RouteInv, MapsServe, Knows
  <2>2. map[p].expires - TTL \in Int /\ map[p].expires - TTL <= clock
    BY <1>4, <2>1
  <2> QED
    BY <1>1, <2>1, <2>2, BecomesKeeps
<1> QED
  BY <1>1, <1>5, <1>6 DEF RouteInv, MapsServe, Knows, Serves

LEMMA InvalidateInv ==
    ASSUME RouteType, RouteInv, NEW a \in Admins, Routing!Invalidate(a)
    PROVE  RouteInv'
<1> DEFINE p == Process[a]
<1>1. p \in AllProcesses
  BY ProcessOf
<1>2. /\ UNCHANGED <<version, enabled, over, clock, taken, rows, fresh>>
      /\ map' = [map EXCEPT ![p] = None]
      /\ excused' = [excused EXCEPT ![p] = @ \cap Routing!Probed(p)]
  BY DEF Routing!Invalidate, Routing!requestVars
<1>3. \A q \in AllProcesses : q # p => excused'[q] = excused[q] /\ map'[q] = map[q]
  BY <1>2 DEF RouteType
<1>4. map'[p] = None /\ excused'[p] = excused[p] \cap Routing!Probed(p)
  BY <1>1, <1>2 DEF RouteType
<1>5. \A r \in Requests : routePc'[r] = routePc[r]
  BY RoutingAssumption DEF Routing!Invalidate, Routing!Goto, RouteType
<1>6. Routing!Current' = Routing!Current
  BY <1>2 DEF Routing!Current, Routing!Row
<1>7. ASSUME NEW r \in Requests, NEW row \in rows[r]
      PROVE  Serves(row, Process[r], taken[r])'
  <2>1. Serves(row, Process[r], taken[r])
    BY DEF RouteInv, MapsServe, Knows
  <2>2. CASE Process[r] = p
    <3>1. row \in Routing!Probed(p)
      BY <2>2 DEF Routing!Probed
    <3> QED
      BY <1>2, <1>4, <1>6, <2>1, <2>2, <3>1 DEF Serves
  <2>3. CASE Process[r] # p
    BY <1>2, <1>3, <1>6, <2>1, <2>3, ProcessOf DEF Serves
  <2> QED
    BY <2>2, <2>3
<1>8. ASSUME NEW r \in Requests PROVE Knows(r)'
  BY <1>2, <1>5, <1>6, <1>7 DEF RouteInv, MapsServe, Knows
<1>9. MapsServe'
  <2> SUFFICES ASSUME NEW q \in AllProcesses, map'[q] # None
               PROVE  /\ map'[q].expires \in Nat /\ map'[q].expires <= clock' + TTL
                      /\ \A m \in DOMAIN map'[q].routes :
                           \/ map'[q].routes[m] = Routing!EnvRow
                           \/ Serves(map[q].routes[m], q, map[q].expires - TTL)'
    BY DEF MapsServe
  <2>1. q # p /\ map'[q] = map[q] /\ excused'[q] = excused[q]
    BY <1>3, <1>4
  <2>2. /\ map[q].expires \in Nat /\ map[q].expires <= clock + TTL
        /\ \A m \in DOMAIN map[q].routes :
             \/ map[q].routes[m] = Routing!EnvRow
             \/ Serves(map[q].routes[m], q, map[q].expires - TTL)
    BY <2>1 DEF RouteInv, MapsServe, Knows
  <2> QED
    BY <1>2, <1>6, <2>1, <2>2 DEF Serves
<1> QED
  BY <1>8, <1>9 DEF RouteInv

\* A request whose step changes no connection: the others know what they knew, and the
\* map serves if it stays.
LEMMA OthersKnow ==
    ASSUME RouteType, RouteInv, NEW r \in Requests,
           UNCHANGED <<version, enabled, over, clock, excused>>,
           \A q \in Requests \ {r} :
             /\ routePc'[q] = routePc[q] /\ rows'[q] = rows[q] /\ taken'[q] = taken[q]
             /\ fresh'[q] = fresh[q]
    PROVE  (\A q \in Requests \ {r} : Knows(q)') /\ (map' = map => MapsServe')
<1>1. Routing!Current' = Routing!Current
  BY DEF Routing!Current, Routing!Row
<1>2. ASSUME NEW q \in Requests \ {r} PROVE Knows(q)'
  <2>1. Knows(q)
    BY DEF RouteInv
  <2> QED
    BY <1>1, <2>1 DEF Knows, Serves
<1>3. map' = map => MapsServe'
  BY <1>1 DEF RouteInv, MapsServe, Serves
<1> QED
  BY <1>2, <1>3

LEMMA AnswerKnows ==
    ASSUME RouteType, NEW r \in Requests, NEW row, Routing!Answer(r, row), clock' = clock
    PROVE  /\ Knows(r)'
           /\ \A q \in Requests \ {r} :
                /\ routePc'[q] = routePc[q] /\ rows'[q] = rows[q] /\ taken'[q] = taken[q]
                /\ answer'[q] = answer[q]
           /\ answer'[r] = row
BY DEF Routing!Answer, Routing!Goto, RouteType, Knows

LEMMA HasExtraInv ==
    ASSUME RouteType, RouteInv, NEW r \in Requests, Routing!HasExtra(r)
    PROVE  RouteInv'
<1>1. UNCHANGED <<version, enabled, over, clock, excused, map>>
  BY DEF Routing!HasExtra
<1>2. fresh'[r] = Routing!Current /\ \A q \in Requests \ {r} : fresh'[q] = fresh[q]
  BY DEF Routing!HasExtra, RouteType
<1>3. Routing!Current' = Routing!Current
  BY <1>1 DEF Routing!Current, Routing!Row
<1>4. Knows(r)' /\ \A q \in Requests \ {r} :
        routePc'[q] = routePc[q] /\ rows'[q] = rows[q] /\ taken'[q] = taken[q]
  <2>1. CASE enabled = {}
    <3>1. Routing!Answer(r, Routing!EnvRow)
      BY <2>1 DEF Routing!HasExtra
    <3> QED
      BY <1>1, <3>1, AnswerKnows
  <2>2. CASE enabled # {}
    <3>1. routePc' = [routePc EXCEPT ![r] = "key"] /\ UNCHANGED <<rows, taken>>
      BY <2>2 DEF Routing!HasExtra, Routing!Goto
    <3>2. rows[r] = {} /\ taken[r] <= clock
      <4>1. routePc[r] = "idle" /\ Knows(r)
        BY DEF Routing!HasExtra, RouteInv
      <4> QED
        BY <4>1 DEF Knows
    <3>3. \A q \in Requests \ {r} : routePc'[q] = routePc[q]
      BY <3>1 DEF RouteType
    <3> QED
      BY <1>1, <1>2, <1>3, <3>1, <3>2, <3>3 DEF Knows
  <2> QED
    BY <2>1, <2>2
<1> QED
  BY <1>1, <1>2, <1>4, OthersKnow DEF RouteInv

LEMMA ReadKeyInv ==
    ASSUME RouteType, RouteInv, NEW r \in Requests, Routing!ReadKey(r)
    PROVE  RouteInv'
<1>1. /\ UNCHANGED <<version, enabled, over, clock, excused, map, rows, taken, fresh>>
      /\ routePc[r] = "key" /\ routePc' = [routePc EXCEPT ![r] = "look"]
  BY DEF Routing!ReadKey, Routing!Goto
<1>2. routePc'[r] = "look" /\ \A q \in Requests \ {r} : routePc'[q] = routePc[q]
  BY <1>1 DEF RouteType
<1>3. Routing!Current' = Routing!Current
  BY <1>1 DEF Routing!Current, Routing!Row
<1>4. Knows(r)'
  BY <1>1, <1>2, <1>3 DEF RouteInv, Knows
<1> QED
  BY <1>1, <1>2, <1>4, OthersKnow DEF RouteInv

LEMMA LookInv ==
    ASSUME RouteType, RouteInv, NEW r \in Requests, Routing!Look(r)
    PROVE  RouteInv'
<1>1. UNCHANGED <<version, enabled, over, clock, excused, map, fresh>> /\ routePc[r] = "look"
  BY DEF Routing!Look
<1>2. Routing!Current' = Routing!Current
  BY <1>1 DEF Routing!Current, Routing!Row
<1>3. Knows(r)' /\ \A q \in Requests \ {r} :
        routePc'[q] = routePc[q] /\ rows'[q] = rows[q] /\ taken'[q] = taken[q]
  <2>1. CASE Routing!Hit(r)
    <3>1. Routing!Answer(r, Routing!Route(map[Process[r]].routes, model[r]))
      BY <2>1 DEF Routing!Look
    <3> QED
      BY <1>1, <3>1, AnswerKnows
  <2>2. CASE ~Routing!Hit(r)
    <3>1. /\ routePc' = [routePc EXCEPT ![r] = "rows"] /\ rows' = rows
          /\ taken' = [taken EXCEPT ![r] = clock]
      BY <2>2 DEF Routing!Look, Routing!Goto
    <3>2. rows[r] = {} /\ Routing!Current \subseteq fresh[r]
      BY <1>1 DEF RouteInv, Knows
    <3>3. /\ routePc'[r] = "rows" /\ taken'[r] = clock /\ clock <= clock
          /\ \A q \in Requests \ {r} : routePc'[q] = routePc[q] /\ taken'[q] = taken[q]
      BY <3>1 DEF RouteType
    <3> QED
      BY <1>1, <1>2, <3>1, <3>2, <3>3 DEF Knows
  <2> QED
    BY <2>1, <2>2
<1> QED
  BY <1>1, <1>3, OthersKnow DEF RouteInv

LEMMA ReadRowsInv ==
    ASSUME RouteType, RouteInv, NEW r \in Requests, Routing!ReadRows(r)
    PROVE  RouteInv'
<1>1. /\ UNCHANGED <<version, enabled, over, clock, excused, map, fresh, taken>>
      /\ routePc[r] = "rows" /\ routePc' = [routePc EXCEPT ![r] = "probe"]
      /\ rows' = [rows EXCEPT ![r] = Routing!Current]
  BY DEF Routing!ReadRows, Routing!Goto
<1>2. Routing!Current' = Routing!Current
  BY <1>1 DEF Routing!Current, Routing!Row
<1>3. /\ routePc'[r] = "probe" /\ rows'[r] = Routing!Current
      /\ \A q \in Requests \ {r} : routePc'[q] = routePc[q] /\ rows'[q] = rows[q]
  BY <1>1 DEF RouteType
<1>4. Routing!Current \subseteq fresh[r] /\ taken[r] <= clock
  BY <1>1 DEF RouteInv, Knows
<1>5. Knows(r)'
  BY <1>1, <1>2, <1>3, <1>4 DEF Knows, Serves
<1> QED
  BY <1>1, <1>3, <1>5, OthersKnow DEF RouteInv

LEMMA ProbeInv ==
    ASSUME RouteType, RouteInv, NEW r \in Requests, Routing!Probe(r)
    PROVE  RouteInv'
<1> DEFINE probed == {Routing!EnvRow} \cup rows[r]
           p == Process[r]
<1>1. PICK lists \in [probed -> {{}, Models}] :
        /\ map' = [map EXCEPT ![p] = [key |-> key[r], routes |-> Routing!Routes(lists),
                                      expires |-> taken[r] + TTL]]
        /\ Routing!Answer(r, Routing!Route(Routing!Routes(lists), model[r]))
  BY DEF Routing!Probe
<1>2. UNCHANGED <<version, enabled, over, clock, excused, fresh>>
  BY DEF Routing!Probe
<1>3. Routing!Current' = Routing!Current
  BY <1>2 DEF Routing!Current, Routing!Row
<1>4. Knows(r)' /\ \A q \in Requests \ {r} :
        routePc'[q] = routePc[q] /\ rows'[q] = rows[q] /\ taken'[q] = taken[q]
  BY <1>1, <1>2, AnswerKnows
<1>5. p \in AllProcesses /\ probed \in SUBSET AllRows
  BY ProcessOf, EnvIsRow DEF RouteType
<1>6. taken[r] \in Nat /\ TTL \in Nat /\ clock \in Nat /\ taken[r] <= clock
      /\ \A row \in rows[r] : Serves(row, p, taken[r])
  BY RoutingAssumption DEF RouteType, RouteInv, Knows
<1>7. \A m \in DOMAIN Routing!Routes(lists) : Routing!Routes(lists)[m] \in probed
  BY <1>5, RoutesAreListed
<1>8. map'[p].expires = taken[r] + TTL /\ map'[p].routes = Routing!Routes(lists)
  BY <1>1, <1>5 DEF RouteType
<1>9. \A q \in AllProcesses : q # p => map'[q] = map[q]
  BY <1>1 DEF RouteType
<1>10. MapsServe'
  <2> SUFFICES ASSUME NEW q \in AllProcesses, map'[q] # None
               PROVE  /\ map'[q].expires \in Nat /\ map'[q].expires <= clock' + TTL
                      /\ \A m \in DOMAIN map'[q].routes :
                           \/ map'[q].routes[m] = Routing!EnvRow
                           \/ Serves(map[q].routes[m], q, map[q].expires - TTL)'
    BY DEF MapsServe
  <2>1. CASE q = p
    <3>1. map'[q].expires - TTL = taken[r]
      BY <1>6, <1>8, <2>1
    <3>2. ASSUME NEW row \in rows[r] PROVE Serves(row, p, map'[q].expires - TTL)
      BY <1>6, <3>1
    <3> QED
      BY <1>2, <1>3, <1>6, <1>7, <1>8, <2>1, <3>1, <3>2 DEF Serves
  <2>2. CASE q # p
    <3>1. map'[q] = map[q]
      BY <1>9, <2>2
    <3>2. /\ map[q].expires \in Nat /\ map[q].expires <= clock + TTL
          /\ \A m \in DOMAIN map[q].routes :
               \/ map[q].routes[m] = Routing!EnvRow
               \/ Serves(map[q].routes[m], q, map[q].expires - TTL)
      BY <3>1 DEF RouteInv, MapsServe
    <3> QED
      BY <1>2, <1>3, <3>1, <3>2 DEF Serves
  <2> QED
    BY <2>1, <2>2
<1> QED
  BY <1>2, <1>4, <1>10, OthersKnow DEF RouteInv

LEMMA TickInv ==
    ASSUME RouteType, RouteInv, Routing!Tick
    PROVE  RouteInv'
<1>1. /\ UNCHANGED <<version, enabled, over, excused, map, fresh, rows, taken, routePc>>
      /\ clock' = clock + 1
  BY DEF Routing!Tick, Routing!requestVars
<1>2. Routing!Current' = Routing!Current
  BY <1>1 DEF Routing!Current, Routing!Row
<1>3. clock \in Nat /\ TTL \in Nat /\ \A r \in Requests : taken[r] \in Nat
  BY RoutingAssumption DEF RouteType
<1>4. ASSUME NEW r \in Requests PROVE Knows(r)'
  <2>1. taken'[r] <= clock'
    BY <1>1, <1>3 DEF RouteInv, Knows
  <2> QED
    BY <1>1, <1>2, <2>1 DEF RouteInv, Knows, Serves
<1>5. ASSUME NEW p \in AllProcesses, map[p] # None
      PROVE  map[p].expires \in Nat /\ map[p].expires <= clock' + TTL
  BY <1>1, <1>3, <1>5 DEF RouteInv, MapsServe
<1>6. MapsServe'
  BY <1>1, <1>2, <1>5 DEF RouteInv, MapsServe, Serves
<1> QED
  BY <1>4, <1>6 DEF RouteInv

LEMMA RouteStep ==
    ASSUME RouteType, RouteInv, [Routing!Next]_routing
    PROVE  RouteInv'
<1>1. ASSUME NEW a \in Admins, Routing!Create(a) PROVE RouteInv'
  <2>1. PICK c \in Extras, on \in BOOLEAN :
          Routing!Becomes([version EXCEPT ![c] = 1], IF on THEN enabled \cup {c} ELSE enabled, a)
    BY <1>1 DEF Routing!Create
  <2>2. [version EXCEPT ![c] = 1] \in [Extras -> 0..MaxVersion]
    BY RoutingAssumption DEF RouteType
  <2>3. (IF on THEN enabled \cup {c} ELSE enabled) \in SUBSET Extras
    BY DEF RouteType
  <2> QED
    BY <2>1, <2>2, <2>3, BecomesInv
<1>2. ASSUME NEW a \in Admins, Routing!Patch(a) PROVE RouteInv'
  <2>1. PICK c \in Extras, on \in BOOLEAN :
          /\ latest[c] < MaxVersion
          /\ Routing!Becomes([version EXCEPT ![c] = latest[c] + 1],
                             IF on THEN enabled \cup {c} ELSE enabled \ {c}, a)
    BY <1>2 DEF Routing!Patch
  <2>2. [version EXCEPT ![c] = latest[c] + 1] \in [Extras -> 0..MaxVersion]
    BY <2>1, RoutingAssumption DEF RouteType
  <2>3. (IF on THEN enabled \cup {c} ELSE enabled \ {c}) \in SUBSET Extras
    BY DEF RouteType
  <2> QED
    BY <2>1, <2>2, <2>3, BecomesInv
<1>3. ASSUME NEW a \in Admins, Routing!Delete(a) PROVE RouteInv'
  <2>1. PICK c \in Extras : Routing!Becomes([version EXCEPT ![c] = 0], enabled \ {c}, a)
    BY <1>3 DEF Routing!Delete, Routing!Absent
  <2>2. [version EXCEPT ![c] = 0] \in [Extras -> 0..MaxVersion]
    BY RoutingAssumption DEF RouteType
  <2>3. enabled \ {c} \in SUBSET Extras
    BY DEF RouteType
  <2> QED
    BY <2>1, <2>2, <2>3, BecomesInv
<1>4. CASE UNCHANGED routing
  <2>1. UNCHANGED <<version, enabled, over, excused, map, fresh, rows, taken, routePc, clock>>
    BY <1>4 DEF routing
  <2>2. Routing!Current' = Routing!Current
    BY <2>1 DEF Routing!Current, Routing!Row
  <2>3. MapsServe'
    BY <2>1, <2>2 DEF RouteInv, MapsServe, Serves
  <2>4. \A r \in Requests : Knows(r)'
    BY <2>1, <2>2 DEF RouteInv, Knows, Serves
  <2> QED
    BY <2>3, <2>4 DEF RouteInv
<1> QED
  BY <1>1, <1>2, <1>3, <1>4, InvalidateInv, HasExtraInv, ReadKeyInv, LookInv, ReadRowsInv,
     ProbeInv, TickInv DEF Routing!Next

\* A request is answered by a look at a map that serves, or by the probe of rows it knows.
LEMMA AnswerStep ==
    ASSUME RouteType, RouteInv, [Routing!Next]_routing, NEW r \in Requests,
           answer'[r] # answer[r]
    PROVE  \/ answer'[r] \in fresh'[r] \cup {Routing!EnvRow}
           \/ /\ answer'[r] \in excused[Process[r]]
              /\ clock < over[answer'[r]] + TTL
<1>1. PICK q \in Requests : Routing!HasExtra(q) \/ Routing!Look(q) \/ Routing!Probe(q)
  <2>1. ~ UNCHANGED answer
    OBVIOUS
  <2> QED
    BY <2>1 DEF Routing!Next, Routing!Create, Routing!Patch, Routing!Delete, Routing!Becomes,
       Routing!Invalidate, Routing!ReadKey, Routing!ReadRows, Routing!Tick, Routing!requestVars,
       routing
<1>2. CASE Routing!HasExtra(q)
  <2>1. Routing!Answer(q, Routing!EnvRow) /\ clock' = clock
    BY <1>2 DEF Routing!HasExtra
  <2>2. q = r /\ answer'[r] = Routing!EnvRow
    BY <2>1, AnswerKnows
  <2> QED
    BY <2>2
<1>3. CASE Routing!Look(q)
  <2> DEFINE row == Routing!Route(map[Process[q]].routes, model[q])
             p == Process[q]
  <2>1. Routing!Hit(q) /\ Routing!Answer(q, row)
    BY <1>3 DEF Routing!Look
  <2>2. clock' = clock /\ fresh' = fresh /\ routePc[q] = "look"
    BY <1>3 DEF Routing!Look
  <2>3. q = r /\ answer'[r] = row
    BY <2>1, <2>2, AnswerKnows
  <2>4. /\ map[p].expires \in Nat /\ map[p].expires > clock
        /\ row = Routing!EnvRow \/ Serves(row, p, map[p].expires - TTL)
    BY <2>1, LooksAtRows
  <2>5. Routing!Current \subseteq fresh[q]
    BY <2>2 DEF RouteInv, Knows
  <2>6. CASE row = Routing!EnvRow \/ row \in Routing!Current
    BY <2>2, <2>3, <2>5, <2>6
  <2>7. CASE row # Routing!EnvRow /\ row \notin Routing!Current
    <3>1. row \in excused[p] /\ over[row] \in Nat /\ map[p].expires - TTL <= over[row]
      BY <2>4, <2>7 DEF Serves
    <3>2. clock < over[row] + TTL
      BY <2>4, <3>1, RoutingAssumption DEF RouteType
    <3> QED
      BY <2>3, <3>1, <3>2
  <2> QED
    BY <2>6, <2>7
<1>4. CASE Routing!Probe(q)
  <2>1. PICK lists \in [{Routing!EnvRow} \cup rows[q] -> {{}, Models}] :
          Routing!Answer(q, Routing!Route(Routing!Routes(lists), model[q]))
    BY <1>4 DEF Routing!Probe
  <2>2. clock' = clock /\ fresh' = fresh
    BY <1>4 DEF Routing!Probe
  <2>3. q = r /\ answer'[r] = Routing!Route(Routing!Routes(lists), model[q])
    BY <2>1, <2>2, AnswerKnows
  <2>4. {Routing!EnvRow} \cup rows[q] \in SUBSET AllRows
    BY EnvIsRow DEF RouteType
  <2>5. answer'[r] \in {Routing!EnvRow} \cup rows[q]
    BY <2>3, <2>4, RouteIsListed, RoutesAreListed
  <2>6. rows[q] \subseteq fresh[q]
    BY DEF RouteInv, Knows
  <2> QED
    BY <2>2, <2>3, <2>5, <2>6
<1> QED
  BY <1>1, <1>2, <1>3, <1>4

\* A chat turn is routed to the environment's connection or to a row that was enabled,
\* with the content it has, while the request ran; a row that another process changed, or
\* that changed under a probe, may still serve, for less than the TTL of the model map
\* (resolve_connection, invalidate_model_map).
THEOREM RoutingStaysCurrent == Routing!Spec => RoutingIsCurrent
<1>1. Routing!Init => RouteType /\ RouteInv
  <2> SUFFICES ASSUME Routing!Init PROVE RouteType /\ RouteInv
    OBVIOUS
  <2>1. RouteType
    BY RoutingAssumption DEF Routing!Init, RouteType, RoutePcs, AllRows, AllProcesses, Routing!Absent
  <2>2. RouteInv
    BY DEF Routing!Init, RouteInv, MapsServe, Knows, Routing!Current, AllProcesses
  <2> QED
    BY <2>1, <2>2
<1>2. [Routing!Next]_(Routing!vars) => [Routing!Next]_routing
  BY DEF Routing!vars, Routing!requestVars, routing
<1>3. RouteType /\ RouteInv /\ [Routing!Next]_(Routing!vars) => (RouteType /\ RouteInv)'
  BY <1>2, RouteTypeStep, RouteStep
<1>4. RouteType /\ RouteInv /\ [Routing!Next]_(Routing!vars) =>
        [\A r \in Requests :
           answer'[r] # answer[r] =>
             \/ answer'[r] \in fresh'[r] \cup {Routing!EnvRow}
             \/ answer'[r] \in excused[Process[r]] /\ clock < over[answer'[r]] + TTL]_(Routing!vars)
  BY <1>2, AnswerStep
<1> QED
  BY <1>1, <1>3, <1>4, PTL DEF RoutingIsCurrent, Routing!RoutingIsCurrent, Routing!Spec

-----------------------------------------------------------------------------
(* A streamed turn: its types, and that it stops when the client leaves. *)

\* What the variables of a turn hold.
TurnPcs == {"begin", "inlet", "round", "request", "read", "close", "tools", "outlet", "done"}
CallSets == {S \in SUBSET Calls : IsFiniteSet(S)}
Messages == {<<"call", S>> : S \in CallSets} \cup {<<"result", c>> : c \in Calls}
Outcomes == {"unknown", "removed", "ran"}
Tokens == Answering!Tokens
Lates == [chunks : Nat, rounds : Nat, calls : Nat]

TurnType ==
    /\ kind \in [tools : BOOLEAN, persist : BOOLEAN, watched : BOOLEAN]
    /\ turnPc \in TurnPcs
    /\ round \in Nat /\ chunks \in Nat
    /\ said \in Seq(Tokens) /\ final \in Seq(Tokens) /\ shown \in Seq(Tokens)
    /\ DOMAIN calls \subseteq Calls /\ IsFiniteSet(DOMAIN calls)
    /\ tools \in Seq(Nat \X Calls \X Outcomes)
    /\ msgs \in Seq(Messages)
    /\ open \in BOOLEAN /\ aborted \in BOOLEAN /\ gone \in BOOLEAN /\ failed \in BOOLEAN
    /\ cut \in BOOLEAN /\ late \in Lates

LEMMA NextCallPending ==
    ASSUME TurnType, Answering!Pending # {}
    PROVE  /\ Answering!NextCall \in Answering!Pending
           /\ Answering!NextCall \in DOMAIN calls
           /\ \A j \in Answering!Pending : Answering!NextCall =< j
<1>1. Answering!Pending \subseteq DOMAIN calls
  BY DEF Answering!Pending
<1>2. Answering!Pending \in SUBSET Nat
  BY <1>1, TurnAssumption DEF TurnType
<1>3. \E i \in Answering!Pending : \A j \in Answering!Pending : i <= j
  BY <1>2, LeastOfNats
<1> QED
  BY <1>1, <1>3 DEF Answering!NextCall

LEMMA LateStep ==
    ASSUME TurnType, NEW f \in {"chunks", "rounds", "calls"}, Answering!Late(f)
    PROVE  /\ late' \in Lates
           /\ late'[f] = IF gone THEN late[f] + 1 ELSE late[f]
           /\ \A g \in {"chunks", "rounds", "calls"} : g # f => late'[g] = late[g]
<1>1. late' = [late EXCEPT ![f] = IF gone THEN late[f] + 1 ELSE late[f]]
  BY DEF Answering!Late
<1>2. late \in [chunks : Nat, rounds : Nat, calls : Nat]
  BY DEF TurnType, Lates
<1> DEFINE x == IF gone THEN late[f] + 1 ELSE late[f]
<1>4. x \in Nat
  <2>1. late[f] \in Nat
    BY <1>2
  <2> QED
    BY <2>1
<1> HIDE DEF x
<1>5. late' = [late EXCEPT ![f] = x]
  BY <1>1 DEF x
<1>6. late' \in [chunks : Nat, rounds : Nat, calls : Nat]
  BY <1>2, <1>4, <1>5
<1>7. late'[f] = x
  BY <1>2, <1>5
<1>8. \A g \in {"chunks", "rounds", "calls"} : g # f => late'[g] = late[g]
  BY <1>2, <1>5
<1> QED
  BY <1>6, <1>7, <1>8 DEF x, Lates

LEMMA OutcomeIsString == \A t : Answering!Outcome(t) \subseteq Outcomes
<1> TAKE t
<1>1. CASE t \notin dispatch
  BY <1>1 DEF Answering!Outcome, Outcomes
<1>2. CASE t \in dispatch /\ t \in Servers /\ t \notin DOMAIN servers
  BY <1>2 DEF Answering!Outcome, Outcomes
<1>3. CASE t \in dispatch /\ ~(t \in Servers /\ t \notin DOMAIN servers)
  BY <1>3 DEF Answering!Outcome, Outcomes
<1> QED
  BY <1>1, <1>2, <1>3

LEMMA TurnTypeStep == TurnType /\ [Answering!Next]_(Answering!vars) => TurnType'
<1> SUFFICES ASSUME TurnType, [Answering!Next]_(Answering!vars) PROVE TurnType'
  OBVIOUS
<1> USE DEF TurnType, TurnPcs
<1>0. {"r", "c", "<think>", "</think>"} \subseteq Tokens
  BY DEF Tokens, Answering!Tokens
<1>1. CASE Answering!Compose
  BY <1>1, TurnAssumption DEF Answering!Compose
<1>2. CASE Answering!Inlet
  BY <1>2 DEF Answering!Inlet
<1>3. CASE Answering!InletsEnd
  BY <1>3 DEF Answering!InletsEnd
<1>4. CASE Answering!Round
  <2>1. DOMAIN <<>> = {}
    OBVIOUS
  <2>2. calls' = calls \/ calls' = <<>>
    BY <1>4 DEF Answering!Round, Answering!BeginRound
  <2>3. DOMAIN calls' \subseteq Calls /\ IsFiniteSet(DOMAIN calls')
    BY <2>1, <2>2, FS_EmptySet
  <2>4. aborted' \in BOOLEAN
    <3>1. (round < MaxLoops) \in BOOLEAN
      OBVIOUS
    <3> QED
      BY <1>4, <3>1, Zenon DEF Answering!Round, Answering!BeginRound
  <2>5. /\ turnPc' \in {"outlet", "request"}
        /\ round' \in Nat /\ chunks' \in Nat /\ said' \in Seq(Tokens) /\ open' \in BOOLEAN
        /\ UNCHANGED <<kind, msgs, final, shown, tools, gone, failed, cut, late>>
    <3>1. <<>> \in Seq(Tokens)
      OBVIOUS
    <3>2. /\ chunks' = chunks \/ chunks' = 0
          /\ said' = said \/ said' = <<>>
          /\ open' = open \/ open' = FALSE
          /\ round' = round \/ round' = round + 1
          /\ turnPc' \in {"outlet", "request"}
      BY <1>4 DEF Answering!Round, Answering!BeginRound
    <3>3. UNCHANGED <<kind, msgs, final, shown, tools, gone, failed, cut, late>>
      BY <1>4 DEF Answering!Round
    <3>4. said' \in Seq(Tokens)
      BY <3>1, <3>2
    <3>5. open' \in BOOLEAN
      BY <3>2, Zenon
    <3>6. chunks' \in Nat /\ round' \in Nat
      BY <3>2
    <3> QED
      BY <3>2, <3>3, <3>4, <3>5, <3>6, Zenon
  <2> QED
    BY <2>3, <2>4, <2>5
<1>5. CASE Answering!Upstream
  BY <1>5, LateStep DEF Answering!Upstream
<1>6. CASE Answering!Chunk
  <2>1. late' \in Lates /\ chunks' \in Nat
    BY <1>6, LateStep DEF Answering!Chunk
  <2>2. DOMAIN calls' \subseteq Calls /\ IsFiniteSet(DOMAIN calls')
    BY <1>6, FS_AddElement DEF Answering!Chunk, Answering!Reasoning, Answering!Content, Answering!CallPart
  <2>3. said' \in Seq(Tokens) /\ shown' \in Seq(Tokens) /\ open' \in BOOLEAN
    <3>1. CASE Answering!Reasoning
      BY <1>0, <3>1 DEF Answering!Reasoning, Answering!Says
    <3>2. CASE Answering!Content
      <4> DEFINE some == IF open THEN <<"</think>", "c">> ELSE <<"c">>
      <4>1. some \in Seq(Tokens)
        BY <1>0
      <4>2. said' = said \o some /\ shown' = shown \o some /\ open' = FALSE
        BY <3>2 DEF Answering!Content, Answering!Says
      <4>3. said \in Seq(Tokens) /\ shown \in Seq(Tokens)
        OBVIOUS
      <4> HIDE DEF some, TurnType
      <4>4. said' \in Seq(Tokens)
        BY <4>1, <4>2, <4>3
      <4>5. shown' \in Seq(Tokens)
        BY <4>1, <4>2, <4>3
      <4> QED
        BY <4>2, <4>4, <4>5, Zenon
    <3>3. CASE Answering!CallPart
      BY <3>3 DEF Answering!CallPart
    <3> QED
      BY <1>6, <3>1, <3>2, <3>3 DEF Answering!Chunk
  <2> QED
    BY <1>6, <2>1, <2>2, <2>3 DEF Answering!Chunk
<1>7. CASE Answering!StreamEnds
  BY <1>7 DEF Answering!StreamEnds
<1>8. CASE Answering!Close
  <2>1. <<"call", DOMAIN calls>> \in Messages
    BY DEF Messages, CallSets
  <2> QED
    <3> DEFINE tail == IF open THEN <<"</think>">> ELSE <<>>
    <3>1. tail \in Seq(Tokens)
      BY <1>0
    <3>2. /\ final' = final \o said \o tail
          /\ shown' = IF aborted THEN shown ELSE shown \o tail
          /\ open' = FALSE /\ turnPc' \in {"outlet", "tools"}
          /\ msgs' = msgs \/ msgs' = Append(msgs, <<"call", DOMAIN calls>>)
          /\ UNCHANGED <<kind, round, chunks, said, calls, tools, aborted, gone, failed, cut, late>>
      BY <1>8 DEF Answering!Close, Answering!CallMessage
    <3>3. msgs' \in Seq(Messages)
      <4>1. msgs \in Seq(Messages)
        OBVIOUS
      <4>2. msgs' = msgs \/ msgs' = Append(msgs, <<"call", DOMAIN calls>>)
        BY <3>2
      <4> HIDE DEF tail, TurnType
      <4> QED
        BY <2>1, <4>1, <4>2
    <3>4. final' \in Seq(Tokens) /\ shown' \in Seq(Tokens)
      BY <3>1, <3>2
    <3> HIDE DEF tail
    <3> QED
      BY <3>2, <3>3, <3>4
<1>9. CASE Answering!RunTool
  <2>1. Answering!NextCall \in Calls
    BY <1>9, NextCallPending DEF Answering!RunTool
  <2>3. tools' \in Seq(Nat \X Calls \X Outcomes)
    BY <1>9, <2>1, OutcomeIsString DEF Answering!RunTool
  <2>4. <<"result", Answering!NextCall>> \in Messages
    BY <2>1 DEF Messages
  <2>5. msgs' \in Seq(Messages)
    BY <1>9, <2>4 DEF Answering!RunTool
  <2> QED
    BY <1>9, <2>3, <2>5, LateStep DEF Answering!RunTool
<1>10. CASE Answering!ToolsEnd
  BY <1>10 DEF Answering!ToolsEnd
<1>11. CASE Answering!Persist
  BY <1>11 DEF Answering!Persist
<1>12. CASE Answering!Leaves
  BY <1>12 DEF Answering!Leaves
<1>13. CASE Answering!ServerChanges
  BY <1>13 DEF Answering!ServerChanges
<1>14. CASE UNCHANGED Answering!vars
  BY <1>14 DEF Answering!vars
<1>15. CASE Answering!Cancelled
  BY <1>15 DEF Answering!Cancelled
<1>16. CASE Answering!ToolRaises
  BY <1>16, LateStep DEF Answering!ToolRaises
<1> QED
  BY <1>1, <1>2, <1>3, <1>4, <1>5, <1>6, <1>7, <1>8, <1>9, <1>10, <1>11, <1>12, <1>13, <1>14,
     <1>15, <1>16
     DEF Answering!Next

LEMMA SameCardinality == \A S : Answering!Cardinality(S) = Cardinality(S)
BY DEF Answering!Cardinality, Cardinality

\* The variables of a turn keep their types, whatever its plugins, tools and upstream do.
THEOREM TurnTypeCorrect == Answering!Spec => []TurnType
<1>1. Answering!Init => TurnType
  <2> SUFFICES ASSUME Answering!Init PROVE TurnType
    OBVIOUS
  <2>1. IsFiniteSet(DOMAIN calls) /\ DOMAIN calls = {}
    BY FS_EmptySet DEF Answering!Init
  <2>2. /\ kind \in [tools : BOOLEAN, persist : BOOLEAN, watched : BOOLEAN]
        /\ late \in Lates
    BY DEF Answering!Init, Lates, Answering!NoKind, Answering!NoneLate
  <2>3. said \in Seq(Tokens) /\ final \in Seq(Tokens) /\ shown \in Seq(Tokens)
    BY DEF Answering!Init
  <2>4. tools \in Seq(Nat \X Calls \X Outcomes) /\ msgs \in Seq(Messages)
    BY DEF Answering!Init
  <2>5. /\ turnPc \in TurnPcs /\ round \in Nat /\ chunks \in Nat
        /\ open \in BOOLEAN /\ aborted \in BOOLEAN /\ gone \in BOOLEAN /\ failed \in BOOLEAN
        /\ cut \in BOOLEAN
    BY DEF Answering!Init, TurnPcs
  <2> QED
    BY <2>1, <2>2, <2>3, <2>4, <2>5 DEF TurnType
<1> QED
  BY <1>1, TurnTypeStep, PTL DEF Answering!Spec

\* The calls of this round that have run.
Ran == DOMAIN calls \ Answering!Pending

\* What has begun since the client left, by where the turn is: nothing before the next
\* request; a request that began late has no calls unless its stream was left.
GoneInv ==
    /\ turnPc = "request" => DOMAIN calls = {}
    /\ turnPc = "begin" => late.rounds = 0 /\ late.chunks = 0 /\ late.calls = 0
    /\ kind.watched =>
        /\ late.rounds <= 1 /\ late.chunks <= 1
        /\ late.calls <= Cardinality(DOMAIN calls)
        /\ late.calls > 0 => late.rounds = 0
        /\ ~gone \/ turnPc \in {"begin", "inlet", "request"} =>
             late.rounds = 0 /\ late.chunks = 0 /\ late.calls = 0
        /\ turnPc = "read" => late.chunks = 0
        /\ turnPc \in {"read", "close"} =>
             /\ late.calls = 0
             /\ late.rounds + late.chunks > 0 => aborted \/ DOMAIN calls = {}
        /\ turnPc = "tools" =>
             /\ late.rounds = 0
             /\ late.calls <= Cardinality(Ran)

\* A call that runs leaves the pending ones.
LEMMA PendingStep ==
    ASSUME TurnType, Answering!RunTool
    PROVE  Answering!Pending' = Answering!Pending \ {Answering!NextCall}
<1>1. PICK o : tools' = Append(tools, <<round, Answering!NextCall, o>>)
  BY DEF Answering!RunTool
<1>2. tools \in Seq(Nat \X Calls \X Outcomes)
  BY DEF TurnType
<1>3. /\ DOMAIN tools' = DOMAIN tools \cup {Len(tools) + 1}
      /\ \A n \in DOMAIN tools : tools'[n] = tools[n]
      /\ tools'[Len(tools) + 1] = <<round, Answering!NextCall, o>>
  BY <1>1, <1>2
<1>4. calls' = calls /\ round' = round
  BY DEF Answering!RunTool
<1> QED
  BY <1>3, <1>4 DEF Answering!Pending

LEMMA RanStep ==
    ASSUME TurnType, Answering!RunTool
    PROVE  Cardinality(Ran') = Cardinality(Ran) + 1
<1>1. Ran' = Ran \cup {Answering!NextCall} /\ Answering!NextCall \notin Ran
  BY PendingStep, NextCallPending DEF Ran, Answering!RunTool
<1>2. IsFiniteSet(Ran)
  BY FS_Difference DEF Ran, TurnType
<1> QED
  BY <1>1, <1>2, FS_AddElement

LEMMA RanBound == TurnType => /\ Cardinality(Ran) \in Nat /\ Cardinality(DOMAIN calls) \in Nat
                              /\ Cardinality(Ran) <= Cardinality(DOMAIN calls)
<1> SUFFICES ASSUME TurnType PROVE /\ Cardinality(Ran) \in Nat /\ Cardinality(DOMAIN calls) \in Nat
                              /\ Cardinality(Ran) <= Cardinality(DOMAIN calls)
  OBVIOUS
<1>1. IsFiniteSet(DOMAIN calls) /\ Ran \subseteq DOMAIN calls
  BY DEF TurnType, Ran
<1> QED
  BY <1>1, FS_Subset, FS_CardinalityType

\* While calls are pending, not all of them have run.
LEMMA SomeAreLeft ==
    ASSUME TurnType, Answering!Pending # {}
    PROVE  Cardinality(Ran) < Cardinality(DOMAIN calls)
<1> DEFINE n == Answering!NextCall
<1>1. n \in DOMAIN calls /\ n \notin Ran /\ Ran \subseteq DOMAIN calls
  BY NextCallPending DEF Ran
<1>2. IsFiniteSet(DOMAIN calls) /\ IsFiniteSet(Ran)
  BY <1>1, FS_Subset DEF TurnType
<1> HIDE DEF n
<1>3. Cardinality(Ran \cup {n}) = Cardinality(Ran) + 1
  BY <1>1, <1>2, FS_AddElement
<1>4. Ran \cup {n} \subseteq DOMAIN calls
  BY <1>1
<1>5. Cardinality(Ran \cup {n}) <= Cardinality(DOMAIN calls)
  BY <1>2, <1>4, FS_Subset
<1> QED
  BY <1>2, <1>3, <1>5, FS_CardinalityType

LEMMA GoneStep == TurnType /\ GoneInv /\ [Answering!Next]_(Answering!vars) => GoneInv'
<1> SUFFICES ASSUME TurnType, GoneInv, [Answering!Next]_(Answering!vars) PROVE GoneInv'
  OBVIOUS
<1>0. /\ late \in [chunks : Nat, rounds : Nat, calls : Nat] /\ TurnType'
      /\ Cardinality(Ran) \in Nat /\ Cardinality(DOMAIN calls) \in Nat
      /\ Cardinality(Ran) <= Cardinality(DOMAIN calls)
      /\ Cardinality(Ran') \in Nat /\ Cardinality(DOMAIN calls') \in Nat
      /\ Cardinality(Ran') <= Cardinality(DOMAIN calls')
  <2>1. TurnType'
    BY TurnTypeStep
  <2>2. IsFiniteSet(DOMAIN calls') /\ Ran' \subseteq DOMAIN calls'
    BY <2>1 DEF TurnType, Ran
  <2>3. /\ Cardinality(Ran') \in Nat /\ Cardinality(DOMAIN calls') \in Nat
        /\ Cardinality(Ran') <= Cardinality(DOMAIN calls')
    BY <2>2, FS_Subset, FS_CardinalityType
  <2> QED
    BY <2>1, <2>3, RanBound DEF TurnType, Lates
<1>a. UNCHANGED <<calls, tools, round>> => Ran' = Ran
  BY DEF Ran, Answering!Pending
<1> USE DEF GoneInv
<1>1. CASE Answering!Compose
  BY <1>1, <1>0 DEF Answering!Compose
<1>2. CASE Answering!Inlet
  BY <1>2, <1>0 DEF Answering!Inlet
<1>3. CASE Answering!InletsEnd
  BY <1>3, <1>0 DEF Answering!InletsEnd
<1>4. CASE Answering!Round
  <2>1. CASE Answering!Gone \/ round = MaxLoops
    BY <1>4, <2>1, <1>0 DEF Answering!Round
  <2>2. CASE ~(Answering!Gone \/ round = MaxLoops)
    <3>1. DOMAIN calls' = {} /\ turnPc' = "request" /\ UNCHANGED <<kind, gone, late>>
      BY <1>4, <2>2 DEF Answering!Round, Answering!BeginRound
    <3> QED
      BY <1>4, <2>2, <3>1, <1>0 DEF Answering!Gone
  <2> QED
    BY <2>1, <2>2
<1>5. CASE Answering!Upstream
  BY <1>5, <1>0, LateStep DEF Answering!Upstream
<1>6. CASE Answering!Chunk
  BY <1>6, <1>0, LateStep DEF Answering!Chunk, Answering!Gone
<1>7. CASE Answering!StreamEnds
  BY <1>7, <1>0 DEF Answering!StreamEnds
<1>8. CASE Answering!Close
  BY <1>8, <1>0 DEF Answering!Close
<1>9. CASE Answering!RunTool
  BY <1>9, <1>0, LateStep, RanStep DEF Answering!RunTool
<1>10. CASE Answering!ToolsEnd
  BY <1>10, <1>0 DEF Answering!ToolsEnd
<1>11. CASE Answering!Persist
  BY <1>11, <1>0 DEF Answering!Persist
<1>12. CASE Answering!Leaves
  BY <1>12, <1>0 DEF Answering!Leaves
<1>13. CASE Answering!ServerChanges
  BY <1>13, <1>0, <1>a DEF Answering!ServerChanges
<1>14. CASE UNCHANGED Answering!vars
  BY <1>14, <1>0, <1>a DEF Answering!vars
<1>15. CASE Answering!Cancelled
  BY <1>15, <1>0 DEF Answering!Cancelled
<1>16. CASE Answering!ToolRaises
  <2>1. Cardinality(Ran) < Cardinality(DOMAIN calls)
    BY <1>16, SomeAreLeft DEF Answering!ToolRaises
  <2> QED
    BY <1>16, <1>0, <2>1, LateStep DEF Answering!ToolRaises
<1> QED
  BY <1>1, <1>2, <1>3, <1>4, <1>5, <1>6, <1>7, <1>8, <1>9, <1>10, <1>11, <1>12, <1>13, <1>14,
     <1>15, <1>16
     DEF Answering!Next

\* A closed tab stops the work: once the client has left, a turn that watches it sends at
\* most one more request, reads at most one more chunk, and begins no round of calls; a
\* round of calls that had begun may end, each call once (_gone in _stream_and_persist).
THEOREM DepartureStopsWork == Answering!Spec => []GoneStops
<1>1. Answering!Init => GoneInv
  <2> SUFFICES ASSUME Answering!Init PROVE GoneInv
    OBVIOUS
  <2>1. DOMAIN calls = {}
    BY DEF Answering!Init
  <2>2. Cardinality(DOMAIN calls) = 0
    BY <2>1, FS_EmptySet
  <2> QED
    BY <2>1, <2>2 DEF Answering!Init, GoneInv, Answering!NoneLate, Answering!NoKind
<1>2. GoneInv => GoneStops
  BY SameCardinality DEF GoneInv, GoneStops, Answering!GoneStops
<1> QED
  BY <1>1, <1>2, TurnTypeCorrect, GoneStep, PTL DEF Answering!Spec

-----------------------------------------------------------------------------
(* What is stored of a turn is what was streamed. *)

\* Every span of s is closed by the end tag, but the last when it is still going on.
Spans(s, going) ==
    /\ \A i \in DOMAIN s : s[i] = "<think>" =>
         \/ \E j \in i + 1..Len(s) : s[j] = "</think>" /\ \A k \in i + 1..j - 1 : s[k] = "r"
         \/ going /\ \A k \in i + 1..Len(s) : s[k] = "r"
    /\ \A i \in DOMAIN s : s[i] = "r" => \E j \in 1..i - 1 : s[j] \in {"<think>", "r"}
    /\ going => \E j \in DOMAIN s : s[j] \in {"<think>", "r"}

LEMMA SpansAreBalanced == \A s : Spans(s, FALSE) <=> Answering!Balanced(s)
BY DEF Spans, Answering!Balanced

\* What a token does to the spans.
LEMMA SpanStep ==
    ASSUME NEW s \in Seq(Tokens), NEW x \in Tokens, NEW before \in BOOLEAN, NEW after \in BOOLEAN,
           Spans(s, before),
           \/ x = "<think>" /\ ~before /\ after
           \/ x = "r" /\ before /\ after
           \/ x = "</think>" /\ before /\ ~after
           \/ x = "c" /\ ~before /\ ~after
    PROVE  Spans(Append(s, x), after)
<1> DEFINE t == Append(s, x)
           n == Len(s)
<1>1. /\ n \in Nat /\ DOMAIN s = 1..n /\ Len(t) = n + 1 /\ DOMAIN t = 1..n + 1
      /\ \A i \in 1..n : t[i] = s[i]
      /\ t[n + 1] = x
  OBVIOUS
<1> HIDE DEF t, n
<1>2. ASSUME NEW i \in 1..n + 1, t[i] = "<think>"
      PROVE  \/ \E j \in i + 1..n + 1 : t[j] = "</think>" /\ \A k \in i + 1..j - 1 : t[k] = "r"
             \/ after /\ \A k \in i + 1..n + 1 : t[k] = "r"
  <2>1. CASE i = n + 1
    <3>1. after
      BY <1>1, <1>2, <2>1
    <3>2. \A k \in i + 1..n + 1 : FALSE
      BY <1>1, <2>1
    <3> QED
      BY <3>1, <3>2
  <2>2. CASE i \in 1..n
    <3>1. s[i] = "<think>"
      BY <1>1, <1>2, <2>2
    <3>2. CASE \E j \in i + 1..n : s[j] = "</think>" /\ \A k \in i + 1..j - 1 : s[k] = "r"
      <4>1. PICK j \in i + 1..n : s[j] = "</think>" /\ \A k \in i + 1..j - 1 : s[k] = "r"
        BY <3>2
      <4>2. j \in i + 1..n + 1 /\ t[j] = "</think>" /\ \A k \in i + 1..j - 1 : t[k] = "r"
        BY <4>1, <1>1, <2>2
      <4> QED
        BY <4>2
    <3>3. CASE before /\ \A k \in i + 1..n : s[k] = "r"
      <4>1. CASE x = "r"
        <5>1. \A k \in i + 1..n + 1 : t[k] = "r"
          BY <1>1, <2>2, <3>3, <4>1
        <5>2. after
          BY <4>1
        <5> QED
          BY <5>1, <5>2
      <4>2. CASE x = "</think>"
        <5>1. n + 1 \in i + 1..n + 1 /\ t[n + 1] = "</think>" /\ \A k \in i + 1..(n + 1) - 1 : t[k] = "r"
          BY <1>1, <2>2, <3>3, <4>2
        <5> QED
          BY <5>1
      <4> QED
        BY <3>3, <4>1, <4>2
    <3> QED
      BY <1>1, <2>2, <3>1, <3>2, <3>3 DEF Spans
  <2> QED
    BY <1>1, <2>1, <2>2
<1>3. ASSUME NEW i \in 1..n + 1, t[i] = "r"
      PROVE  \E j \in 1..i - 1 : t[j] \in {"<think>", "r"}
  <2>1. \A j \in 1..n : s[j] \in {"<think>", "r"} => t[j] \in {"<think>", "r"}
    BY <1>1
  <2>2. CASE i = n + 1
    <3>1. before
      BY <1>1, <1>3, <2>2
    <3>2. \E j \in 1..n : s[j] \in {"<think>", "r"}
      BY <1>1, <3>1 DEF Spans
    <3> QED
      BY <1>1, <2>1, <2>2, <3>2
  <2>3. CASE i \in 1..n
    <3>1. \E j \in 1..i - 1 : s[j] \in {"<think>", "r"}
      BY <1>1, <1>3, <2>3 DEF Spans
    <3> QED
      BY <1>1, <2>1, <2>3, <3>1
  <2> QED
    BY <1>1, <2>2, <2>3
<1>4. after => \E j \in 1..n + 1 : t[j] \in {"<think>", "r"}
  <2>1. after => t[n + 1] \in {"<think>", "r"}
    BY <1>1
  <2> QED
    BY <1>1, <2>1
<1>5. Spans(t, after)
  BY <1>1, <1>2, <1>3, <1>4 DEF Spans
<1> QED
  BY <1>5 DEF t

\* Closed spans one after the other.
LEMMA SpansConcat ==
    ASSUME NEW s \in Seq(Tokens), NEW u \in Seq(Tokens), Spans(s, FALSE), Spans(u, FALSE)
    PROVE  Spans(s \o u, FALSE)
<1> DEFINE t == s \o u
           n == Len(s)
           m == Len(u)
<1>1. /\ n \in Nat /\ m \in Nat /\ DOMAIN s = 1..n /\ DOMAIN u = 1..m
      /\ Len(t) = n + m /\ DOMAIN t = 1..n + m
      /\ \A i \in 1..n : t[i] = s[i]
      /\ \A i \in 1..m : t[n + i] = u[i]
  OBVIOUS
<1> HIDE DEF t, n, m
<1>2. \A i \in 1..n + m : i \in 1..n \/ (i - n \in 1..m /\ i = n + (i - n))
  BY <1>1
<1>3. ASSUME NEW i \in 1..n + m, t[i] = "<think>"
      PROVE  \E j \in i + 1..n + m : t[j] = "</think>" /\ \A k \in i + 1..j - 1 : t[k] = "r"
  <2>1. CASE i \in 1..n
    <3>1. PICK j \in i + 1..n : s[j] = "</think>" /\ \A k \in i + 1..j - 1 : s[k] = "r"
      BY <1>1, <1>3, <2>1 DEF Spans
    <3>2. j \in i + 1..n + m /\ t[j] = "</think>" /\ \A k \in i + 1..j - 1 : t[k] = "r"
      BY <1>1, <2>1, <3>1
    <3> QED
      BY <3>2
  <2>2. CASE i - n \in 1..m /\ i = n + (i - n)
    <3>1. u[i - n] = "<think>"
      BY <1>1, <1>3, <2>2
    <3>2. PICK j \in (i - n) + 1..m : u[j] = "</think>" /\ \A k \in (i - n) + 1..j - 1 : u[k] = "r"
      BY <1>1, <2>2, <3>1 DEF Spans
    <3>3. n + j \in i + 1..n + m /\ t[n + j] = "</think>"
      BY <1>1, <2>2, <3>2
    <3>4. ASSUME NEW k \in i + 1..(n + j) - 1
          PROVE  t[k] = "r"
      <4>1. k - n \in (i - n) + 1..j - 1 /\ k = n + (k - n) /\ k - n \in 1..m
        BY <1>1, <2>2, <3>2
      <4>2. u[k - n] = "r"
        BY <3>2, <4>1
      <4> QED
        BY <1>1, <4>1, <4>2
    <3> QED
      BY <3>3, <3>4
  <2> QED
    BY <1>2, <2>1, <2>2
<1>4. ASSUME NEW i \in 1..n + m, t[i] = "r"
      PROVE  \E j \in 1..i - 1 : t[j] \in {"<think>", "r"}
  <2>1. CASE i \in 1..n
    <3>1. PICK j \in 1..i - 1 : s[j] \in {"<think>", "r"}
      BY <1>1, <1>4, <2>1 DEF Spans
    <3>2. t[j] = s[j]
      BY <1>1, <2>1, <3>1
    <3> QED
      BY <3>1, <3>2
  <2>2. CASE i - n \in 1..m /\ i = n + (i - n)
    <3>1. u[i - n] = "r"
      BY <1>1, <1>4, <2>2
    <3>2. PICK j \in 1..(i - n) - 1 : u[j] \in {"<think>", "r"}
      BY <1>1, <2>2, <3>1 DEF Spans
    <3>3. n + j \in 1..i - 1 /\ t[n + j] = u[j]
      BY <1>1, <2>2, <3>2
    <3> QED
      BY <3>2, <3>3
  <2> QED
    BY <1>2, <2>1, <2>2
<1>5. Spans(t, FALSE)
  BY <1>1, <1>3, <1>4 DEF Spans
<1> QED
  BY <1>5 DEF t

\* What the client was shown against what is kept: the same between rounds, the round's
\* text more while it is read; at the end the same, unless the turn failed or was cancelled
\* (then the round's text more may be shown), or the client was gone and its last span was
\* closed for the store.
StreamInv ==
    /\ Spans(final, FALSE)
    /\ turnPc = "request" => said = <<>> /\ ~open
    /\ turnPc \in {"read", "close"} => Spans(said, open) /\ shown = final \o said
    /\ turnPc \in {"begin", "inlet", "round", "request", "tools"} => shown = final
    /\ turnPc \in {"outlet", "done"} =>
         \/ shown = final
         \/ (failed \/ cut) /\ shown = final \o said
         \/ aborted /\ final = Append(shown, "</think>")
    /\ reply = None \/ (turnPc = "done" /\ reply = final)

LEMMA TailOfConcat ==
    ASSUME NEW s \in Seq(Tokens), NEW t \in Seq(Tokens), NEW x \in Tokens
    PROVE  /\ t \o <<x>> = Append(t, x) /\ Append(t, x) \in Seq(Tokens)
           /\ s \o t \o <<x>> = s \o Append(t, x)
           /\ s \o t \o <<x>> = Append(s \o t, x)
<1>1. t \o <<x>> = Append(t, x) /\ Append(t, x) \in Seq(Tokens)
  OBVIOUS
<1>2. s \o t \in Seq(Tokens) /\ (s \o t) \o <<x>> = Append(s \o t, x)
  OBVIOUS
<1>3. (s \o t) \o <<x>> = s \o (t \o <<x>>)
  OBVIOUS
<1> QED
  BY <1>1, <1>2, <1>3

LEMMA StreamStep ==
    TurnType /\ StreamInv /\ [Answering!Next]_(Answering!vars) => StreamInv'
<1> SUFFICES ASSUME TurnType, StreamInv, [Answering!Next]_(Answering!vars) PROVE StreamInv'
  OBVIOUS
<1>0. /\ {"r", "c", "<think>", "</think>"} \subseteq Tokens
      /\ said \in Seq(Tokens) /\ final \in Seq(Tokens) /\ shown \in Seq(Tokens)
      /\ open \in BOOLEAN /\ aborted \in BOOLEAN /\ failed \in BOOLEAN
  BY DEF Tokens, Answering!Tokens, TurnType
<1> USE DEF StreamInv
<1>1. CASE Answering!Compose
  BY <1>1 DEF Answering!Compose
<1>2. CASE Answering!Inlet
  BY <1>2 DEF Answering!Inlet
<1>3. CASE Answering!InletsEnd
  BY <1>3 DEF Answering!InletsEnd
<1>4. CASE Answering!Round
  BY <1>4 DEF Answering!Round, Answering!BeginRound
<1>5. CASE Answering!Upstream
  <2>1. final \o <<>> = final
    BY <1>0
  <2>2. Spans(<<>>, FALSE)
    BY DEF Spans
  <2>3. turnPc = "request" /\ said = <<>> /\ ~open /\ shown = final
    BY <1>5 DEF Answering!Upstream
  <2>4. open = FALSE
    BY <1>0, <2>3
  <2> QED
    BY <1>5, <2>1, <2>2, <2>3, <2>4 DEF Answering!Upstream
<1>6. CASE Answering!Chunk
  <2>0. /\ turnPc = "read" /\ turnPc' \in {"read", "close"} /\ UNCHANGED <<final, reply>>
        /\ reply = None
        /\ Spans(said, open) /\ shown = final \o said /\ Spans(final, FALSE)
    BY <1>6 DEF Answering!Chunk
  <2>1. Spans(said', open') /\ shown' = final \o said'
    <3>1. ASSUME NEW s \in Seq(Tokens), said' = said \o s, shown' = shown \o s
          PROVE  shown' = final \o said'
      BY <1>0, <2>0, <3>1
    <3>2. CASE Answering!Reasoning
      <4>1. CASE open
        <5>1. said' = said \o <<"r">> /\ shown' = shown \o <<"r">> /\ open' = TRUE
          BY <3>2, <4>1 DEF Answering!Reasoning, Answering!Says
        <5>2. said \o <<"r">> = Append(said, "r") /\ <<"r">> \in Seq(Tokens)
          BY <1>0
        <5>3. Spans(Append(said, "r"), TRUE)
          BY <1>0, <2>0, <4>1, SpanStep
        <5> QED
          BY <3>1, <5>1, <5>2, <5>3
      <4>2. CASE ~open
        <5>1. /\ said' = said \o <<"<think>", "r">> /\ shown' = shown \o <<"<think>", "r">>
              /\ open' = TRUE
          BY <3>2, <4>2 DEF Answering!Reasoning, Answering!Says
        <5>2. /\ said \o <<"<think>", "r">> = Append(Append(said, "<think>"), "r")
              /\ <<"<think>", "r">> \in Seq(Tokens) /\ Append(said, "<think>") \in Seq(Tokens)
          BY <1>0
        <5>3. Spans(Append(said, "<think>"), TRUE)
          BY <1>0, <2>0, <4>2, SpanStep
        <5>4. Spans(Append(Append(said, "<think>"), "r"), TRUE)
          BY <1>0, <5>2, <5>3, SpanStep
        <5> QED
          BY <3>1, <5>1, <5>2, <5>4
      <4> QED
        BY <4>1, <4>2
    <3>3. CASE Answering!Content
      <4>1. CASE open
        <5>1. /\ said' = said \o <<"</think>", "c">> /\ shown' = shown \o <<"</think>", "c">>
              /\ open' = FALSE
          BY <3>3, <4>1 DEF Answering!Content, Answering!Says
        <5>2. /\ said \o <<"</think>", "c">> = Append(Append(said, "</think>"), "c")
              /\ <<"</think>", "c">> \in Seq(Tokens) /\ Append(said, "</think>") \in Seq(Tokens)
          BY <1>0
        <5>3. Spans(Append(said, "</think>"), FALSE)
          BY <1>0, <2>0, <4>1, SpanStep
        <5>4. Spans(Append(Append(said, "</think>"), "c"), FALSE)
          BY <1>0, <5>2, <5>3, SpanStep
        <5> QED
          BY <3>1, <5>1, <5>2, <5>4
      <4>2. CASE ~open
        <5>1. said' = said \o <<"c">> /\ shown' = shown \o <<"c">> /\ open' = FALSE
          BY <3>3, <4>2 DEF Answering!Content, Answering!Says
        <5>2. said \o <<"c">> = Append(said, "c") /\ <<"c">> \in Seq(Tokens)
          BY <1>0
        <5>3. Spans(Append(said, "c"), FALSE)
          BY <1>0, <2>0, <4>2, SpanStep
        <5> QED
          BY <3>1, <5>1, <5>2, <5>3
      <4> QED
        BY <4>1, <4>2
    <3>4. CASE Answering!CallPart
      BY <2>0, <3>4 DEF Answering!CallPart
    <3> QED
      BY <1>6, <3>2, <3>3, <3>4 DEF Answering!Chunk
  <2> QED
    BY <2>0, <2>1
<1>7. CASE Answering!StreamEnds
  BY <1>7 DEF Answering!StreamEnds
<1>8. CASE Answering!Close
  <2>0. /\ Spans(said, open) /\ shown = final \o said /\ Spans(final, FALSE)
        /\ turnPc' \in {"outlet", "tools"} /\ (turnPc' = "tools" => ~aborted)
        /\ reply' = None
        /\ UNCHANGED <<aborted, failed, cut, said>>
    BY <1>8 DEF Answering!Close
  <2>1. CASE open
    <3>1. /\ final' = final \o said \o <<"</think>">>
          /\ shown' = IF aborted THEN shown ELSE shown \o <<"</think>">>
      BY <1>8, <2>1 DEF Answering!Close
    <3>2. /\ said \o <<"</think>">> = Append(said, "</think>")
          /\ Append(said, "</think>") \in Seq(Tokens)
          /\ final \o said \o <<"</think>">> = final \o Append(said, "</think>")
          /\ final \o said \o <<"</think>">> = Append(final \o said, "</think>")
      <4>1. "</think>" \in Tokens
        BY <1>0
      <4> HIDE DEF StreamInv
      <4>2. ASSUME NEW x \in Tokens
            PROVE  /\ said \o <<x>> = Append(said, x) /\ Append(said, x) \in Seq(Tokens)
                   /\ final \o said \o <<x>> = final \o Append(said, x)
                   /\ final \o said \o <<x>> = Append(final \o said, x)
        BY <1>0, TailOfConcat
      <4> QED
        BY <4>1, <4>2
    <3>3. Spans(Append(said, "</think>"), FALSE)
      BY <1>0, <2>0, <2>1, SpanStep
    <3>4. Spans(final', FALSE)
      BY <1>0, <2>0, <3>1, <3>2, <3>3, SpansConcat
    <3>5. IF aborted THEN final' = Append(shown', "</think>") ELSE shown' = final'
      BY <2>0, <3>1, <3>2
    <3>6. \/ shown' = final'
          \/ aborted' /\ final' = Append(shown', "</think>")
      BY <2>0, <3>5
    <3>7. turnPc' = "tools" => shown' = final'
      BY <2>0, <3>5
    <3> QED
      BY <2>0, <3>4, <3>6, <3>7
  <2>2. CASE ~open
    <3>1. final' = final \o said \o <<>> /\ shown' = IF aborted THEN shown ELSE shown \o <<>>
      BY <1>8, <2>2 DEF Answering!Close
    <3>2. final \o said \o <<>> = final \o said /\ shown \o <<>> = shown
      BY <1>0
    <3>3. final' = final \o said /\ shown' = final'
      BY <2>0, <3>1, <3>2
    <3>4. open = FALSE
      BY <1>0, <2>2
    <3>5. Spans(final', FALSE)
      BY <1>0, <2>0, <3>3, <3>4, SpansConcat
    <3> HIDE DEF StreamInv
    <3> QED
      BY <2>0, <3>3, <3>5, Zenon DEF StreamInv
  <2> QED
    BY <2>1, <2>2
<1>9. CASE Answering!RunTool
  BY <1>9 DEF Answering!RunTool
<1>10. CASE Answering!ToolsEnd
  BY <1>10 DEF Answering!ToolsEnd
<1>11. CASE Answering!Persist
  <2>1. reply' \in {final, None}
    BY <1>11 DEF Answering!Persist, Answering!Outlet
  <2> QED
    BY <1>11, <2>1 DEF Answering!Persist
<1>12. CASE Answering!Leaves
  BY <1>12 DEF Answering!Leaves
<1>13. CASE Answering!ServerChanges
  BY <1>13 DEF Answering!ServerChanges
<1>14. CASE UNCHANGED Answering!vars
  BY <1>14 DEF Answering!vars
<1>15. CASE Answering!Cancelled
  <2>1. /\ turnPc' \in {"outlet", "done"} /\ cut' = TRUE
        /\ turnPc' = "done" => turnPc = "inlet"
        /\ turnPc \in {"inlet", "round", "request", "read", "close", "tools"}
        /\ UNCHANGED <<said, final, shown, reply>>
    BY <1>15 DEF Answering!Cancelled
  <2>2. shown = final \/ shown = final \o said
    BY <2>1
  <2> QED
    BY <2>1, <2>2
<1>16. CASE Answering!ToolRaises
  BY <1>16 DEF Answering!ToolRaises
<1> QED
  BY <1>1, <1>2, <1>3, <1>4, <1>5, <1>6, <1>7, <1>8, <1>9, <1>10, <1>11, <1>12, <1>13, <1>14,
     <1>15, <1>16
     DEF Answering!Next

\* What is stored of a turn is what its client was shown: all of it, unless the turn failed
\* or was cancelled inside a round, whose text is then missing, and no more than that; an end
\* tag that the departed client was no longer sent may follow.  Reasoning is always closed
\* (_stream_and_persist).
THEOREM StoredWasStreamed == Answering!Spec => []StoredIsStreamed
<1>1. Answering!Init => StreamInv
  BY DEF Answering!Init, StreamInv, Spans
<1>2. TurnType /\ StreamInv => StoredIsStreamed
  <2> SUFFICES ASSUME TurnType, StreamInv, turnPc = "done", reply # None
               PROVE  /\ Answering!Balanced(reply)
                      /\ \/ reply = shown
                         \/ (failed \/ cut) /\ shown = reply \o said
                         \/ aborted /\ reply = Append(shown, "</think>")
    BY DEF StoredIsStreamed, Answering!StoredIsStreamed
  <2>1. reply = final /\ Answering!Balanced(final)
    BY SpansAreBalanced DEF StreamInv
  <2> QED
    BY <2>1 DEF StreamInv
<1> QED
  BY <1>1, <1>2, TurnTypeCorrect, StreamStep, PTL DEF Answering!Spec

-----------------------------------------------------------------------------
(* Every call a turn asks with has been answered. *)

\* The place of call c's result after the message that has the calls S.
Rank(S, c) == Cardinality({d \in S : d <= c})

\* Message i has all its results.
AnsweredAt(ms, i) ==
    \A c \in ms[i][2] : i + Rank(ms[i][2], c) <= Len(ms) /\ ms[i + Rank(ms[i][2], c)] = <<"result", c>>

Answered(i) == AnsweredAt(msgs, i)

\* Message i has the calls of this round, and the results of those that ran.
AwaitsAt(i) ==
    /\ msgs[i][2] = DOMAIN calls
    /\ Len(msgs) = i + Cardinality(Ran)
    /\ \A c \in Ran : /\ Rank(DOMAIN calls, c) <= Cardinality(Ran)
                      /\ msgs[i + Rank(DOMAIN calls, c)] = <<"result", c>>

\* The calls run in the order of their indices, each of them once a round, and every
\* message with calls but the one they run for has been answered, unless the turn is over.
ReplayInv ==
    /\ body = kept
    /\ \A n \in DOMAIN tools : tools[n][1] <= round
    /\ turnPc \in {"request", "read", "close"} => \A n \in DOMAIN tools : tools[n][1] < round
    /\ turnPc = "tools" => \A c \in Ran, d \in Answering!Pending : c < d
    /\ \A i \in DOMAIN msgs :
         msgs[i][1] = "call" =>
             turnPc \in {"outlet", "done"} \/ Answered(i) \/ (turnPc = "tools" /\ AwaitsAt(i))

LEMMA RankIsNat == \A S \in CallSets : \A c : Rank(S, c) \in Nat
<1> TAKE S \in CallSets
<1> TAKE c
<1>1. {d \in S : d <= c} \subseteq S /\ IsFiniteSet(S)
  BY DEF CallSets
<1> QED
  BY <1>1, FS_Subset, FS_CardinalityType DEF Rank

\* A message more does not take an answer away.
LEMMA AnsweredStays ==
    ASSUME NEW ms \in Seq(Messages), NEW m \in Messages, NEW i \in DOMAIN ms,
           ms[i][1] = "call", AnsweredAt(ms, i)
    PROVE  Append(ms, m)[i] = ms[i] /\ AnsweredAt(Append(ms, m), i)
<1> DEFINE more == Append(ms, m)
<1>1. /\ Len(ms) \in Nat /\ Len(more) = Len(ms) + 1 /\ DOMAIN ms = 1..Len(ms)
      /\ \A j \in 1..Len(ms) : more[j] = ms[j]
  OBVIOUS
<1> HIDE DEF more
<1>2. PICK S \in CallSets : ms[i] = <<"call", S>>
  BY DEF Messages
<1>3. ASSUME NEW c \in S
      PROVE  i + Rank(S, c) <= Len(more) /\ more[i + Rank(S, c)] = <<"result", c>>
  <2>1. i + Rank(S, c) <= Len(ms) /\ ms[i + Rank(S, c)] = <<"result", c>>
    BY <1>2, <1>3 DEF AnsweredAt
  <2>2. Rank(S, c) \in Nat
    BY RankIsNat
  <2>3. i + Rank(S, c) \in 1..Len(ms)
    BY <1>1, <2>1, <2>2
  <2> QED
    BY <1>1, <2>1, <2>2, <2>3
<1>4. more[i] = ms[i]
  BY <1>1
<1>5. AnsweredAt(more, i)
  BY <1>2, <1>3, <1>4 DEF AnsweredAt
<1> QED
  BY <1>4, <1>5 DEF more

LEMMA RanInOrder ==
    ASSUME TurnType, Answering!Pending # {}, \A c \in Ran, d \in Answering!Pending : c < d
    PROVE  /\ Rank(DOMAIN calls, Answering!NextCall) = Cardinality(Ran) + 1
           /\ \A c \in Ran : c < Answering!NextCall
           /\ \A d \in Answering!Pending \ {Answering!NextCall} : Answering!NextCall < d
<1> DEFINE n == Answering!NextCall
<1>1. /\ n \in Answering!Pending /\ n \in DOMAIN calls /\ \A j \in Answering!Pending : n =< j
  BY NextCallPending
<1>2. Answering!Pending \subseteq DOMAIN calls /\ DOMAIN calls \subseteq Nat
  BY TurnAssumption DEF TurnType, Answering!Pending
<1> HIDE DEF n
<1>3. {d \in DOMAIN calls : d <= n} = Ran \cup {n}
  BY <1>1, <1>2 DEF Ran
<1>4. n \notin Ran /\ IsFiniteSet(Ran)
  BY <1>1, FS_Difference DEF Ran, TurnType
<1>5. Rank(DOMAIN calls, n) = Cardinality(Ran) + 1
  BY <1>3, <1>4, FS_AddElement DEF Rank
<1>6. \A d \in Answering!Pending \ {n} : n < d
  BY <1>1, <1>2
<1> QED
  BY <1>1, <1>5, <1>6 DEF n

LEMMA ReplayStep ==
    TurnType /\ ReplayInv /\ [Answering!Next]_(Answering!vars) => ReplayInv'
<1> SUFFICES ASSUME TurnType, ReplayInv, [Answering!Next]_(Answering!vars) PROVE ReplayInv'
  OBVIOUS
<1>a. /\ round \in Nat /\ tools \in Seq(Nat \X Calls \X Outcomes) /\ msgs \in Seq(Messages)
      /\ DOMAIN calls \in CallSets
  BY DEF TurnType, CallSets
<1>d. /\ \A i : Answered(i) <=> AnsweredAt(msgs, i)
      /\ \A i : Answered(i)' <=> AnsweredAt(msgs', i)
  BY DEF Answered, AnsweredAt, Rank
<1>b. ASSUME UNCHANGED msgs, turnPc \notin {"tools", "outlet", "done"}
      PROVE  \A i \in DOMAIN msgs' : msgs'[i][1] = "call" => Answered(i)'
  BY <1>b, <1>d DEF ReplayInv
<1>c. ASSUME UNCHANGED <<msgs, tools, round, calls, body, kept, turnPc>>
      PROVE  ReplayInv'
  <2>1. Answering!Pending' = Answering!Pending /\ Ran' = Ran
    BY <1>c DEF Answering!Pending, Ran
  <2>2. \A i : AwaitsAt(i)' = AwaitsAt(i)
    BY <1>c, <2>1 DEF AwaitsAt, Rank
  <2> QED
    BY <1>c, <1>d, <2>1, <2>2 DEF ReplayInv
<1>1. CASE Answering!Compose
  BY <1>1, <1>b DEF Answering!Compose, ReplayInv
<1>2. CASE Answering!Inlet
  <2>1. body' = kept'
    BY <1>2 DEF Answering!Inlet, ReplayInv
  <2> QED
    BY <1>2, <1>b, <2>1 DEF Answering!Inlet, ReplayInv
<1>3. CASE Answering!InletsEnd
  BY <1>3, <1>b DEF Answering!InletsEnd, ReplayInv
<1>4. CASE Answering!Round
  <2>1. \A n \in DOMAIN tools : tools[n][1] \in Nat
    BY <1>a
  <2>2. \/ turnPc' = "outlet" /\ round' = round
        \/ turnPc' = "request" /\ round' = round + 1
    BY <1>4 DEF Answering!Round, Answering!BeginRound
  <2>3. turnPc = "round" /\ UNCHANGED <<msgs, tools, body, kept>>
    BY <1>4 DEF Answering!Round
  <2> QED
    BY <1>a, <1>b, <2>1, <2>2, <2>3 DEF ReplayInv
<1>5. CASE Answering!Upstream
  BY <1>5, <1>b DEF Answering!Upstream, ReplayInv
<1>6. CASE Answering!Chunk
  <2>1. /\ turnPc = "read" /\ turnPc' \in {"read", "close"}
        /\ UNCHANGED <<msgs, tools, round, body, kept>>
    BY <1>6 DEF Answering!Chunk
  <2> QED
    BY <2>1, <1>b DEF ReplayInv
<1>7. CASE Answering!StreamEnds
  BY <1>7, <1>b DEF Answering!StreamEnds, ReplayInv
<1>8. CASE Answering!Close
  <2>1. turnPc = "close" /\ UNCHANGED <<tools, round, body, kept, calls>>
    BY <1>8 DEF Answering!Close
  <2>2. CASE turnPc' = "outlet" /\ UNCHANGED msgs
    BY <1>b, <2>1, <2>2 DEF ReplayInv
  <2>3. CASE turnPc' = "tools" /\ msgs' = Append(msgs, <<"call", DOMAIN calls>>)
    <3>0. \A n \in DOMAIN tools : tools[n][1] \in Nat
      BY <1>a
    <3>1. Answering!Pending' = DOMAIN calls /\ Ran' = {}
      <4>1. \A n \in DOMAIN tools : tools[n][1] # round
        BY <1>a, <2>1, <3>0 DEF ReplayInv
      <4>2. Answering!Pending' = DOMAIN calls
        BY <2>1, <4>1 DEF Answering!Pending
      <4> QED
        BY <2>1, <4>2 DEF Ran
    <3>2. Cardinality(Ran') = 0
      BY <3>1, FS_EmptySet
    <3>3. <<"call", DOMAIN calls>> \in Messages
      BY <1>a DEF Messages
    <3>4. \A i \in DOMAIN msgs : msgs'[i][1] = "call" => AnsweredAt(msgs', i)
      BY <1>a, <1>d, <2>1, <2>3, <3>3, AnsweredStays DEF ReplayInv
    <3>5. /\ DOMAIN msgs' = DOMAIN msgs \cup {Len(msgs')} /\ Len(msgs') \in Nat
          /\ msgs'[Len(msgs')] = <<"call", DOMAIN calls>>
      BY <1>a, <2>3, <3>3
    <3>6. ASSUME NEW i, i = Len(msgs')
          PROVE  AwaitsAt(i)'
      <4>1. msgs'[i][2] = DOMAIN calls'
        BY <2>1, <3>5, <3>6
      <4>2. Len(msgs') = i + Cardinality(Ran')
        <5>1. i \in Nat /\ Cardinality(Ran') = 0
          BY <3>2, <3>5, <3>6
        <5>2. i = i + Cardinality(Ran')
          BY <5>1
        <5> QED
          BY <5>2, <3>6
      <4> QED
        BY <3>1, <4>1, <4>2 DEF AwaitsAt
    <3>7. \A i \in DOMAIN msgs' : msgs'[i][1] = "call" => Answered(i)' \/ AwaitsAt(i)'
      BY <1>d, <3>4, <3>5, <3>6
    <3> QED
      BY <2>1, <2>3, <3>0, <3>1, <3>7 DEF ReplayInv
  <2> QED
    BY <1>8, <2>2, <2>3 DEF Answering!Close, Answering!CallMessage
<1>9. CASE Answering!RunTool
  <2> DEFINE n == Answering!NextCall
  <2>1. /\ turnPc = "tools" /\ Answering!Pending # {}
        /\ UNCHANGED <<turnPc, round, calls, body, kept>>
        /\ msgs' = Append(msgs, <<"result", n>>)
    BY <1>9 DEF Answering!RunTool
  <2>2. Rank(DOMAIN calls, n) = Cardinality(Ran) + 1
        /\ \A d \in Answering!Pending \ {n} : n < d
    BY <2>1, RanInOrder DEF ReplayInv
  <2>3. /\ Answering!Pending' = Answering!Pending \ {n} /\ Ran' = Ran \cup {n}
        /\ n \in DOMAIN calls
    BY <1>9, <2>1, PendingStep, NextCallPending DEF Ran
  <2>4. Cardinality(Ran') = Cardinality(Ran) + 1 /\ Cardinality(Ran) \in Nat
    BY <1>9, RanStep, RanBound
  <2>5. <<"result", n>> \in Messages
    BY <1>a, <2>3 DEF Messages, CallSets
  <2> HIDE DEF n
  <2>6. /\ DOMAIN msgs' = DOMAIN msgs \cup {Len(msgs) + 1} /\ Len(msgs') = Len(msgs) + 1
        /\ Len(msgs) \in Nat /\ DOMAIN msgs = 1..Len(msgs)
        /\ \A i \in DOMAIN msgs : msgs'[i] = msgs[i]
        /\ msgs'[Len(msgs) + 1] = <<"result", n>>
    BY <1>a, <2>1, <2>5
  <2>7. ASSUME NEW i \in DOMAIN msgs, AwaitsAt(i)
        PROVE  AwaitsAt(i)'
    <3>1. Len(msgs') = i + Cardinality(Ran') /\ i \in Nat
      BY <2>4, <2>6, <2>7 DEF AwaitsAt
    <3>2. msgs'[i][2] = DOMAIN calls'
      BY <2>1, <2>6, <2>7 DEF AwaitsAt
    <3>3. ASSUME NEW c \in Ran
          PROVE  /\ Rank(DOMAIN calls, c) <= Cardinality(Ran')
                 /\ msgs'[i + Rank(DOMAIN calls, c)] = <<"result", c>>
      <4>1. Rank(DOMAIN calls, c) \in Nat
        BY <1>a, RankIsNat
      <4>2. /\ Rank(DOMAIN calls, c) <= Cardinality(Ran)
            /\ msgs[i + Rank(DOMAIN calls, c)] = <<"result", c>>
            /\ Len(msgs) = i + Cardinality(Ran)
        BY <2>7 DEF AwaitsAt
      <4>3. i + Rank(DOMAIN calls, c) \in DOMAIN msgs
        BY <2>4, <2>6, <3>1, <4>1, <4>2
      <4> QED
        BY <2>4, <2>6, <4>1, <4>2, <4>3
    <3>4. /\ Rank(DOMAIN calls, n) <= Cardinality(Ran')
          /\ msgs'[i + Rank(DOMAIN calls, n)] = <<"result", n>>
      BY <2>2, <2>4, <2>6, <2>7, <3>1 DEF AwaitsAt
    <3> QED
      BY <2>1, <2>3, <3>1, <3>2, <3>3, <3>4 DEF AwaitsAt, Rank
  <2>8. ASSUME NEW i \in DOMAIN msgs', msgs'[i][1] = "call"
        PROVE  AnsweredAt(msgs', i) \/ AwaitsAt(i)'
    <3>1. i \in DOMAIN msgs /\ msgs[i][1] = "call"
      BY <2>6, <2>8
    <3>2. CASE AnsweredAt(msgs, i)
      BY <1>a, <2>1, <2>5, <3>1, <3>2, AnsweredStays
    <3>3. CASE AwaitsAt(i)
      BY <2>7, <3>1, <3>3
    <3> QED
      BY <1>d, <2>1, <3>1, <3>2, <3>3 DEF ReplayInv
  <2>9. \A c \in Ran', d \in Answering!Pending' : c < d
    BY <2>1, <2>2, <2>3 DEF ReplayInv
  <2>10. \A k \in DOMAIN tools' : tools'[k][1] <= round'
    <3>1. PICK o : tools' = Append(tools, <<round, n, o>>)
      BY <1>9 DEF Answering!RunTool, n
    <3>2. /\ DOMAIN tools' = DOMAIN tools \cup {Len(tools) + 1}
          /\ \A k \in DOMAIN tools : tools'[k] = tools[k]
          /\ tools'[Len(tools) + 1] = <<round, n, o>>
      BY <1>a, <3>1
    <3> QED
      BY <1>a, <2>1, <3>2 DEF ReplayInv
  <2> QED
    BY <1>d, <2>1, <2>8, <2>9, <2>10 DEF ReplayInv
<1>10. CASE Answering!ToolsEnd
  <2>1. /\ turnPc = "tools" /\ turnPc' = "round" /\ Answering!Pending = {}
        /\ UNCHANGED <<msgs, tools, round, calls, body, kept>>
    BY <1>10 DEF Answering!ToolsEnd
  <2>2. Ran = DOMAIN calls
    BY <2>1 DEF Ran
  <2>3. ASSUME NEW i \in DOMAIN msgs, AwaitsAt(i)
        PROVE  AnsweredAt(msgs, i)
    <3>1. Cardinality(Ran) \in Nat /\ i \in Nat
      BY <1>a, RanBound
    <3> QED
      BY <1>a, <2>2, <2>3, <3>1, RankIsNat DEF AnsweredAt, AwaitsAt
  <2> QED
    BY <1>d, <2>1, <2>3 DEF ReplayInv
<1>11. CASE Answering!Persist
  BY <1>11 DEF Answering!Persist, ReplayInv
<1>12. CASE Answering!Leaves
  BY <1>12, <1>c DEF Answering!Leaves
<1>13. CASE Answering!ServerChanges
  BY <1>13, <1>c DEF Answering!ServerChanges
<1>14. CASE UNCHANGED Answering!vars
  BY <1>14, <1>c DEF Answering!vars
<1>15. CASE Answering!Cancelled
  BY <1>15 DEF Answering!Cancelled, ReplayInv
<1>16. CASE Answering!ToolRaises
  BY <1>16 DEF Answering!ToolRaises, ReplayInv
<1> QED
  BY <1>1, <1>2, <1>3, <1>4, <1>5, <1>6, <1>7, <1>8, <1>9, <1>10, <1>11, <1>12, <1>13, <1>14,
     <1>15, <1>16
     DEF Answering!Next

\* Whatever a round sends upstream, each of the calls replayed has its result after it, in
\* order, and the body is what the plugins that answered in order made of it
\* (_stream_and_persist, run_inlet).
THEOREM RoundsCanBeAnswered == Answering!Spec => []RequestSound
<1>1. Answering!Init => ReplayInv
  BY DEF Answering!Init, ReplayInv
<1>2. ReplayInv => RequestSound
  BY SameCardinality DEF ReplayInv, Answered, AnsweredAt, Rank, RequestSound, Answering!RequestSound, Answering!WellFormed
<1> QED
  BY <1>1, <1>2, TurnTypeCorrect, ReplayStep, PTL DEF Answering!Spec

-----------------------------------------------------------------------------
(* The compatible APIs. *)

\* What the lines so far are for the client.
TextsOf(ls) == {i \in DOMAIN ls : ls[i] = "text"}
Deltas(k) == [i \in 1..k |-> "content_block_delta"]
BodyOf(ls) ==
    IF api = "anthropic" THEN Relaying!Opening \o Deltas(Cardinality(TextsOf(ls))) ELSE ls

Events ==
    Relaying!Lines \cup {"message_start", "content_block_start", "ping", "content_block_delta",
                        "content_block_stop", "message_delta", "message_stop", "error"}

\* The last finish reason was the length.
Cut(ls) ==
    \E i \in DOMAIN ls : ls[i] = "length" /\ \A j \in i + 1..Len(ls) : ls[j] # "stop"

EndingOf ==
    CASE ended = "" -> <<>>
      [] ended = "closed" -> IF api = "anthropic" THEN Relaying!Closing ELSE <<>>
      [] OTHER -> Relaying!ErrorFrame

Told ==
    /\ events = BodyOf(lines) \o EndingOf
    /\ api = "anthropic" => reason = IF Cut(lines) THEN "max_tokens" ELSE "end_turn"

\* Nothing is sent before the response begins; a stream has no ending while it lasts.
RelayInv ==
    /\ api \in {"openai", "anthropic"}
    /\ lines \in Seq(Relaying!Lines)
    /\ apiPc \in {"key", "body", "post", "open"} =>
         status = 0 /\ events = <<>> /\ lines = <<>> /\ ended = "" /\ reason = "end_turn"
    /\ apiPc = "post" => ~streaming
    /\ apiPc = "open" => streaming
    /\ apiPc \in {"stream", "close"} => status = 200 /\ streaming /\ ended = ""
    /\ status = 200 /\ streaming => Told

LEMMA SameCount == \A S : Relaying!Cardinality(S) = Cardinality(S)
BY DEF Relaying!Cardinality, Cardinality

LEMMA ToldMeans == (status = 200 /\ streaming => Told) <=> StreamTellsAll
BY SameCount DEF Told, BodyOf, TextsOf, Deltas, Cut, EndingOf, StreamTellsAll, Relaying!StreamTellsAll

LEMMA BodyType ==
    ASSUME NEW ls \in Seq(Relaying!Lines)
    PROVE  Cardinality(TextsOf(ls)) \in Nat /\ BodyOf(ls) \in Seq(Events)
<1>1. TextsOf(ls) \subseteq 1..Len(ls) /\ IsFiniteSet(1..Len(ls))
  BY FS_Interval DEF TextsOf
<1>2. Cardinality(TextsOf(ls)) \in Nat
  BY <1>1, FS_Subset, FS_CardinalityType
<1>3. ls \in Seq(Events)
  BY DEF Events
<1>4. Deltas(Cardinality(TextsOf(ls))) \in Seq(Events)
  <2>1. "content_block_delta" \in Events
    BY DEF Events
  <2> QED
    BY <1>2, <2>1 DEF Deltas
<1>5. Relaying!Opening \in Seq(Events)
  BY DEF Relaying!Opening, Events
<1>6. Relaying!Opening \o Deltas(Cardinality(TextsOf(ls))) \in Seq(Events)
  BY <1>4, <1>5
<1> QED
  BY <1>2, <1>3, <1>6 DEF BodyOf

LEMMA TextsStep ==
    ASSUME NEW ls \in Seq(Relaying!Lines), NEW x \in Relaying!Lines
    PROVE  Cardinality(TextsOf(Append(ls, x))) =
             IF x = "text" THEN Cardinality(TextsOf(ls)) + 1 ELSE Cardinality(TextsOf(ls))
<1> DEFINE t == Append(ls, x)
           n == Len(ls)
<1>1. /\ n \in Nat /\ DOMAIN ls = 1..n /\ DOMAIN t = 1..n + 1
      /\ \A i \in 1..n : t[i] = ls[i]
      /\ t[n + 1] = x
  OBVIOUS
<1> HIDE DEF t, n
<1>2. TextsOf(ls) \subseteq 1..n /\ IsFiniteSet(1..n)
  BY <1>1, FS_Interval DEF TextsOf
<1>3. IsFiniteSet(TextsOf(ls)) /\ n + 1 \notin TextsOf(ls)
  BY <1>1, <1>2, FS_Subset
<1>4. TextsOf(t) = IF x = "text" THEN TextsOf(ls) \cup {n + 1} ELSE TextsOf(ls)
  BY <1>1 DEF TextsOf
<1>5. Cardinality(TextsOf(t)) = IF x = "text" THEN Cardinality(TextsOf(ls)) + 1 ELSE Cardinality(TextsOf(ls))
  BY <1>3, <1>4, FS_AddElement
<1> QED
  BY <1>5 DEF t

\* A text line is one delta more.
LEMMA BodyStep ==
    ASSUME NEW ls \in Seq(Relaying!Lines), NEW x \in Relaying!Lines
    PROVE  BodyOf(Append(ls, x)) =
             IF api # "anthropic" THEN Append(BodyOf(ls), x)
             ELSE IF x = "text" THEN Append(BodyOf(ls), "content_block_delta") ELSE BodyOf(ls)
<1>1. CASE api # "anthropic"
  BY <1>1 DEF BodyOf
<1>2. CASE api = "anthropic" /\ x # "text"
  <2>1. Cardinality(TextsOf(Append(ls, x))) = Cardinality(TextsOf(ls))
    BY <1>2, TextsStep
  <2> QED
    BY <1>2, <2>1 DEF BodyOf
<1>3. CASE api = "anthropic" /\ x = "text"
  <2> DEFINE k == Cardinality(TextsOf(ls))
             o == Relaying!Opening
             d == "content_block_delta"
  <2>1. k \in Nat /\ Cardinality(TextsOf(Append(ls, x))) = k + 1
    BY <1>3, TextsStep, BodyType
  <2>2. o \in Seq(Events) /\ d \in Events
    BY DEF Relaying!Opening, Events
  <2> HIDE DEF k, o, d
  <2>3. [i \in 1..k |-> d] \in Seq(Events) /\ [i \in 1..k + 1 |-> d] = Append([i \in 1..k |-> d], d)
    BY <2>1, <2>2
  <2>4. o \o [i \in 1..k + 1 |-> d] = Append(o \o [i \in 1..k |-> d], d)
    <3> DEFINE e == [i \in 1..k |-> d]
    <3>1. e \in Seq(Events)
      BY <2>3
    <3> HIDE DEF e
    <3>2. o \o Append(e, d) = Append(o \o e, d)
      BY <2>2, <3>1
    <3> QED
      BY <2>3, <3>2 DEF e
  <2> QED
    BY <1>3, <2>1, <2>4 DEF BodyOf, Deltas, k, o, d
<1> QED
  BY <1>1, <1>2, <1>3

LEMMA CutStep ==
    ASSUME NEW ls \in Seq(Relaying!Lines), NEW x \in Relaying!Lines
    PROVE  Cut(Append(ls, x)) <=> x = "length" \/ (x # "stop" /\ Cut(ls))
<1> DEFINE t == Append(ls, x)
           n == Len(ls)
<1>1. /\ n \in Nat /\ DOMAIN ls = 1..n /\ DOMAIN t = 1..n + 1 /\ Len(t) = n + 1
      /\ \A i \in 1..n : t[i] = ls[i]
      /\ t[n + 1] = x
  OBVIOUS
<1> HIDE DEF t, n
<1>2. CASE x = "length"
  <2>1. n + 1 \in DOMAIN t /\ t[n + 1] = "length" /\ \A j \in (n + 1) + 1..Len(t) : t[j] # "stop"
    BY <1>1, <1>2
  <2> QED
    BY <1>2, <2>1 DEF Cut, t
<1>3. CASE x = "stop"
  <2>1. ASSUME NEW i \in DOMAIN t, t[i] = "length"
        PROVE  ~ \A j \in i + 1..Len(t) : t[j] # "stop"
    <3>1. i \in 1..n
      BY <1>1, <1>3, <2>1
    <3>2. n + 1 \in i + 1..Len(t) /\ t[n + 1] = "stop"
      BY <1>1, <1>3, <3>1
    <3> QED
      BY <3>2
  <2> QED
    BY <1>3, <2>1 DEF Cut, t
<1>4. CASE x # "length" /\ x # "stop"
  <2>1. ASSUME Cut(ls)
        PROVE  Cut(t)
    <3>1. PICK i \in 1..n : ls[i] = "length" /\ \A j \in i + 1..n : ls[j] # "stop"
      BY <1>1, <2>1 DEF Cut, n
    <3>2. i \in DOMAIN t /\ t[i] = "length" /\ \A j \in i + 1..Len(t) : t[j] # "stop"
      BY <1>1, <1>4, <3>1
    <3> QED
      BY <3>2 DEF Cut
  <2>2. ASSUME Cut(t)
        PROVE  Cut(ls)
    <3>1. PICK i \in DOMAIN t : t[i] = "length" /\ \A j \in i + 1..Len(t) : t[j] # "stop"
      BY <2>2 DEF Cut
    <3>2. i \in 1..n /\ ls[i] = "length" /\ \A j \in i + 1..n : ls[j] # "stop"
      BY <1>1, <1>4, <3>1
    <3> QED
      BY <1>1, <3>2 DEF Cut, n
  <2> QED
    BY <1>4, <2>1, <2>2 DEF t
<1> QED
  BY <1>2, <1>3, <1>4

LEMMA NothingYet == /\ ~Cut(<<>>)
                    /\ BodyOf(<<>>) = IF api = "anthropic" THEN Relaying!Opening ELSE <<>>
<1>1. TextsOf(<<>>) = {}
  BY DEF TextsOf
<1>2. Cardinality(TextsOf(<<>>)) = 0
  BY <1>1, FS_EmptySet
<1>3. Deltas(0) = <<>>
  BY DEF Deltas
<1>4. Relaying!Opening \o <<>> = Relaying!Opening
  BY DEF Relaying!Opening
<1>5. ~Cut(<<>>)
  BY DEF Cut
<1>6. Deltas(Cardinality(TextsOf(<<>>))) = <<>>
  BY <1>2, <1>3
<1> QED
  BY <1>4, <1>5, <1>6 DEF BodyOf

LEMMA RelayStep == RelayInv /\ [Relaying!Next]_(Relaying!vars) => RelayInv'
<1> SUFFICES ASSUME RelayInv, [Relaying!Next]_(Relaying!vars) PROVE RelayInv'
  OBVIOUS
<1>a. ASSUME UNCHANGED <<api, events, reason, lines, ended>>
      PROVE  Told' <=> Told
  BY <1>a DEF Told, BodyOf, EndingOf, Relaying!ErrorFrame, TextsOf, Cut
<1>b. ASSUME NEW code, Relaying!Respond(code), apiPc \in {"key", "body", "post"},
             code = 200 => apiPc = "post"
      PROVE  RelayInv'
  BY <1>a, <1>b DEF Relaying!Respond, RelayInv
<1>c. UNCHANGED api => BodyOf(lines)' = BodyOf(lines') /\ (Cut(lines)' <=> Cut(lines'))
  BY DEF BodyOf, TextsOf, Cut
<1>d. Told /\ ended = "" => events = BodyOf(lines)
  <2>1. BodyOf(lines) \in Seq(Events)
    BY BodyType DEF RelayInv
  <2>2. BodyOf(lines) \o <<>> = BodyOf(lines)
    BY <2>1
  <2> QED
    BY <2>2 DEF Told, EndingOf
<1>1. CASE Relaying!KeyChanges
  BY <1>1, <1>a DEF Relaying!KeyChanges, RelayInv
<1>2. CASE Relaying!Authenticate
  <2>1. CASE apiPc' = "body" /\ UNCHANGED <<api, secret, disabled, streaming, status, events, reason, lines, ended>>
    BY <1>2, <1>a, <2>1 DEF Relaying!Authenticate, RelayInv
  <2> QED
    BY <1>2, <1>b, <2>1 DEF Relaying!Authenticate
<1>3. CASE Relaying!Accept
  <2>1. CASE /\ streaming' \in BOOLEAN
             /\ apiPc' = IF streaming' THEN "open" ELSE "post"
             /\ UNCHANGED <<api, secret, disabled, status, events, reason, lines, ended>>
    <3>1. apiPc = "body"
      BY <1>3 DEF Relaying!Accept
    <3>2. /\ apiPc' \in {"open", "post"}
          /\ (apiPc' = "post" => ~streaming') /\ (apiPc' = "open" => streaming')
      BY <2>1
    <3>3. status' # 200 /\ lines' \in Seq(Relaying!Lines) /\ api' \in {"openai", "anthropic"}
      <4>1. status = 0 /\ lines \in Seq(Relaying!Lines) /\ api \in {"openai", "anthropic"}
        BY <3>1 DEF RelayInv
      <4>2. UNCHANGED <<api, status, lines>>
        BY <2>1
      <4> QED
        BY <4>1, <4>2
    <3> QED
      BY <2>1, <3>1, <3>2, <3>3 DEF RelayInv
  <2> QED
    BY <1>3, <1>b, <2>1 DEF Relaying!Accept
<1>4. CASE Relaying!Post
  BY <1>4, <1>b DEF Relaying!Post
<1>5. CASE Relaying!Open
  <2>1. /\ apiPc = "open" /\ apiPc' = "stream" /\ status' = 200
        /\ events' = IF api = "anthropic" THEN Relaying!Opening ELSE <<>>
        /\ UNCHANGED <<api, streaming, reason, lines, ended>>
    BY <1>5 DEF Relaying!Open
  <2>2. lines = <<>> /\ ended = "" /\ reason = "end_turn"
    BY <2>1 DEF RelayInv
  <2>3. streaming
    BY <2>1 DEF RelayInv
  <2>4. events' = BodyOf(lines') /\ ~Cut(lines')
    BY <2>1, <2>2, NothingYet
  <2>5. lines' \in Seq(Relaying!Lines) /\ BodyOf(lines') \in Seq(Events)
    <3>1. <<>> \in Seq(Relaying!Lines)
      OBVIOUS
    <3> QED
      BY <2>1, <2>2, <3>1, BodyType
  <2>6. BodyOf(lines') \o <<>> = BodyOf(lines')
    BY <2>5
  <2>7. Told'
    BY <1>c, <2>1, <2>2, <2>4, <2>6 DEF Told, EndingOf
  <2> QED
    BY <2>1, <2>2, <2>3, <2>5, <2>7 DEF RelayInv
<1>6. CASE Relaying!Fails
  <2>1. /\ apiPc = "stream" /\ apiPc' = "done" /\ ended' \in {"refused", "broken"}
        /\ events' = events \o Relaying!ErrorFrame
        /\ UNCHANGED <<api, streaming, status, reason, lines>>
    BY <1>6 DEF Relaying!Fails
  <2>2. EndingOf' = Relaying!ErrorFrame
    BY <2>1 DEF EndingOf, Relaying!ErrorFrame
  <2>3. events = BodyOf(lines) /\ Told
    BY <1>d, <2>1 DEF RelayInv
  <2>4. BodyOf(lines)' = BodyOf(lines) /\ (Cut(lines)' <=> Cut(lines))
    BY <1>c, <2>1
  <2>5. BodyOf(lines) \in Seq(Events) /\ BodyOf(lines) \o <<>> = BodyOf(lines)
    <3>1. lines \in Seq(Relaying!Lines)
      BY DEF RelayInv
    <3>2. BodyOf(lines) \in Seq(Events)
      BY <3>1, BodyType
    <3> QED
      BY <3>2
  <2>6. Told'
    BY <2>1, <2>2, <2>3, <2>4, <2>5 DEF Told
  <2> QED
    BY <2>1, <2>6 DEF RelayInv
<1>7. CASE Relaying!Close
  <2>1. /\ apiPc \in {"stream", "close"} /\ apiPc' = "done" /\ ended' = "closed"
        /\ events' = IF api = "anthropic" THEN events \o Relaying!Closing ELSE events
        /\ UNCHANGED <<api, streaming, status, reason, lines>>
    BY <1>7 DEF Relaying!Close
  <2>2. EndingOf' = IF api = "anthropic" THEN Relaying!Closing ELSE <<>>
    BY <2>1 DEF EndingOf, Relaying!Closing
  <2>3. events = BodyOf(lines) /\ Told
    BY <1>d, <2>1 DEF RelayInv
  <2>4. BodyOf(lines)' = BodyOf(lines) /\ (Cut(lines)' <=> Cut(lines))
    BY <1>c, <2>1
  <2>5. BodyOf(lines) \in Seq(Events) /\ BodyOf(lines) \o <<>> = BodyOf(lines)
    <3>1. lines \in Seq(Relaying!Lines)
      BY DEF RelayInv
    <3>2. BodyOf(lines) \in Seq(Events)
      BY <3>1, BodyType
    <3> QED
      BY <3>2
  <2>6. Told'
    BY <2>1, <2>2, <2>3, <2>4, <2>5 DEF Told
  <2> QED
    BY <2>1, <2>6 DEF RelayInv
<1>8. CASE Relaying!Line
  <2>1. PICK x \in Relaying!Lines :
           /\ lines' = Append(lines, x)
           /\ IF api = "openai"
              THEN events' = Append(events, x) /\ UNCHANGED <<apiPc, reason>>
              ELSE /\ events' = IF x = "text" THEN Append(events, "content_block_delta")
                                ELSE events
                   /\ reason' = IF x = "stop" THEN "end_turn"
                                ELSE IF x = "length" THEN "max_tokens" ELSE reason
                   /\ apiPc' = IF x = "[DONE]" THEN "close" ELSE apiPc
    BY <1>8 DEF Relaying!Line
  <2>2. apiPc = "stream" /\ UNCHANGED <<api, streaming, status, ended>>
    BY <1>8 DEF Relaying!Line
  <2>3. apiPc' \in {"stream", "close"} /\ status = 200 /\ streaming /\ ended = "" /\ Told
        /\ lines \in Seq(Relaying!Lines) /\ api \in {"openai", "anthropic"}
    BY <2>1, <2>2 DEF RelayInv
  <2>4. lines' \in Seq(Relaying!Lines)
    <3> HIDE DEF RelayInv
    <3>1. \A ls \in Seq(Relaying!Lines), y \in Relaying!Lines : Append(ls, y) \in Seq(Relaying!Lines)
      OBVIOUS
    <3> QED
      BY <2>1, <2>3, <3>1
  <2>5. events = BodyOf(lines)
    BY <1>d, <2>2, <2>3
  <2>6. events' = BodyOf(lines')
    BY <2>1, <2>3, <2>5, BodyStep
  <2>7. EndingOf' = <<>>
    BY <2>2, <2>3 DEF EndingOf
  <2>8. BodyOf(lines') \o <<>> = BodyOf(lines')
    BY <2>4, BodyType
  <2>9. api = "anthropic" => reason' = IF Cut(lines') THEN "max_tokens" ELSE "end_turn"
    BY <2>1, <2>3, CutStep DEF Told
  <2>10. Told'
    BY <1>c, <2>2, <2>6, <2>7, <2>8, <2>9 DEF Told
  <2> QED
    BY <2>2, <2>3, <2>4, <2>10 DEF RelayInv
<1>9. CASE Relaying!Leaves
  BY <1>9, <1>a DEF Relaying!Leaves, RelayInv
<1>10. CASE UNCHANGED Relaying!vars
  BY <1>10, <1>a DEF Relaying!vars, RelayInv
<1> QED
  BY <1>1, <1>2, <1>3, <1>4, <1>5, <1>6, <1>7, <1>8, <1>9, <1>10 DEF Relaying!Next

\* What a client of either API is streamed is the text the upstream sent, no more and no
\* less, between one opening and one ending, and the ending tells how the answer went
\* (_anthropic_stream, proxy).
THEOREM StreamsTellAll == Relaying!Spec => []StreamTellsAll
<1>1. Relaying!Init => RelayInv
  <2>1. <<>> \in Seq(Relaying!Lines)
    OBVIOUS
  <2> QED
    BY <2>1, RelayAssumption DEF Relaying!Init, RelayInv
<1>2. RelayInv => StreamTellsAll
  BY ToldMeans DEF RelayInv
<1> QED
  BY <1>1, <1>2, RelayStep, PTL DEF Relaying!Spec

-----------------------------------------------------------------------------
(* The login limiter. *)

LoginPcs == {"idle", "incr", "expire", "decide", "local"}

\* The attempts made now, those made at time t or later, and those of the last window.
Today == {i \in DOMAIN asked : asked[i] = now}
Since(t) == {i \in DOMAIN asked : asked[i] >= t}
Lately == {i \in DOMAIN asked : now - asked[i] < Window}

\* The attempts that have yet to be counted.
Uncounted == {p \in Processes : loginPc[p] = "incr"}

LoginType ==
    /\ now \in Nat /\ now <= MaxTime + 1 /\ count \in Nat /\ expires \in Nat
    /\ loginPc \in [Processes -> LoginPcs]
    /\ mine \in [Processes -> Nat] /\ nth \in [Processes -> Nat]
    /\ local \in [Processes -> SUBSET Nat]
    /\ asked \in Seq(Nat) /\ \A i \in DOMAIN asked : asked[i] <= now
    /\ refused \in Processes \cup {None}

\* The counter never runs ahead of the attempts: a key with an expiry counts attempts
\* of its window, and one whose expiry is about to be set, attempts of this moment.
\* A process keeps attempts that were made, not the one it decides on.
LoginInv ==
    /\ Cardinality(Uncounted) <= Cardinality(Today)
    /\ \A p \in Processes : loginPc[p] = "expire" =>
         count > 0 /\ count + Cardinality(Uncounted) <= Cardinality(Today)
    /\ expires # Login!Never =>
         /\ now < expires /\ expires <= now + Window
         /\ count + Cardinality(Uncounted) <= Cardinality(Since(expires - Window))
    /\ \A p \in Processes : loginPc[p] \in {"expire", "decide"} => nth[p] <= count
    /\ \A p \in Processes : local[p] \subseteq DOMAIN asked
    /\ \A p \in Processes : loginPc[p] # "idle" =>
         mine[p] \in DOMAIN asked \ local[p] /\ asked[mine[p]] = now
    /\ refused # None => count > Limit \/ Cardinality(Lately) > Limit

LEMMA NeverType == Login!Never \in Nat /\ \A t \in Nat : t <= MaxTime + 1 => t + Window < Login!Never
BY RoutingAssumption, LoginAssumption DEF Login!Never

LEMMA SetsOfAttempts ==
    ASSUME LoginType
    PROVE  /\ IsFiniteSet(Today) /\ IsFiniteSet(Lately) /\ IsFiniteSet(Uncounted)
           /\ \A t \in Int : IsFiniteSet(Since(t))
           /\ Cardinality(Today) \in Nat /\ Cardinality(Lately) \in Nat
           /\ Cardinality(Uncounted) \in Nat /\ \A t \in Int : Cardinality(Since(t)) \in Nat
<1>1. IsFiniteSet(DOMAIN asked)
  BY FS_Interval DEF LoginType
<1>2. Today \subseteq DOMAIN asked /\ Lately \subseteq DOMAIN asked /\ Uncounted \subseteq Processes
  BY DEF Today, Lately, Uncounted
<1>3. \A t \in Int : Since(t) \subseteq DOMAIN asked
  BY DEF Since
<1>4. IsFiniteSet(Today) /\ IsFiniteSet(Lately) /\ IsFiniteSet(Uncounted)
  BY <1>1, <1>2, LoginAssumption, FS_Subset
<1>5. \A t \in Int : IsFiniteSet(Since(t))
  BY <1>1, <1>3, FS_Subset
<1> QED
  BY <1>4, <1>5, FS_CardinalityType

LEMMA SameLogin == \A S : Login!Cardinality(S) = Cardinality(S)
BY DEF Login!Cardinality, Cardinality

\* The invariant says what a refusal had for its cause.
LEMMA RefusalIsFair == LoginType /\ LoginInv => FallbackIsFair
<1> SUFFICES ASSUME LoginType, LoginInv, refused # None, count > 0 => expires # Login!Never
             PROVE  Cardinality(Lately) > Limit
  BY SameLogin DEF FallbackIsFair, Login!FallbackIsFair, Login!Recent, Lately
<1>1. CASE Cardinality(Lately) > Limit
  BY <1>1
<1>2. CASE count > Limit
  <2>1. /\ expires # Login!Never /\ now < expires /\ Limit \in Nat
        /\ now \in Nat /\ expires \in Nat /\ Window \in Nat /\ count \in Nat
        /\ Cardinality(Uncounted) \in Nat
    BY <1>2, LoginAssumption, SetsOfAttempts DEF LoginType, LoginInv
  <2>2. count + Cardinality(Uncounted) <= Cardinality(Since(expires - Window))
    BY <2>1 DEF LoginInv
  <2>3. Since(expires - Window) \subseteq Lately
    <3> SUFFICES ASSUME NEW i \in DOMAIN asked, asked[i] >= expires - Window
                 PROVE  now - asked[i] < Window
      BY DEF Since, Lately
    <3>1. asked[i] \in Nat
      BY DEF LoginType
    <3> QED
      BY <2>1, <3>1
  <2>4. Cardinality(Since(expires - Window)) <= Cardinality(Lately)
    BY <2>3, SetsOfAttempts, FS_Subset
  <2>5. Cardinality(Lately) \in Nat /\ Cardinality(Since(expires - Window)) \in Nat
    BY <2>1, SetsOfAttempts
  <2> QED
    BY <1>2, <2>1, <2>2, <2>4, <2>5
<1> QED
  BY <1>1, <1>2 DEF LoginInv

LEMMA LoginTypeStep == LoginType /\ LoginInv /\ [Login!Next]_(Login!vars) => LoginType'
<1> SUFFICES ASSUME LoginType, LoginInv, [Login!Next]_(Login!vars) PROVE LoginType'
  OBVIOUS
<1> USE LoginAssumption, RoutingAssumption, NeverType DEF LoginType, LoginPcs
<1>1. CASE Login!Tick
  BY <1>1 DEF Login!Tick
<1>2. ASSUME NEW p \in Processes, Login!Attempt(p) PROVE LoginType'
  <2>1. asked' = Append(asked, now) /\ mine' = [mine EXCEPT ![p] = Len(asked')]
    BY <1>2 DEF Login!Attempt
  <2>2. asked' \in Seq(Nat) /\ Len(asked') \in Nat /\ \A i \in DOMAIN asked' : asked'[i] <= now
    BY <2>1
  <2>3. mine' \in [Processes -> Nat]
    BY <2>1, <2>2
  <2> QED
    BY <1>2, <2>2, <2>3 DEF Login!Attempt
<1>3. ASSUME NEW p \in Processes, Login!Incr(p) PROVE LoginType'
  BY <1>3 DEF Login!Incr
<1>4. ASSUME NEW p \in Processes, Login!Expire(p) PROVE LoginType'
  BY <1>4 DEF Login!Expire
<1>5. ASSUME NEW p \in Processes, Login!Decide(p) PROVE LoginType'
  BY <1>5 DEF Login!Decide
<1>6. ASSUME NEW p \in Processes, Login!Hiccup(p) PROVE LoginType'
  BY <1>6 DEF Login!Hiccup
<1>7. ASSUME NEW p \in Processes, Login!Restart(p) PROVE LoginType'
  BY <1>7 DEF Login!Restart
<1>8. ASSUME NEW p \in Processes, Login!Local(p) PROVE LoginType'
  <2>1. PICK ids \in SUBSET Nat : local' = [local EXCEPT ![p] = ids]
    <3> DEFINE recent == {i \in local[p] : now - asked[i] < Window}
    <3>1. recent \in SUBSET Nat /\ recent \cup {mine[p]} \in SUBSET Nat
      OBVIOUS
    <3>2. local' = [local EXCEPT ![p] = recent] \/ local' = [local EXCEPT ![p] = recent \cup {mine[p]}]
      BY <1>8 DEF Login!Local
    <3> QED
      BY <3>1, <3>2
  <2>2. refused' \in {p, None}
    BY <1>8 DEF Login!Local
  <2> QED
    BY <1>8, <2>1, <2>2 DEF Login!Local
<1>9. CASE UNCHANGED Login!vars
  BY <1>9 DEF Login!vars
<1> QED
  BY <1>1, <1>2, <1>3, <1>4, <1>5, <1>6, <1>7, <1>8, <1>9 DEF Login!Next

LEMMA LoginStep == LoginType /\ LoginInv /\ [Login!Next]_(Login!vars) => LoginInv'
<1> SUFFICES ASSUME LoginType, LoginInv, [Login!Next]_(Login!vars) PROVE LoginInv'
  OBVIOUS
<1>a. /\ now \in Nat /\ now <= MaxTime + 1 /\ count \in Nat /\ expires \in Nat
      /\ loginPc \in [Processes -> LoginPcs]
      /\ mine \in [Processes -> Nat] /\ nth \in [Processes -> Nat]
      /\ local \in [Processes -> SUBSET Nat] /\ asked \in Seq(Nat)
      /\ \A i \in DOMAIN asked : asked[i] \in Nat /\ asked[i] <= now
      /\ Limit \in Nat /\ Window \in Nat /\ Window > 0 /\ MaxTime \in Nat /\ None \notin Processes
      /\ Login!Never \in Nat
  BY LoginAssumption, RoutingAssumption, NeverType DEF LoginType
<1>b. /\ IsFiniteSet(Today) /\ IsFiniteSet(Lately) /\ IsFiniteSet(Uncounted)
      /\ \A t \in Int : IsFiniteSet(Since(t)) /\ Cardinality(Since(t)) \in Nat
      /\ Cardinality(Today) \in Nat /\ Cardinality(Lately) \in Nat
      /\ Cardinality(Uncounted) \in Nat
  BY SetsOfAttempts
<1>c. UNCHANGED <<asked, now>> =>
        Today' = Today /\ Lately' = Lately /\ \A t : Since(t)' = Since(t)
  BY DEF Today, Lately, Since
<1>d. ASSUME NEW p \in Processes, NEW l \in LoginPcs \ {"incr"}, loginPc[p] = "incr",
             loginPc' = [loginPc EXCEPT ![p] = l]
      PROVE  Cardinality(Uncounted') + 1 = Cardinality(Uncounted) /\ Cardinality(Uncounted') \in Nat
  <2>1. Uncounted' = Uncounted \ {p} /\ p \in Uncounted
    BY <1>a, <1>d DEF Uncounted
  <2>2. Cardinality(Uncounted') = Cardinality(Uncounted) - 1 /\ IsFiniteSet(Uncounted')
    BY <1>b, <2>1, FS_RemoveElement
  <2> QED
    BY <1>b, <2>2, FS_CardinalityType
<1>e. ASSUME NEW p \in Processes, NEW l \in LoginPcs \ {"incr"}, loginPc[p] # "incr",
             loginPc' = [loginPc EXCEPT ![p] = l]
      PROVE  Uncounted' = Uncounted
  BY <1>a, <1>e DEF Uncounted
<1>g. Cardinality(Since(expires - Window)) \in Nat
  <2>1. expires - Window \in Int
    BY <1>a
  <2> QED
    BY <1>b, <2>1
<1>1. CASE Login!Tick
  <2>1. /\ \A p \in Processes : loginPc[p] = "idle"
        /\ now' = now + 1 /\ refused' = None
        /\ UNCHANGED <<local, loginPc, nth, mine, asked>>
        /\ IF expires <= now' THEN count' = 0 /\ expires' = Login!Never
           ELSE UNCHANGED <<count, expires>>
    BY <1>1 DEF Login!Tick
  <2>2. Uncounted' = {}
    BY <2>1 DEF Uncounted
  <2>3. Cardinality(Uncounted') = 0
    BY <2>2, FS_EmptySet
  <2>4. Cardinality(Today') \in Nat
    <3>1. Today' \subseteq DOMAIN asked /\ IsFiniteSet(DOMAIN asked)
      BY <1>a, <2>1, FS_Interval DEF Today
    <3> QED
      BY <3>1, FS_Subset, FS_CardinalityType
  <2>5. expires' # Login!Never =>
         /\ now' < expires' /\ expires' <= now' + Window
         /\ count' + Cardinality(Uncounted') <= Cardinality(Since(expires - Window))
    <3> SUFFICES ASSUME expires' # Login!Never
                 PROVE  /\ now' < expires' /\ expires' <= now' + Window
                        /\ count' + Cardinality(Uncounted') <= Cardinality(Since(expires - Window))
      OBVIOUS
    <3>1. /\ ~(expires <= now') /\ count' = count /\ expires' = expires
      BY <2>1
    <3>2. /\ now < expires /\ expires <= now + Window
          /\ count + Cardinality(Uncounted) <= Cardinality(Since(expires - Window))
      BY <3>1 DEF LoginInv
    <3>3. expires - Window \in Int
      BY <1>a
    <3>4. Cardinality(Since(expires - Window)) \in Nat
      BY <1>b, <3>3
    <3>5. count <= Cardinality(Since(expires - Window))
      BY <1>a, <1>b, <3>2, <3>4
    <3>6. now' < expires' /\ expires' <= now' + Window
      BY <1>a, <2>1, <3>1, <3>2
    <3>7. count' + Cardinality(Uncounted') = count
      BY <1>a, <2>3, <3>1
    <3> QED
      BY <3>5, <3>6, <3>7
  <2>6. \A t : Since(t)' = Since(t)
    BY <2>1 DEF Since
  <2>7. expires' # Login!Never => expires' = expires
    BY <2>1
  <2>8. expires' # Login!Never => Cardinality(Since(expires - Window))' = Cardinality(Since(expires - Window))
    BY <2>1, <2>7 DEF Since
  <2> QED
    BY <2>1, <2>3, <2>4, <2>5, <2>8 DEF LoginInv
<1>2. ASSUME NEW p \in Processes, Login!Attempt(p) PROVE LoginInv'
  <2>1. /\ loginPc[p] = "idle" /\ asked' = Append(asked, now)
        /\ mine' = [mine EXCEPT ![p] = Len(asked')]
        /\ loginPc' = [loginPc EXCEPT ![p] = IF shared THEN "incr" ELSE "local"]
        /\ refused' = None /\ nth' = [nth EXCEPT ![p] = 0]
        /\ UNCHANGED <<now, count, expires, local>>
    BY <1>2 DEF Login!Attempt
  <2> DEFINE k == Len(asked) + 1
  <2>2. /\ DOMAIN asked' = DOMAIN asked \cup {k} /\ Len(asked') = k /\ k \notin DOMAIN asked
        /\ \A i \in DOMAIN asked : asked'[i] = asked[i]
        /\ asked'[k] = now /\ k \in Nat
    BY <1>a, <2>1
  <2> HIDE DEF k
  <2>3. Cardinality(Today') = Cardinality(Today) + 1
    <3>1. Today' = Today \cup {k} /\ k \notin Today
      BY <2>1, <2>2 DEF Today
    <3> QED
      BY <1>b, <3>1, FS_AddElement
  <2>4. ASSUME NEW t \in Int, t <= now
        PROVE  Cardinality(Since(t)') = Cardinality(Since(t)) + 1
    <3>1. Since(t)' = Since(t) \cup {k} /\ k \notin Since(t)
      BY <1>a, <2>1, <2>2, <2>4 DEF Since
    <3> QED
      BY <1>b, <3>1, FS_AddElement
  <2>5. /\ Cardinality(Uncounted') \in Nat
        /\ Cardinality(Uncounted') <= Cardinality(Uncounted) + 1
    <3>1. Uncounted' = Uncounted \cup {p} \/ Uncounted' = Uncounted
      BY <1>a, <2>1 DEF Uncounted
    <3>2. p \notin Uncounted
      BY <2>1 DEF Uncounted
    <3>3. Cardinality(Uncounted \cup {p}) = Cardinality(Uncounted) + 1
      BY <1>b, <3>2, FS_AddElement
    <3>4. CASE Uncounted' = Uncounted \cup {p}
      BY <1>b, <3>3, <3>4
    <3>5. CASE Uncounted' = Uncounted
      BY <1>b, <3>5
    <3> QED
      BY <3>1, <3>4, <3>5
  <2>6. \A q \in Processes : q # p => loginPc'[q] = loginPc[q] /\ mine'[q] = mine[q] /\ nth'[q] = nth[q]
    BY <1>a, <2>1
  <2>7. mine'[p] = k /\ loginPc'[p] \in {"incr", "local"}
    BY <1>a, <2>1, <2>2
  <2>8. \A q \in Processes : loginPc'[q] = "expire" =>
         count' > 0 /\ count' + Cardinality(Uncounted') <= Cardinality(Today')
    <3> SUFFICES ASSUME NEW q \in Processes, loginPc'[q] = "expire"
                 PROVE  count' > 0 /\ count' + Cardinality(Uncounted') <= Cardinality(Today')
      OBVIOUS
    <3>1. count > 0 /\ count + Cardinality(Uncounted) <= Cardinality(Today)
      BY <2>6, <2>7 DEF LoginInv
    <3> QED
      BY <1>a, <1>b, <2>1, <2>3, <2>5, <3>1, SMTT(30)
  <2>9. expires' # Login!Never =>
         /\ now' < expires' /\ expires' <= now' + Window
         /\ count' + Cardinality(Uncounted') <= Cardinality(Since(expires - Window))'
    <3>1. CASE expires = Login!Never
      BY <2>1, <3>1
    <3>2. CASE expires # Login!Never
      <4>1. /\ now < expires /\ expires <= now + Window
            /\ count + Cardinality(Uncounted) <= Cardinality(Since(expires - Window))
        BY <3>2 DEF LoginInv
      <4>2. expires - Window \in Int /\ expires - Window <= now
        BY <1>a, <4>1
      <4>3. Cardinality(Since(expires - Window)') = Cardinality(Since(expires - Window)) + 1
        <5>1. PICK t \in Int : t = expires - Window
          BY <4>2
        <5>2. Since(expires - Window)' = Since(t)'
          BY <2>1, <5>1 DEF Since
        <5> QED
          BY <2>4, <4>2, <5>1, <5>2
      <4>4. Cardinality(Since(expires - Window)) \in Nat
        BY <1>b, <4>2
      <4>5. count + Cardinality(Uncounted') <= Cardinality(Since(expires - Window)')
        BY <1>a, <1>b, <2>5, <4>1, <4>3, <4>4, SMTT(30)
      <4> QED
        BY <2>1, <4>1, <4>5
    <3> QED
      BY <3>1, <3>2
  <2>10. /\ \A q \in Processes : loginPc'[q] \in {"expire", "decide"} => nth'[q] <= count'
         /\ \A q \in Processes : local'[q] \subseteq DOMAIN asked'
         /\ \A q \in Processes : loginPc'[q] # "idle" =>
              mine'[q] \in DOMAIN asked' \ local'[q] /\ asked'[mine'[q]] = now'
    <3>1. k \notin local[p]
      BY <2>2 DEF LoginInv
    <3> QED
      BY <2>1, <2>2, <2>6, <2>7, <3>1 DEF LoginInv
  <2>11. Cardinality(Uncounted') <= Cardinality(Today')
    BY <1>b, <2>3, <2>5 DEF LoginInv
  <2> QED
    BY <2>1, <2>8, <2>9, <2>10, <2>11 DEF LoginInv
<1>f. ASSUME NEW p \in Processes, NEW l \in LoginPcs \ {"incr"}, NEW x \in Nat,
             loginPc[p] # "idle", loginPc' = [loginPc EXCEPT ![p] = l],
             UNCHANGED <<now, asked, local, mine>>,
             nth' = [nth EXCEPT ![p] = x], l \in {"expire", "decide"} => x <= count',
             count' = count \/ (count' = count + 1 /\ loginPc[p] = "incr"),
             l = "expire" => loginPc[p] = "incr" /\ count = 0 /\ count' = 1,
             expires' = expires \/ (loginPc[p] = "expire" /\ expires' = now + Window),
             refused' \in {refused, None} \/ count > Limit
      PROVE  LoginInv'
  <2>1. /\ Cardinality(Uncounted') \in Nat /\ Cardinality(Uncounted') <= Cardinality(Uncounted)
        /\ count' + Cardinality(Uncounted') <= count + Cardinality(Uncounted)
        /\ count' \in Nat /\ count <= count'
    <3>1. CASE loginPc[p] = "incr"
      <4>1. Cardinality(Uncounted') + 1 = Cardinality(Uncounted) /\ Cardinality(Uncounted') \in Nat
        BY <1>d, <1>f, <3>1
      <4> QED
        <5>1. count' = count \/ count' = count + 1
          BY <1>f
        <5>2. count \in Nat /\ Cardinality(Uncounted) \in Nat
          BY <1>a, <1>b
        <5> QED
          BY <4>1, <5>1, <5>2
    <3>2. CASE loginPc[p] # "incr"
      <4>1. Uncounted' = Uncounted
        BY <1>e, <1>f, <3>2
      <4> QED
        <5>1. count' = count
          BY <1>f, <3>2
        <5>2. count \in Nat /\ count' \in Nat /\ Cardinality(Uncounted) \in Nat
          BY <1>a, <1>b, <5>1
        <5>3. Cardinality(Uncounted') = Cardinality(Uncounted)
          BY <4>1
        <5> QED
          BY <5>1, <5>2, <5>3
    <3> QED
      BY <3>1, <3>2
  <2>2. Today' = Today /\ Lately' = Lately /\ \A t : Since(t)' = Since(t)
    BY <1>c, <1>f
  <2>3. /\ \A q \in Processes : q # p => loginPc'[q] = loginPc[q] /\ nth'[q] = nth[q]
        /\ loginPc'[p] = l /\ nth'[p] = x
    BY <1>a, <1>f
  <2>4. Cardinality(Uncounted') <= Cardinality(Today')
    BY <1>b, <2>1, <2>2 DEF LoginInv
  <2>5. ASSUME NEW q \in Processes, loginPc'[q] = "expire"
        PROVE  count' > 0 /\ count' + Cardinality(Uncounted') <= Cardinality(Today')
    <3>1. CASE q = p
      <4>1. count = 0 /\ count' = 1
        BY <1>f, <2>3, <2>5, <3>1
      <4>2. Cardinality(Uncounted) <= Cardinality(Today)
        BY DEF LoginInv
      <4>3. Cardinality(Uncounted') + 1 = Cardinality(Uncounted)
        BY <1>d, <1>f, <3>1, <2>5, <2>3
      <4>4. Cardinality(Today') = Cardinality(Today)
        BY <2>2
      <4>5. Cardinality(Today) \in Nat /\ Cardinality(Uncounted') \in Nat
        BY <1>b, <2>1
      <4>6. 1 + Cardinality(Uncounted') <= Cardinality(Today)
        BY <4>2, <4>3, <4>5
      <4> QED
        BY <4>1, <4>4, <4>6
    <3>2. CASE q # p
      <4>1. count > 0 /\ count + Cardinality(Uncounted) <= Cardinality(Today)
        BY <2>3, <2>5, <3>2 DEF LoginInv
      <4>2. Cardinality(Today') = Cardinality(Today)
        BY <2>2
      <4>3. /\ count \in Nat /\ count' \in Nat /\ count <= count'
            /\ Cardinality(Today) \in Nat
            /\ Cardinality(Uncounted) \in Nat /\ Cardinality(Uncounted') \in Nat
        BY <1>a, <1>b, <2>1
      <4>4. count' > 0
        BY <4>1, <4>3
      <4>5. count' + Cardinality(Uncounted') <= Cardinality(Today)
        BY <2>1, <4>1, <4>3
      <4> QED
        BY <4>2, <4>4, <4>5
    <3> QED
      BY <3>1, <3>2
  <2>6. ASSUME expires' # Login!Never
        PROVE  /\ now' < expires' /\ expires' <= now' + Window
               /\ count' + Cardinality(Uncounted') <= Cardinality(Since(expires - Window))'
    <3>1. CASE expires' = expires
      <4>1. /\ now < expires /\ expires <= now + Window
            /\ count + Cardinality(Uncounted) <= Cardinality(Since(expires - Window))
        BY <2>6, <3>1 DEF LoginInv
      <4>2. Cardinality(Since(expires - Window))' = Cardinality(Since(expires - Window))
        BY <1>f, <3>1 DEF Since
      <4>3. Cardinality(Since(expires - Window)) \in Nat
        BY <1>g
      <4>4. now' < expires' /\ expires' <= now' + Window
        BY <1>f, <3>1, <4>1
      <4>5. count \in Nat /\ Cardinality(Uncounted) \in Nat
        BY <1>a, <1>b
      <4>6. count' + Cardinality(Uncounted') <= Cardinality(Since(expires - Window))
        BY <2>1, <4>1, <4>3, <4>5
      <4> QED
        BY <4>2, <4>4, <4>6
    <3>2. CASE loginPc[p] = "expire" /\ expires' = now + Window
      <4>1. count + Cardinality(Uncounted) <= Cardinality(Today)
        BY <3>2 DEF LoginInv
      <4>2. expires' - Window = now
        BY <1>a, <3>2
      <4>3. Since(expires - Window)' = Today
        BY <1>a, <1>f, <4>2 DEF Since, Today
      <4> QED
        BY <1>a, <1>b, <1>f, <2>1, <3>2, <4>1, <4>3, SMTT(30)
    <3> QED
      BY <1>f, <3>1, <3>2
  <2>7. \A q \in Processes : loginPc'[q] \in {"expire", "decide"} => nth'[q] <= count'
    <3> SUFFICES ASSUME NEW q \in Processes, loginPc'[q] \in {"expire", "decide"}
                 PROVE  nth'[q] <= count'
      OBVIOUS
    <3>1. CASE q = p
      BY <1>f, <2>3, <3>1
    <3>2. CASE q # p
      <4>1. nth[q] <= count /\ nth[q] \in Nat
        BY <1>a, <2>3, <3>2 DEF LoginInv
      <4> QED
        BY <1>a, <2>1, <2>3, <3>2, <4>1
    <3> QED
      BY <3>1, <3>2
  <2>8. /\ \A q \in Processes : local'[q] \subseteq DOMAIN asked'
        /\ \A q \in Processes : loginPc'[q] # "idle" =>
              mine'[q] \in DOMAIN asked' \ local'[q] /\ asked'[mine'[q]] = now'
    BY <1>f, <2>3 DEF LoginInv
  <2>9. refused' # None => count' > Limit \/ Cardinality(Lately') > Limit
    <3>1. CASE count > Limit
      BY <1>a, <2>1, <3>1
    <3>2. CASE refused' \in {refused, None} /\ ~(count > Limit)
      BY <2>2, <3>2 DEF LoginInv
    <3> QED
      BY <1>f, <3>1, <3>2
  <2> QED
    BY <2>4, <2>5, <2>6, <2>7, <2>8, <2>9 DEF LoginInv
<1>3. ASSUME NEW p \in Processes, Login!Incr(p) PROVE LoginInv'
  <2>1. /\ loginPc[p] = "incr" /\ count' = count + 1
        /\ nth' = [nth EXCEPT ![p] = count + 1]
        /\ loginPc' = [loginPc EXCEPT ![p] = IF count' = 1 THEN "expire" ELSE "decide"]
        /\ UNCHANGED <<now, expires, local, mine, asked, refused>>
    BY <1>3 DEF Login!Incr
  <2>2. PICK l \in {"expire", "decide"} : l = IF count' = 1 THEN "expire" ELSE "decide"
    OBVIOUS
  <2>3. l \in LoginPcs \ {"incr"} /\ count + 1 \in Nat /\ (l = "expire" => count = 0 /\ count' = 1)
    BY <1>a, <2>1, <2>2 DEF LoginPcs
  <2>4. loginPc' = [loginPc EXCEPT ![p] = l] /\ count + 1 <= count'
    BY <1>a, <2>1, <2>2
  <2> QED
    BY <1>f, <2>1, <2>3, <2>4
<1>4. ASSUME NEW p \in Processes, Login!Expire(p) PROVE LoginInv'
  <2>1. /\ loginPc[p] = "expire"
        /\ expires' = expires \/ expires' = now + Window
        /\ loginPc' = [loginPc EXCEPT ![p] = "decide"]
        /\ UNCHANGED <<now, count, local, nth, mine, asked, refused>>
    BY <1>4 DEF Login!Expire
  <2>2. /\ "decide" \in LoginPcs \ {"incr"} /\ nth[p] \in Nat
        /\ nth' = [nth EXCEPT ![p] = nth[p]] /\ nth[p] <= count'
    BY <1>a, <2>1 DEF LoginPcs, LoginInv
  <2> QED
    BY <1>a, <1>f, <2>1, <2>2
<1>5. ASSUME NEW p \in Processes, Login!Decide(p) PROVE LoginInv'
  <2>1. /\ loginPc[p] = "decide" /\ refused' = IF nth[p] > Limit THEN p ELSE None
        /\ loginPc' = [loginPc EXCEPT ![p] = "idle"]
        /\ UNCHANGED <<now, count, expires, local, nth, mine, asked>>
    BY <1>5 DEF Login!Decide
  <2>2. /\ "idle" \in LoginPcs \ {"incr"} /\ nth[p] \in Nat
        /\ nth' = [nth EXCEPT ![p] = nth[p]] /\ nth[p] <= count
    BY <1>a, <2>1 DEF LoginPcs, LoginInv
  <2>3. refused' \in {refused, None} \/ count > Limit
    BY <1>a, <2>1, <2>2
  <2> QED
    BY <1>a, <1>f, <2>1, <2>2, <2>3
<1>6. ASSUME NEW p \in Processes, Login!Hiccup(p) PROVE LoginInv'
  <2>1. /\ loginPc[p] \in {"incr", "expire"}
        /\ count' = count \/ (count' = count + 1 /\ loginPc[p] = "incr")
        /\ expires' = expires \/ (loginPc[p] = "expire" /\ expires' = now + Window)
        /\ loginPc' = [loginPc EXCEPT ![p] = "local"]
        /\ UNCHANGED <<now, local, nth, mine, asked, refused>>
    BY <1>6 DEF Login!Hiccup
  <2>2. /\ "local" \in LoginPcs \ {"incr"} /\ nth[p] \in Nat
        /\ nth' = [nth EXCEPT ![p] = nth[p]]
    BY <1>a, <2>1 DEF LoginPcs
  <2> QED
    BY <1>f, <2>1, <2>2
<1>7. ASSUME NEW p \in Processes, Login!Restart(p) PROVE LoginInv'
  <2>1. /\ loginPc' = [loginPc EXCEPT ![p] = "idle"]
        /\ local' = [local EXCEPT ![p] = {}]
        /\ UNCHANGED <<now, count, expires, nth, mine, asked, refused>>
    BY <1>7 DEF Login!Restart
  <2>2. Cardinality(Uncounted') \in Nat /\ Cardinality(Uncounted') <= Cardinality(Uncounted)
    <3>1. Uncounted' \subseteq Uncounted
      BY <1>a, <2>1 DEF Uncounted
    <3> QED
      BY <1>b, <3>1, FS_Subset, FS_CardinalityType
  <2>3. Today' = Today /\ Lately' = Lately /\ Since(expires - Window)' = Since(expires - Window)
    BY <2>1 DEF Today, Lately, Since
  <2>4. /\ \A q \in Processes : loginPc'[q] = "idle" \/ loginPc'[q] = loginPc[q]
        /\ \A q \in Processes : local'[q] \subseteq local[q]
    BY <1>a, <2>1
  <2>5. /\ \A q \in Processes : loginPc'[q] = "expire" =>
             count > 0 /\ count + Cardinality(Uncounted') <= Cardinality(Today)
        /\ Cardinality(Uncounted') <= Cardinality(Today)
    <3>1. Cardinality(Uncounted) <= Cardinality(Today)
      BY DEF LoginInv
    <3>2. ASSUME NEW q \in Processes, loginPc'[q] = "expire"
          PROVE  count > 0 /\ count + Cardinality(Uncounted') <= Cardinality(Today)
      <4>1. count > 0 /\ count + Cardinality(Uncounted) <= Cardinality(Today)
        BY <2>4, <3>2 DEF LoginInv
      <4> QED
        BY <1>a, <1>b, <2>2, <4>1
    <3> QED
      BY <1>b, <2>2, <3>1, <3>2
  <2>6. expires # Login!Never =>
          /\ now < expires /\ expires <= now + Window
          /\ count + Cardinality(Uncounted') <= Cardinality(Since(expires - Window))
    <3>1. Cardinality(Since(expires - Window)) \in Nat
      BY <1>g
    <3> QED
      BY <1>a, <1>b, <2>2, <3>1 DEF LoginInv
  <2>7. /\ \A q \in Processes : local'[q] \subseteq DOMAIN asked
        /\ \A q \in Processes : loginPc'[q] # "idle" =>
              mine[q] \in DOMAIN asked \ local'[q] /\ asked[mine[q]] = now
        /\ \A q \in Processes : loginPc'[q] \in {"expire", "decide"} => nth[q] <= count
    BY <2>4 DEF LoginInv
  <2> QED
    BY <2>1, <2>3, <2>5, <2>6, <2>7 DEF LoginInv
<1>8. ASSUME NEW p \in Processes, Login!Local(p) PROVE LoginInv'
  <2> DEFINE recent == {i \in local[p] : now - asked[i] < Window}
  <2>1. /\ loginPc[p] = "local" /\ loginPc' = [loginPc EXCEPT ![p] = "idle"]
        /\ UNCHANGED <<now, count, expires, nth, mine, asked>>
        /\ \/ Login!Cardinality(recent) >= Limit /\ local' = [local EXCEPT ![p] = recent]
           \/ local' = [local EXCEPT ![p] = recent \cup {mine[p]}] /\ refused' = None
    BY <1>8 DEF Login!Local
  <2>2. /\ mine[p] \in DOMAIN asked \ local[p] /\ asked[mine[p]] = now
        /\ local[p] \subseteq DOMAIN asked
    BY <2>1 DEF LoginInv
  <2>3. Login!Cardinality(recent) >= Limit => Cardinality(Lately) > Limit
    <3>1. recent \cup {mine[p]} \subseteq Lately /\ mine[p] \notin recent
      BY <1>a, <2>2 DEF Lately
    <3>2. IsFiniteSet(recent)
      BY <1>b, <3>1, FS_Subset
    <3>3. /\ Cardinality(recent \cup {mine[p]}) = Cardinality(recent) + 1
          /\ Cardinality(recent \cup {mine[p]}) <= Cardinality(Lately)
          /\ Cardinality(recent) \in Nat
      BY <1>b, <3>1, <3>2, FS_AddElement, FS_Subset, FS_CardinalityType
    <3> QED
      BY <1>a, <1>b, <3>3, SameLogin
  <2>4. Uncounted' = Uncounted
    BY <1>a, <2>1 DEF Uncounted
  <2>5. Today' = Today /\ Lately' = Lately /\ Since(expires - Window)' = Since(expires - Window)
    BY <2>1 DEF Today, Lately, Since
  <2>6. /\ \A q \in Processes : loginPc'[q] = "idle" \/ (loginPc'[q] = loginPc[q] /\ q # p)
        /\ \A q \in Processes : q # p => local'[q] = local[q]
        /\ local'[p] \subseteq DOMAIN asked
    BY <1>a, <2>1, <2>2
  <2>7. /\ \A q \in Processes : local'[q] \subseteq DOMAIN asked
        /\ \A q \in Processes : loginPc'[q] # "idle" =>
              mine[q] \in DOMAIN asked \ local'[q] /\ asked[mine[q]] = now
        /\ \A q \in Processes : loginPc'[q] \in {"expire", "decide"} => nth[q] <= count
        /\ \A q \in Processes : loginPc'[q] = "expire" =>
              count > 0 /\ count + Cardinality(Uncounted) <= Cardinality(Today)
    BY <2>6 DEF LoginInv
  <2>8. refused' # None => Cardinality(Lately) > Limit
    BY <2>1, <2>3
  <2> HIDE DEF recent
  <2> QED
    BY <2>1, <2>4, <2>5, <2>7, <2>8 DEF LoginInv
<1>9. CASE UNCHANGED Login!vars
  BY <1>9 DEF Login!vars, LoginInv, Today, Since, Lately, Uncounted
<1> QED
  BY <1>1, <1>2, <1>3, <1>4, <1>5, <1>6, <1>7, <1>8, <1>9 DEF Login!Next

\* As long as the counter has an expiry, nobody is refused a login without more attempts
\* than the limit in the window, whatever calls failed, fell back on the list of a process
\* or lost it with the process (_check_login_rate, _check_login_rate_local).
THEOREM RefusalsAreFair == Login!Spec => []FallbackIsFair
<1>1. Login!Init => LoginType /\ LoginInv
  <2> SUFFICES ASSUME Login!Init PROVE LoginType /\ LoginInv
    OBVIOUS
  <2>1. Today = {} /\ Uncounted = {}
    BY DEF Login!Init, Today, Uncounted
  <2>2. Cardinality(Today) = 0 /\ Cardinality(Uncounted) = 0
    BY <2>1, FS_EmptySet
  <2>3. LoginType
    BY RoutingAssumption, NeverType DEF Login!Init, LoginType, LoginPcs
  <2>4. LoginInv
    BY <2>2 DEF Login!Init, LoginInv
  <2> QED
    BY <2>3, <2>4
<1>2. LoginType /\ LoginInv => FallbackIsFair
  BY RefusalIsFair
<1> QED
  BY <1>1, <1>2, LoginTypeStep, LoginStep, PTL DEF Login!Spec

-----------------------------------------------------------------------------
(* What a turn is grounded on. *)

LEMMA SameLists ==
    /\ \A S, R : Grounding!Ordered(S, R) = Ordered(S, R)
    /\ \A s, K : Grounding!Picked(s, K) = Picked(s, K)
    /\ \A K, keyOf : Grounding!Sorted(K, keyOf) = Sorted(K, keyOf)
    /\ \A K : Grounding!Less(K) = Less(K)
    /\ \A S : Grounding!Cardinality(S) = Cardinality(S)
    /\ \A s : Grounding!ToSet(s) = {s[i] : i \in DOMAIN s}
<1>1. \A S : Grounding!Cardinality(S) = Cardinality(S)
  BY DEF Grounding!Cardinality, Cardinality
<1>2. \A S, R : Grounding!Ordered(S, R) = Ordered(S, R)
  BY DEF Grounding!Ordered, Ordered, Grounding!Cardinality, Cardinality
<1>3. \A K : Grounding!Less(K) = Less(K)
  BY DEF Grounding!Less, Less
<1>4. \A s, K : Grounding!Picked(s, K) = Picked(s, K)
  BY <1>1, <1>2, <1>3 DEF Grounding!Picked, Picked
<1>5. \A K, keyOf : Grounding!ByKey(K, keyOf) = ByKey(K, keyOf)
  BY DEF Grounding!ByKey, ByKey
<1>6. \A K, keyOf : Grounding!Sorted(K, keyOf) = Sorted(K, keyOf)
  BY <1>2, <1>5 DEF Grounding!Sorted, Sorted
<1>7. \A s : Grounding!ToSet(s) = {s[i] : i \in DOMAIN s}
  BY DEF Grounding!ToSet
<1>. QED
  BY <1>1, <1>2, <1>3, <1>4, <1>6, <1>7

\* Picked takes the elements of s at the positions in K, in their order.
LEMMA PickedTakes ==
    ASSUME NEW T, NEW s \in Seq(T), NEW K \in SUBSET (DOMAIN s)
    PROVE  /\ IsFiniteSet(K) /\ Cardinality(K) \in Nat
           /\ Listing(Ordered(K, Less(K)), K, Less(K))
           /\ Len(Ordered(K, Less(K))) = Cardinality(K)
           /\ Picked(s, K) \in Seq(T) /\ Len(Picked(s, K)) = Cardinality(K)
           /\ \A i \in 1..Cardinality(K) : Picked(s, K)[i] = s[Ordered(K, Less(K))[i]]
<1>1. DOMAIN s = 1..Len(s) /\ Len(s) \in Nat
  OBVIOUS
<1>2. IsFiniteSet(DOMAIN s)
  BY <1>1, FS_Interval
<1>3. IsFiniteSet(K) /\ K \in SUBSET Int
  BY <1>1, <1>2, FS_Subset
<1>4. Orders(Less(K), K)
  BY <1>3, LessOrders
<1>. DEFINE n == Cardinality(K)
            o == Ordered(K, Less(K))
<1>5. n \in Nat /\ Listing(o, K, Less(K)) /\ Len(o) = n
  BY <1>3, <1>4, OrderedLists, FS_CardinalityType
<1>6. Picked(s, K) = [i \in 1..n |-> s[o[i]]]
  BY DEF Picked
<1>. HIDE DEF n, o
<1>7. \A i \in 1..n : s[o[i]] \in T
  BY <1>1, <1>5 DEF Listing
<1>8. Picked(s, K) \in Seq(T) /\ Len(Picked(s, K)) = n
  BY <1>5, <1>6, <1>7
<1>. QED
  BY <1>3, <1>5, <1>6, <1>8 DEF n, o

\* sorted() by a key lists what it sorts.
LEMMA SortedLists ==
    ASSUME NEW K \in SUBSET Int, IsFiniteSet(K), NEW keyOf \in [K -> Int]
    PROVE  Listing(Sorted(K, keyOf), K, ByKey(K, keyOf)) /\ Len(Sorted(K, keyOf)) = Cardinality(K)
BY KeyOrders, OrderedLists DEF Sorted

-----------------------------------------------------------------------------
(* What a turn is grounded on. *)

ContextPcs == Grounding!Reading \cup {"cut", "embed", "rank", "rerank", "web", "compose",
                                      "sent", "failed"}
Passages == (Docs \cup {0}) \X Nat
Numbered == [n : Nat, shows : Passages, marks : SUBSET Nat]
Documents == [Docs -> [own : BOOLEAN, full : BOOLEAN, len : Nat, there : BOOLEAN]]

ContextType ==
    /\ settings \in Settings /\ docs \in Documents /\ contextPc \in ContextPcs
    /\ found \in Seq(Docs \X Nat)
    /\ IF contextPc = "rank"
       THEN /\ dense \in [DOMAIN found -> Scores]
            /\ sparse \in [DOMAIN found -> IF settings.hybrid THEN Scores ELSE {0}]
       ELSE dense = <<>> /\ sparse = <<>>
    /\ top \in Seq(Nat)
    /\ contextPc = "rerank" => /\ \A i \in DOMAIN top : top[i] \in DOMAIN found
                               /\ \A i, j \in DOMAIN top : i # j => top[i] # top[j]
    /\ contextPc \notin {"rerank", "web"} => top = <<>>
    /\ sections \in Seq(Numbered) /\ sources \in Seq(Passages)
    /\ history \in Histories \cup {<<>>}

LEMMA DocsAreFinite == IsFiniteSet(Docs) /\ Docs \subseteq Nat \ {0}
BY ContextAssumption

LEMMA SettingsAre ==
    \A s \in Settings : /\ {s.rerank, s.hybrid, s.full, s.web} \subseteq BOOLEAN
                        /\ {s.topK, s.candidates, s.messages, s.tokens} \subseteq Nat
BY ContextAssumption

\* The documents attached are as many as can be read in the order of their ids.
LEMMA AttachedRows ==
    ASSUME ContextType, NEW own \in BOOLEAN
    PROVE  /\ IsFiniteSet(Grounding!Attached(own)) /\ Grounding!Attached(own) \in SUBSET Docs
           /\ Grounding!WholeRows(own) \in Seq(Docs \X Nat)
           /\ Grounding!ChunkRows(own) \in Seq(Docs \X Nat)
<1>. DEFINE D == Grounding!Attached(own)
<1>1. IsFiniteSet(D) /\ D \in SUBSET Docs /\ D \in SUBSET Int
  <2>1. D \in SUBSET Docs
    BY DEF Grounding!Attached
  <2>2. IsFiniteSet(D)
    BY <2>1, DocsAreFinite, FS_Subset
  <2>. HIDE DEF D
  <2>3. D \subseteq Nat
    BY <2>1, DocsAreFinite
  <2>. QED
    BY <2>1, <2>2, <2>3
<1>2. Grounding!WholeRows(own) \in Seq(Docs \X Nat)
  <2>. DEFINE ds == Ordered(D, Less(D))
  <2>1. Listing(ds, D, Less(D))
    BY <1>1, LessOrders, OrderedLists
  <2>2. Grounding!WholeRows(own) = [k \in DOMAIN ds |-> <<ds[k], 0>>]
    BY SameLists DEF Grounding!WholeRows
  <2>. HIDE DEF ds
  <2>3. ds \in Seq(Docs)
    BY <1>1, <2>1 DEF Listing
  <2>. QED
    BY <2>2, <2>3
<1>3. Grounding!ChunkRows(own) \in Seq(Docs \X Nat)
  <2>. DEFINE C == UNION {{d} \X (1..docs[d].len) : d \in D}
              R == {p \in C \X C : \/ p[1][1] < p[2][1]
                                  \/ (p[1][1] = p[2][1] /\ p[1][2] < p[2][2])}
  <2>1. \A d \in D : docs[d].len \in Nat
    BY <1>1 DEF ContextType, Documents
  <2>2. IsFiniteSet(C)
    <3>. DEFINE f == [d \in D |-> {d} \X (1..docs[d].len)]
    <3>1. ASSUME NEW d \in D
          PROVE  IsFiniteSet({d} \X (1..docs[d].len))
      <4>1. IsFiniteSet({d}) /\ IsFiniteSet(1..docs[d].len)
        <5>1. docs[d].len \in Int /\ 1 \in Int
          BY <2>1
        <5>. QED
          BY <5>1, FS_Singleton, FS_Interval
      <4>. QED
        BY <4>1, FS_Product
    <3>2. IsFiniteSet({{d} \X (1..docs[d].len) : d \in D})
      <4>1. f \in Surjection(D, {{d} \X (1..docs[d].len) : d \in D})
        BY DEF Surjection
      <4>. QED
        BY <1>1, <4>1, FS_Surjection
    <3>. QED
      BY <3>1, <3>2, FS_UNION
  <2>3. C \subseteq Docs \X Nat
    BY <1>1, <2>1
  <2>4. Orders(R, C)
    <3>1. \A x \in C : x = <<x[1], x[2]>> /\ x[1] \in Int /\ x[2] \in Int
      BY <2>3, DocsAreFinite
    <3>2. \A x, y \in C : <<x, y>> \in R <=> x[1] < y[1] \/ (x[1] = y[1] /\ x[2] < y[2])
      OBVIOUS
    <3>. HIDE DEF C, R
    <3>. QED
      BY <3>1, <3>2 DEF Orders
  <2>5. Grounding!ChunkRows(own) = Ordered(C, R)
    BY SameLists DEF Grounding!ChunkRows
  <2>. HIDE DEF C, R
  <2>6. Listing(Ordered(C, R), C, R)
    BY <2>2, <2>4, OrderedLists
  <2>. QED
    BY <2>3, <2>5, <2>6 DEF Listing
<1>. QED
  BY <1>1, <1>2, <1>3
\* The score of a row.
LEMMA ListedRows ==
    ASSUME ContextType, NEW score \in [DOMAIN found -> Nat]
    PROVE  LET P == {k \in DOMAIN found : score[k] > 0}
               L == Grounding!Listed(score)
           IN  /\ IsFiniteSet(P) /\ P \in SUBSET Int
               /\ L \in Seq(P) /\ \A k \in P : \E i \in DOMAIN L : L[i] = k
               /\ \A i, j \in DOMAIN L :
                    i < j => /\ L[i] # L[j] /\ score[L[i]] >= score[L[j]]
<1>. DEFINE P == {k \in DOMAIN found : score[k] > 0}
            keyOf == [k \in P |-> -score[k]]
            L == Sorted(P, keyOf)
<1>1. found \in Seq(Docs \X Nat)
  BY DEF ContextType
<1>2. DOMAIN found = 1..Len(found) /\ Len(found) \in Nat
  BY <1>1
<1>3. IsFiniteSet(DOMAIN found)
  BY <1>2, FS_Interval
<1>4. P \in SUBSET (DOMAIN found) /\ P \in SUBSET Int
  BY <1>2
<1>5. IsFiniteSet(P)
  BY <1>3, <1>4, FS_Subset
<1>6. keyOf \in [P -> Int] /\ \A k \in P : keyOf[k] = -score[k] /\ score[k] \in Nat
  BY <1>4
<1>7. Grounding!Listed(score) = L
  BY SameLists DEF Grounding!Listed, Grounding!Positive
<1>. HIDE DEF keyOf, P
<1>8. Listing(L, P, ByKey(P, keyOf))
  BY <1>4, <1>5, <1>6, SortedLists
<1>. HIDE DEF L
<1>9. ASSUME NEW i \in DOMAIN L, NEW j \in DOMAIN L, i < j
      PROVE  L[i] # L[j] /\ score[L[i]] >= score[L[j]]
  <2>1. L[i] \in P /\ L[j] \in P /\ i # j
    BY <1>8, <1>9 DEF Listing
  <2>2. <<L[i], L[j]>> \in ByKey(P, keyOf) /\ L[i] # L[j]
    BY <1>8, <1>9, <2>1 DEF Listing
  <2>3. keyOf[L[i]] < keyOf[L[j]] \/ keyOf[L[i]] = keyOf[L[j]]
    BY <2>2 DEF ByKey
  <2>. QED
    BY <1>6, <2>1, <2>2, <2>3
<1>. QED
  BY <1>4, <1>5, <1>7, <1>8, <1>9 DEF Listing, P

LEMMA FractionsChain ==
    ASSUME NEW a \in Nat, NEW b \in Nat, NEW c \in Nat,
           NEW p \in Nat, NEW q \in Nat, NEW r \in Nat, p > 0, q > 0, r > 0
    PROVE  /\ a * q >= b * p /\ b * r >= c * q => a * r >= c * p
           /\ a * q > b * p /\ b * r >= c * q => a * r > c * p
           /\ a * q >= b * p /\ b * r > c * q => a * r > c * p
<1>. DEFINE u == a * r
            v == c * p
<1>1. u \in Nat /\ v \in Nat
  OBVIOUS
<1>2. /\ (a * q) * r = u * q /\ (b * p) * r = (b * r) * p /\ (c * q) * p = v * q
  OBVIOUS
<1>3. \A i, j, k \in Nat : k > 0 => (i >= j => i * k >= j * k) /\ (i > j => i * k > j * k)
  OBVIOUS
<1>4. \A i, j, k \in Nat : k > 0 => (i * k >= j * k => i >= j) /\ (i * k > j * k => i > j)
  OBVIOUS
<1>5. a * q \in Nat /\ b * p \in Nat /\ b * r \in Nat /\ c * q \in Nat
  OBVIOUS
<1>. HIDE DEF u, v
<1>6. /\ a * q >= b * p => u * q >= (b * r) * p
      /\ a * q > b * p => u * q > (b * r) * p
      /\ b * r >= c * q => (b * r) * p >= v * q
      /\ b * r > c * q => (b * r) * p > v * q
  BY <1>2, <1>3, <1>5
<1>7. u * q \in Nat /\ (b * r) * p \in Nat /\ v * q \in Nat
  BY <1>1, <1>5
<1>8. (u * q >= v * q => u >= v) /\ (u * q > v * q => u > v)
  BY <1>1, <1>4
<1>. QED
  BY <1>6, <1>7, <1>8 DEF u, v

\* Fractions with positive denominators, compared by cross multiplication, and by a number
\* of their own when they are equal.
LEMMA FractionsOrder ==
    ASSUME NEW K, NEW num \in [K -> Nat], NEW den \in [K -> Nat \ {0}], NEW first \in [K -> Nat],
           \A i, j \in K : i # j => first[i] # first[j],
           NEW R, \A i, j \in K : <<i, j>> \in R <=>
                     \/ num[i] * den[j] > num[j] * den[i]
                     \/ num[i] * den[j] = num[j] * den[i] /\ first[i] < first[j]
    PROVE  Orders(R, K)
<1>1. \A i \in K : num[i] \in Nat /\ den[i] \in Nat /\ den[i] > 0 /\ first[i] \in Nat
  OBVIOUS
<1>2. \A x \in K : <<x, x>> \notin R
  <2>. TAKE x \in K
  <2>. DEFINE a == num[x] * den[x]
  <2>1. a \in Nat
    BY <1>1
  <2>2. <<x, x>> \in R <=> a > a \/ (a = a /\ first[x] < first[x])
    OBVIOUS
  <2>. QED
    BY <1>1, <2>1, <2>2
<1>3. ASSUME NEW x \in K, NEW y \in K, x # y
      PROVE  <<x, y>> \in R \/ <<y, x>> \in R
  <2>. DEFINE a == num[x] * den[y]
              b == num[y] * den[x]
  <2>1. a \in Nat /\ b \in Nat
    BY <1>1
  <2>2. /\ <<x, y>> \in R <=> a > b \/ (a = b /\ first[x] < first[y])
        /\ <<y, x>> \in R <=> b > a \/ (b = a /\ first[y] < first[x])
    OBVIOUS
  <2>3. first[x] < first[y] \/ first[y] < first[x]
    BY <1>1, <1>3
  <2>. HIDE DEF a, b
  <2>. QED
    BY <2>1, <2>2, <2>3
<1>4. ASSUME NEW x \in K, NEW y \in K, NEW z \in K, <<x, y>> \in R, <<y, z>> \in R
      PROVE  <<x, z>> \in R
  <2>. DEFINE a == num[x]
              b == num[y]
              c == num[z]
              p == den[x]
              q == den[y]
              r == den[z]
  <2>1. /\ a \in Nat /\ b \in Nat /\ c \in Nat /\ p \in Nat /\ q \in Nat /\ r \in Nat
        /\ p > 0 /\ q > 0 /\ r > 0
    BY <1>1
  <2>2. /\ a * q > b * p \/ (a * q = b * p /\ first[x] < first[y])
        /\ b * r > c * q \/ (b * r = c * q /\ first[y] < first[z])
    BY <1>4
  <2>3. <<x, z>> \in R <=> a * r > c * p \/ (a * r = c * p /\ first[x] < first[z])
    OBVIOUS
  <2>4. first[x] < first[y] /\ first[y] < first[z] => first[x] < first[z]
    BY <1>1
  <2>. HIDE DEF a, b, c, p, q, r
  <2>5. /\ a * q >= b * p /\ b * r >= c * q => a * r >= c * p
        /\ a * q > b * p /\ b * r >= c * q => a * r > c * p
        /\ a * q >= b * p /\ b * r > c * q => a * r > c * p
    BY <2>1, FractionsChain
  <2>6. a * q \in Nat /\ b * p \in Nat /\ b * r \in Nat /\ c * q \in Nat /\ a * r \in Nat /\ c * p \in Nat
    BY <2>1
  <2>. QED
    BY <2>2, <2>3, <2>4, <2>5, <2>6
<1>. QED
  BY <1>2, <1>3, <1>4 DEF Orders
\* The place of a row in a listing: better scores first, rows without one nowhere.
LEMMA PlaceOfRow ==
    ASSUME ContextType, NEW score \in [DOMAIN found -> Nat], NEW k \in DOMAIN found
    PROVE  LET L == Grounding!Listed(score)
               p == Grounding!Place(L, k)
           IN  /\ p \in Nat /\ (p = 0 <=> score[k] = 0)
               /\ p # 0 => p \in DOMAIN L /\ L[p] = k
<1>. DEFINE P == {x \in DOMAIN found : score[x] > 0}
            L == Grounding!Listed(score)
            p == Grounding!Place(L, k)
<1>1. L \in Seq(P) /\ \A x \in P : \E i \in DOMAIN L : L[i] = x
  BY ListedRows
<1>2. p = IF k \in {L[i] : i \in DOMAIN L} THEN CHOOSE i \in DOMAIN L : L[i] = k ELSE 0
  BY SameLists DEF Grounding!Place
<1>3. k \in {L[i] : i \in DOMAIN L} <=> score[k] > 0
  <2>1. \A i \in DOMAIN L : L[i] \in P
    BY <1>1
  <2>2. k \in P => \E i \in DOMAIN L : L[i] = k
    BY <1>1
  <2>. QED
    BY <2>1, <2>2
<1>4. DOMAIN L \subseteq Nat \ {0}
  BY <1>1
<1>. HIDE DEF L, P
<1>7. score[k] \in Nat
  OBVIOUS
<1>5. CASE score[k] > 0
  <2>1. p \in DOMAIN L /\ L[p] = k
    BY <1>2, <1>3, <1>5
  <2>. QED
    BY <1>4, <1>5, <2>1 DEF L
<1>6. CASE score[k] = 0
  <2>1. p = 0
    BY <1>2, <1>3, <1>6
  <2>. QED
    BY <1>6, <2>1 DEF L
<1>. QED
  BY <1>5, <1>6, <1>7

LEMMA PlaceAhead ==
    ASSUME ContextType, NEW score \in [DOMAIN found -> Nat],
           NEW j \in DOMAIN found, NEW i \in DOMAIN found, Grounding!Ahead(score, j, i)
    PROVE  LET L == Grounding!Listed(score)
               p == Grounding!Place(L, j)
               q == Grounding!Place(L, i)
           IN  \/ p # 0 /\ (q = 0 \/ p < q)
               \/ p = 0 /\ q = 0 /\ score[j] = 0
<1>. DEFINE L == Grounding!Listed(score)
            p == Grounding!Place(L, j)
            q == Grounding!Place(L, i)
<1>1. /\ p \in Nat /\ (p = 0 <=> score[j] = 0) /\ (p # 0 => p \in DOMAIN L /\ L[p] = j)
      /\ q \in Nat /\ (q = 0 <=> score[i] = 0) /\ (q # 0 => q \in DOMAIN L /\ L[q] = i)
  BY PlaceOfRow
<1>2. \A a, b \in DOMAIN L : a < b => score[L[a]] >= score[L[b]]
  BY ListedRows
<1>3. score[j] \in Nat /\ score[i] \in Nat
  OBVIOUS
<1>. HIDE DEF L, p, q
<1>4. CASE score[j] > score[i]
  <2>1. p # 0
    BY <1>1, <1>3, <1>4
  <2>2. ASSUME q # 0, q < p
        PROVE  FALSE
    BY <1>1, <1>2, <1>3, <1>4, <2>1, <2>2
  <2>3. ASSUME q = p
        PROVE  FALSE
    BY <1>1, <1>3, <1>4, <2>1, <2>3
  <2>4. q = 0 \/ p < q
    <3>1. p \in Nat /\ q \in Nat
      BY <1>1
    <3>. QED
      BY <2>2, <2>3, <3>1
  <2>. QED
    BY <2>1, <2>4 DEF L, p, q
<1>5. CASE score[j] = 0 /\ score[i] = 0
  BY <1>1, <1>5 DEF L, p, q
<1>. QED
  BY <1>4, <1>5 DEF Grounding!Ahead

\* 1 / (60 + place) as a fraction, and nothing for a row that has no place.
Numer(p) == IF p = 0 THEN 0 ELSE 1
Denom(p) == IF p = 0 THEN 1 ELSE 60 + p

LEMMA FusedIs ==
    \A s, t, k :
      LET a == Grounding!Place(s, k)
          b == Grounding!Place(t, k)
      IN  /\ Grounding!Fused(s, t, k)[1] = Numer(a) * Denom(b) + Numer(b) * Denom(a)
          /\ Grounding!Fused(s, t, k)[2] = Denom(a) * Denom(b)
<1>. SUFFICES ASSUME NEW s, NEW t, NEW k
              PROVE  LET a == Grounding!Place(s, k)
                         b == Grounding!Place(t, k)
                     IN  /\ Grounding!Fused(s, t, k)[1] = Numer(a) * Denom(b) + Numer(b) * Denom(a)
                         /\ Grounding!Fused(s, t, k)[2] = Denom(a) * Denom(b)
  OBVIOUS
<1>. DEFINE a == Grounding!Place(s, k)
            b == Grounding!Place(t, k)
            Part(p) == IF p = 0 THEN <<0, 1>> ELSE <<1, 60 + p>>
<1>1. Grounding!Fused(s, t, k) = <<Part(a)[1] * Part(b)[2] + Part(b)[1] * Part(a)[2],
                                   Part(a)[2] * Part(b)[2]>>
  BY DEF Grounding!Fused
<1>2. \A p : Part(p)[1] = Numer(p) /\ Part(p)[2] = Denom(p)
  BY DEF Numer, Denom
<1>. HIDE DEF Part
<1>. QED
  BY <1>1, <1>2

\* A sum of two fractions is greater when one of them is and the other no less.
LEMMA SumAhead ==
    ASSUME NEW a \in Nat, NEW b \in Nat, NEW c \in Nat, NEW d \in Nat,
           NEW e \in Nat \ {0}, NEW f \in Nat \ {0}, NEW g \in Nat \ {0}, NEW h \in Nat \ {0},
           a * g >= c * e, b * h >= d * f, a * g > c * e \/ b * h > d * f
    PROVE  (a * f + b * e) * (g * h) > (c * h + d * g) * (e * f)
<1>. DEFINE u == f * h
            v == e * g
<1>1. u \in Nat \ {0} /\ v \in Nat \ {0}
  <2>1. \A x, y \in Nat \ {0} : x * y \in Nat \ {0}
    OBVIOUS
  <2>. QED
    BY <2>1
<1>2. /\ (a * f + b * e) * (g * h) = (a * g) * u + (b * h) * v
      /\ (c * h + d * g) * (e * f) = (c * e) * u + (d * f) * v
  OBVIOUS
<1>. HIDE DEF u, v
<1>3. \A i, j \in Nat, k \in Nat \ {0} : /\ i >= j => i * k >= j * k
                                       /\ i > j => i * k > j * k
  OBVIOUS
<1>4. a * g \in Nat /\ c * e \in Nat /\ b * h \in Nat /\ d * f \in Nat
  OBVIOUS
<1>5. /\ (a * g) * u >= (c * e) * u /\ (b * h) * v >= (d * f) * v
      /\ (a * g) * u > (c * e) * u \/ (b * h) * v > (d * f) * v
  BY <1>1, <1>3, <1>4
<1>6. \A i, j \in Nat : i * j \in Nat
  OBVIOUS
<1>7. /\ (a * g) * u \in Nat /\ (c * e) * u \in Nat
      /\ (b * h) * v \in Nat /\ (d * f) * v \in Nat
  BY <1>1, <1>4, <1>6
<1>. QED
  BY <1>2, <1>5, <1>7
\* The ranking before it is cut: the rows that score, each once, none after one that it
\* beats in both listings.
Scoring == {k \in DOMAIN found : dense[k] > 0 \/ sparse[k] > 0}

Ranked(L) ==
    /\ L \in Seq(Scoring) /\ \A k \in Scoring : \E i \in DOMAIN L : L[i] = k
    /\ \A i, j \in DOMAIN L : i # j => L[i] # L[j]
    /\ \A i, j \in DOMAIN L :
         i < j => ~(Grounding!Ahead(dense, L[j], L[i]) /\ Grounding!Ahead(sparse, L[j], L[i]))

LEMMA ScoresAre ==
    ContextType /\ contextPc = "rank" => /\ dense \in [DOMAIN found -> Nat]
                                        /\ sparse \in [DOMAIN found -> Nat]
BY ContextAssumption DEF ContextType

\* The order of _hybrid_rank: the sum of both fractions decides, then who was named first.
LEMMA FusedAhead ==
    ASSUME ContextType, contextPc = "rank", NEW i \in DOMAIN found, NEW j \in Scoring,
           Grounding!Ahead(dense, j, i), Grounding!Ahead(sparse, j, i)
    PROVE  LET x == Grounding!Fused(Grounding!Listed(dense), Grounding!Listed(sparse), j)
               y == Grounding!Fused(Grounding!Listed(dense), Grounding!Listed(sparse), i)
           IN  x[1] * y[2] > y[1] * x[2]
<1>. DEFINE s == Grounding!Listed(dense)
            t == Grounding!Listed(sparse)
            p == Grounding!Place(s, j)
            q == Grounding!Place(s, i)
            v == Grounding!Place(t, j)
            w == Grounding!Place(t, i)
<1>1. j \in DOMAIN found /\ (dense[j] > 0 \/ sparse[j] > 0)
  BY DEF Scoring
<1>2. p \in Nat /\ q \in Nat /\ v \in Nat /\ w \in Nat
  BY <1>1, ScoresAre, PlaceOfRow
<1>3. \/ p # 0 /\ (q = 0 \/ p < q)
      \/ p = 0 /\ q = 0 /\ dense[j] = 0
  BY <1>1, ScoresAre, PlaceAhead
<1>4. \/ v # 0 /\ (w = 0 \/ v < w)
      \/ v = 0 /\ w = 0 /\ sparse[j] = 0
  BY <1>1, ScoresAre, PlaceAhead
<1>. HIDE DEF p, q, v, w, s, t
<1>5. \A x \in Nat : Numer(x) \in Nat /\ Denom(x) \in Nat \ {0}
  BY DEF Numer, Denom
<1>6. \A x, y \in Nat : /\ x # 0 /\ (y = 0 \/ x < y) => Numer(x) * Denom(y) > Numer(y) * Denom(x)
                        /\ x = 0 /\ y = 0 => Numer(x) * Denom(y) >= Numer(y) * Denom(x)
  BY DEF Numer, Denom
<1>7. /\ Numer(p) * Denom(q) >= Numer(q) * Denom(p)
      /\ Numer(v) * Denom(w) >= Numer(w) * Denom(v)
      /\ \/ Numer(p) * Denom(q) > Numer(q) * Denom(p)
         \/ Numer(v) * Denom(w) > Numer(w) * Denom(v)
  <2>1. p # 0 \/ v # 0
    BY <1>1, <1>3, <1>4
  <2>2. \A x, y \in Nat : Numer(x) * Denom(y) \in Nat
    BY <1>5
  <2>3. ASSUME NEW x \in Nat, NEW y \in Nat, (x # 0 /\ (y = 0 \/ x < y)) \/ (x = 0 /\ y = 0)
        PROVE  /\ Numer(x) * Denom(y) >= Numer(y) * Denom(x)
               /\ x # 0 => Numer(x) * Denom(y) > Numer(y) * Denom(x)
    <3>. DEFINE a == Numer(x) * Denom(y)
                b == Numer(y) * Denom(x)
    <3>1. a \in Nat /\ b \in Nat
      BY <2>2
    <3>2. a > b \/ (x = 0 /\ a >= b)
      BY <1>6, <2>3
    <3>. HIDE DEF a, b
    <3>3. a >= b /\ (x # 0 => a > b)
      BY <3>1, <3>2
    <3>. QED
      BY <3>3 DEF a, b
  <2>4. /\ Numer(p) * Denom(q) >= Numer(q) * Denom(p)
        /\ p # 0 => Numer(p) * Denom(q) > Numer(q) * Denom(p)
    BY <1>2, <1>3, <2>3
  <2>5. /\ Numer(v) * Denom(w) >= Numer(w) * Denom(v)
        /\ v # 0 => Numer(v) * Denom(w) > Numer(w) * Denom(v)
    BY <1>2, <1>4, <2>3
  <2>. QED
    BY <2>1, <2>4, <2>5
<1>8. (Numer(p) * Denom(v) + Numer(v) * Denom(p)) * (Denom(q) * Denom(w))
        > (Numer(q) * Denom(w) + Numer(w) * Denom(q)) * (Denom(p) * Denom(v))
  BY <1>2, <1>5, <1>7, SumAhead
<1>. QED
  BY <1>8, FusedIs DEF p, q, v, w, s, t
LEMMA DenseRanking ==
    ASSUME ContextType, contextPc = "rank", ~settings.hybrid
    PROVE  Ranked(Grounding!Listed(dense))
<1>. DEFINE L == Grounding!Listed(dense)
            P == {k \in DOMAIN found : dense[k] > 0}
<1>1. /\ L \in Seq(P) /\ \A k \in P : \E i \in DOMAIN L : L[i] = k
      /\ \A i, j \in DOMAIN L : i < j => L[i] # L[j] /\ dense[L[i]] >= dense[L[j]]
  BY ScoresAre, ListedRows
<1>2. \A k \in DOMAIN found : sparse[k] = 0 /\ dense[k] \in Nat
  BY ScoresAre DEF ContextType
<1>3. P = Scoring
  BY <1>2 DEF Scoring
<1>4. DOMAIN L \subseteq Nat
  BY <1>1
<1>. HIDE DEF L
<1>5. \A i, j \in DOMAIN L : i # j => L[i] # L[j]
  <2>. TAKE i, j \in DOMAIN L
  <2>1. i # j => i < j \/ j < i
    BY <1>4
  <2>. QED
    BY <1>1, <2>1
<1>6. ASSUME NEW i \in DOMAIN L, NEW j \in DOMAIN L, i < j
      PROVE  ~Grounding!Ahead(dense, L[j], L[i])
  <2>1. dense[L[i]] >= dense[L[j]]
    BY <1>1, <1>6
  <2>2. L[i] \in P /\ L[j] \in P
    BY <1>1
  <2>3. dense[L[i]] \in Nat /\ dense[L[j]] \in Nat /\ dense[L[j]] > 0
    BY <1>2, <2>2
  <2>. QED
    BY <2>1, <2>3 DEF Grounding!Ahead
<1>. HIDE DEF P
<1>. QED
  BY <1>1, <1>3, <1>5, <1>6 DEF Ranked, L

LEMMA FusedRanking ==
    ASSUME ContextType, contextPc = "rank", settings.hybrid, NEW n \in Nat
    PROVE  \E L : /\ Ranked(L)
                  /\ Grounding!Hybrid(n) = SubSeq(L, 1, IF n < Len(L) THEN n ELSE Len(L))
<1>. DEFINE s == Grounding!Listed(dense)
            t == Grounding!Listed(sparse)
            both == s \o t
            F(k) == Grounding!Fused(s, t, k)
            First(k) == CHOOSE p \in DOMAIN both : both[p] = k /\ \A q \in 1..(p - 1) : both[q] # k
            Above(i, j) == LET x == F(i)[1] * F(j)[2]
                               y == F(j)[1] * F(i)[2]
                           IN  x > y \/ (x = y /\ First(i) < First(j))
            in == {both[i] : i \in DOMAIN both}
            R == {p \in in \X in : Above(p[1], p[2])}
            L == Ordered(in, R)
<1>1. Grounding!Hybrid(n) = SubSeq(L, 1, IF n < Len(L) THEN n ELSE Len(L))
  BY SameLists DEF Grounding!Hybrid, Grounding!Prefix
<1>2. /\ s \in Seq({k \in DOMAIN found : dense[k] > 0})
      /\ \A k \in DOMAIN found : dense[k] > 0 => \E i \in DOMAIN s : s[i] = k
  BY ScoresAre, ListedRows
<1>3. /\ t \in Seq({k \in DOMAIN found : sparse[k] > 0})
      /\ \A k \in DOMAIN found : sparse[k] > 0 => \E i \in DOMAIN t : t[i] = k
  BY ScoresAre, ListedRows
<1>4. in = Scoring /\ DOMAIN both = 1..Len(both) /\ Len(both) \in Nat
  <2>. HIDE DEF s, t
  <2>1. s \in Seq(Scoring) /\ t \in Seq(Scoring)
    BY <1>2, <1>3 DEF Scoring
  <2>2. both \in Seq(Scoring) /\ Len(both) = Len(s) + Len(t)
    BY <2>1
  <2>3. /\ \A i \in DOMAIN s : i \in DOMAIN both /\ both[i] = s[i]
        /\ \A i \in DOMAIN t : Len(s) + i \in DOMAIN both /\ both[Len(s) + i] = t[i]
    BY <2>1
  <2>4. in \subseteq Scoring
    BY <2>2
  <2>5. ASSUME NEW k \in Scoring
        PROVE  \E i \in DOMAIN both : both[i] = k
    <3>1. k \in DOMAIN found /\ (dense[k] > 0 \/ sparse[k] > 0)
      BY DEF Scoring
    <3>2. CASE dense[k] > 0
      <4>1. PICK i \in DOMAIN s : s[i] = k
        BY <1>2, <3>1, <3>2
      <4>. QED
        BY <2>3, <4>1
    <3>3. CASE sparse[k] > 0
      <4>1. PICK i \in DOMAIN t : t[i] = k
        BY <1>3, <3>1, <3>3
      <4>. QED
        BY <2>3, <4>1
    <3>. QED
      BY <3>1, <3>2, <3>3
  <2>. HIDE DEF both
  <2>6. in = Scoring
    BY <2>4, <2>5
  <2>. QED
    BY <2>2, <2>6
<1>5. IsFiniteSet(Scoring) /\ Scoring \subseteq DOMAIN found
  <2>1. found \in Seq(Docs \X Nat)
    BY DEF ContextType
  <2>2. DOMAIN found = 1..Len(found) /\ Len(found) \in Nat
    BY <2>1
  <2>3. IsFiniteSet(DOMAIN found) /\ Scoring \in SUBSET DOMAIN found
    BY <2>2, FS_Interval DEF Scoring
  <2>. QED
    BY <2>3, FS_Subset
<1>6. ASSUME NEW k \in in
      PROVE  First(k) \in DOMAIN both /\ both[First(k)] = k
  <2>. DEFINE S == {p \in DOMAIN both : both[p] = k}
  <2>1. S # {} /\ S \in SUBSET Nat
    BY <1>4
  <2>2. PICK p \in S : \A q \in S : p =< q
    BY <2>1, LeastOfNats
  <2>3. \A q \in 1..(p - 1) : both[q] # k
    BY <1>4, <2>2
  <2>. HIDE DEF both
  <2>. QED
    BY <2>2, <2>3
<1>. DEFINE num == [k \in in |-> F(k)[1]]
            den == [k \in in |-> F(k)[2]]
            first == [k \in in |-> First(k)]
<1>7. num \in [in -> Nat] /\ den \in [in -> Nat \ {0}]
  <2>1. ASSUME NEW k \in in
        PROVE  F(k)[1] \in Nat /\ F(k)[2] \in Nat \ {0}
    <3>. DEFINE a == Grounding!Place(s, k)
                b == Grounding!Place(t, k)
    <3>1. k \in DOMAIN found
      BY <1>4, <1>5
    <3>2. a \in Nat /\ b \in Nat
      BY <3>1, ScoresAre, PlaceOfRow
    <3>3. \A x \in Nat : Numer(x) \in Nat /\ Denom(x) \in Nat \ {0}
      BY DEF Numer, Denom
    <3>4. /\ F(k)[1] = Numer(a) * Denom(b) + Numer(b) * Denom(a)
          /\ F(k)[2] = Denom(a) * Denom(b)
      BY FusedIs
    <3>. HIDE DEF a, b, F
    <3>5. \A x, y \in Nat \ {0} : x * y \in Nat \ {0}
      OBVIOUS
    <3>6. \A x, y \in Nat : x * y \in Nat /\ x + y \in Nat
      OBVIOUS
    <3>7. Denom(a) \in Nat \ {0} /\ Denom(b) \in Nat \ {0} /\ Numer(a) \in Nat /\ Numer(b) \in Nat
      BY <3>2, <3>3
    <3>8. Numer(a) * Denom(b) \in Nat /\ Numer(b) * Denom(a) \in Nat
      BY <3>6, <3>7
    <3>9. F(k)[1] \in Nat
      BY <3>4, <3>6, <3>8
    <3>10. F(k)[2] \in Nat \ {0}
      BY <3>4, <3>5, <3>7
    <3>. QED
      BY <3>9, <3>10
  <2>. HIDE DEF in, F
  <2>. QED
    BY <2>1
<1>8. first \in [in -> Nat] /\ \A i, j \in in : i # j => first[i] # first[j]
  <2>. HIDE DEF in, First, both
  <2>. QED
    BY <1>4, <1>6
<1>9. \A i, j \in in : <<i, j>> \in R <=>
                     \/ num[i] * den[j] > num[j] * den[i]
                     \/ num[i] * den[j] = num[j] * den[i] /\ first[i] < first[j]
  <2>. HIDE DEF in, F, First
  <2>. QED
    OBVIOUS
<1>10. Orders(R, in)
  <2>. HIDE DEF R, num, den, first, in
  <2>. QED
    BY <1>7, <1>8, <1>9, FractionsOrder
<1>11. Listing(L, in, R)
  BY <1>4, <1>5, <1>10, OrderedLists
<1>12. ASSUME NEW i \in DOMAIN L, NEW j \in DOMAIN L, i < j,
              Grounding!Ahead(dense, L[j], L[i]), Grounding!Ahead(sparse, L[j], L[i])
       PROVE  FALSE
  <2>. HIDE DEF L, in, R
  <2>1. L[i] \in in /\ L[j] \in in /\ i # j
    <3>1. L \in Seq(in)
      BY <1>11 DEF Listing
    <3>2. DOMAIN L = 1..Len(L) /\ Len(L) \in Nat
      BY <3>1
    <3>. QED
      BY <1>12, <3>1, <3>2
  <2>2. <<L[i], L[j]>> \in R
    BY <1>11, <1>12 DEF Listing
  <2>3. F(L[j])[1] * F(L[i])[2] > F(L[i])[1] * F(L[j])[2]
    BY <1>4, <1>5, <1>12, <2>1, FusedAhead
  <2>. HIDE DEF F
  <2>4. num[L[j]] * den[L[i]] > num[L[i]] * den[L[j]]
    BY <2>1, <2>3
  <2>. HIDE DEF num, den, first
  <2>5. \/ num[L[i]] * den[L[j]] > num[L[j]] * den[L[i]]
        \/ num[L[i]] * den[L[j]] = num[L[j]] * den[L[i]]
    BY <1>9, <2>1, <2>2
  <2>6. num[L[j]] * den[L[i]] \in Nat /\ num[L[i]] * den[L[j]] \in Nat
    <3>1. num[L[i]] \in Nat /\ den[L[i]] \in Nat /\ num[L[j]] \in Nat /\ den[L[j]] \in Nat
      BY <1>7, <2>1
    <3>. HIDE DEF L
    <3>2. \A x, y \in Nat : x * y \in Nat
      OBVIOUS
    <3>. QED
      BY <3>1, <3>2
  <2>. DEFINE x == num[L[j]] * den[L[i]]
              y == num[L[i]] * den[L[j]]
  <2>7. x > y /\ (y > x \/ y = x) /\ x \in Nat /\ y \in Nat
    BY <2>4, <2>5, <2>6
  <2>. HIDE DEF x, y
  <2>. QED
    BY <2>7
<1>13. Ranked(L)
  BY <1>4, <1>11, <1>12 DEF Ranked, Listing
<1>. QED
  BY <1>1, <1>13

LEMMA HybridRanks ==
    ASSUME ContextType, contextPc = "rank", NEW n \in Nat
    PROVE  \E L : /\ Ranked(L)
                  /\ Grounding!Hybrid(n) = SubSeq(L, 1, IF n < Len(L) THEN n ELSE Len(L))
<1>1. CASE settings.hybrid
  BY <1>1, FusedRanking
<1>2. CASE ~settings.hybrid
  <2>1. Grounding!Hybrid(n) = LET L == Grounding!Listed(dense)
                              IN  SubSeq(L, 1, IF n < Len(L) THEN n ELSE Len(L))
    BY <1>2 DEF Grounding!Hybrid, Grounding!Prefix
  <2>. QED
    BY <1>2, <2>1, DenseRanking
<1>. QED
  BY <1>1, <1>2
LEMMA HybridRows ==
    ASSUME ContextType, contextPc = "rank", NEW n \in Nat
    PROVE  LET H == Grounding!Hybrid(n)
           IN  /\ H \in Seq(DOMAIN found)
               /\ \A i, j \in DOMAIN H : i # j => H[i] # H[j]
<1>. DEFINE H == Grounding!Hybrid(n)
<1>1. PICK L : Ranked(L) /\ H = SubSeq(L, 1, IF n < Len(L) THEN n ELSE Len(L))
  BY HybridRanks
<1>2. L \in Seq(DOMAIN found) /\ \A i, j \in DOMAIN L : i # j => L[i] # L[j]
  <2>1. L \in Seq(Scoring) /\ \A i, j \in DOMAIN L : i # j => L[i] # L[j]
    BY <1>1 DEF Ranked
  <2>2. Scoring \subseteq DOMAIN found
    BY DEF Scoring
  <2>. QED
    BY <2>1, <2>2
<1>. DEFINE m == IF n < Len(L) THEN n ELSE Len(L)
<1>3. /\ H \in Seq(DOMAIN found) /\ DOMAIN H = 1..m
      /\ \A i \in 1..m : i \in DOMAIN L /\ H[i] = L[i]
  <2>. HIDE DEF H
  <2>. QED
    BY <1>1, <1>2, ListingFront
<1>. HIDE DEF H, m
<1>. QED
  BY <1>2, <1>3 DEF H

\* Sections are numbered on from the number they begin with.
LEMMA SectionsAre ==
    ASSUME NEW items \in Seq(Passages), NEW first \in Nat \ {0}
    PROVE  LET S == Grounding!Sections(items, first)
           IN  /\ S \in Seq(Numbered) /\ Len(S) = Len(items)
               /\ \A k \in DOMAIN S :
                    /\ S[k].n = first + k - 1 /\ S[k].shows = items[k]
                    /\ S[k].marks = {first + k - 1} \cup Grounding!Label(items[k])
<1>. DEFINE S == Grounding!Sections(items, first)
<1>1. S = [k \in DOMAIN items |-> [n |-> first + k - 1, shows |-> items[k],
                                   marks |-> {first + k - 1} \cup Grounding!Label(items[k])]]
  BY DEF Grounding!Sections, Grounding!Defang
<1>2. DOMAIN items = 1..Len(items) /\ Len(items) \in Nat
  OBVIOUS
<1>3. ASSUME NEW k \in DOMAIN items
      PROVE  [n |-> first + k - 1, shows |-> items[k],
              marks |-> {first + k - 1} \cup Grounding!Label(items[k])] \in Numbered
  <2>1. first + k - 1 \in Nat /\ items[k] \in Passages
    BY <1>2
  <2>2. Grounding!Label(items[k]) \in SUBSET Nat
    BY DEF Grounding!Label
  <2>3. {first + k - 1} \cup Grounding!Label(items[k]) \in SUBSET Nat
    BY <2>1, <2>2
  <2>. QED
    BY <2>1, <2>3 DEF Numbered
<1>4. S \in Seq(Numbered) /\ Len(S) = Len(items) /\ DOMAIN S = DOMAIN items
  <2>1. S \in [1..Len(items) -> Numbered]
    BY <1>1, <1>2, <1>3
  <2>. QED
    BY <1>2, <2>1
<1>. QED
  BY <1>1, <1>4

\* Section s has its place among the sources.
CitedAt(s, of) ==
    /\ s.n \in DOMAIN of /\ of[s.n] = s.shows
    /\ s.marks \subseteq {s.n} \cup Grounding!Label(s.shows)

LEMMA CitationsAre ==
    /\ CitationsResolve <=> /\ Len(sections) = Len(sources)
                            /\ \A k \in DOMAIN sections : CitedAt(sections[k], sources)
    /\ CitationsResolve' <=> /\ Len(sections') = Len(sources')
                             /\ \A k \in DOMAIN sections' : CitedAt(sections'[k], sources')
BY DEF CitationsResolve, Grounding!CitationsResolve, CitedAt, Grounding!Label

LEMMA FoundStep ==
    ASSUME ContextType, NEW items \in Seq(Passages), Grounding!Found(items),
           UNCHANGED <<settings, docs, history>>, top' \in Seq(Nat)
    PROVE  ContextType' /\ CitationsResolve'
<1>1. /\ sections' = Grounding!Sections(items, 1) /\ sources' = items /\ contextPc' = "web"
      /\ found' = <<>> /\ dense' = <<>> /\ sparse' = <<>>
  BY DEF Grounding!Found
<1>2. /\ sections' \in Seq(Numbered) /\ Len(sections') = Len(items)
      /\ \A k \in DOMAIN sections' :
           /\ sections'[k].n = 1 + k - 1 /\ sections'[k].shows = items[k]
           /\ sections'[k].marks = {1 + k - 1} \cup Grounding!Label(items[k])
  BY <1>1, SectionsAre
<1>3. ContextType'
  BY <1>1, <1>2 DEF ContextType, ContextPcs, Documents
<1>4. ASSUME NEW k \in DOMAIN sections'
      PROVE  CitedAt(sections'[k], sources')
  <2>1. DOMAIN sections' = DOMAIN items /\ DOMAIN items \subseteq Nat
    BY <1>2
  <2>2. 1 + k - 1 = k
    BY <2>1
  <2>3. /\ sections'[k].n = k /\ sections'[k].shows = items[k]
        /\ sections'[k].marks = {k} \cup Grounding!Label(items[k])
    BY <1>2, <2>2
  <2>. QED
    BY <1>1, <2>1, <2>3 DEF CitedAt
<1>5. CitationsResolve'
  BY <1>1, <1>2, <1>4, CitationsAre
<1>. QED
  BY <1>3, <1>5

\* Rows that are read are added, before anything is ranked.
LEMMA ReadStep ==
    ASSUME ContextType, NEW items \in Seq(Docs \X Nat), NEW next \in ContextPcs \ {"rank", "rerank"},
           contextPc \notin {"rank", "rerank", "web"}, Grounding!Read(items, next)
    PROVE  ContextType'
<1>1. found' = found \o items /\ contextPc' = next
      /\ UNCHANGED <<settings, docs, dense, sparse, top, rated, sections, sources, memory, history,
                     upstream>>
  BY DEF Grounding!Read
<1>2. found' \in Seq(Docs \X Nat)
  BY <1>1 DEF ContextType
<1>. QED
  BY <1>1, <1>2 DEF ContextType, Documents

LEMMA ExcerptsAre ==
    ASSUME ContextType, NEW order \in Seq(DOMAIN found)
    PROVE  Grounding!Excerpts(order) \in Seq(Passages)
<1>1. found \in Seq(Docs \X Nat)
  BY DEF ContextType
<1>2. \A k \in DOMAIN order : found[order[k]] \in Passages
  BY <1>1 DEF Passages
<1>. QED
  BY <1>2 DEF Grounding!Excerpts

LEMMA LimitsAre ==
    ContextType => Grounding!CandidateK \in Nat /\ settings.topK \in Nat
BY SettingsAre DEF ContextType, Grounding!CandidateK
\* The reranker's usable answers name candidates.
Ratings == [index : DOMAIN top, score : {0, 1}]

LEMMA UsableAre ==
    ASSUME NEW replied \in Seq(Grounding!Items)
    PROVE  Grounding!Usable(replied) \in Seq(Ratings)
<1>. DEFINE K == {k \in DOMAIN replied : replied[k].index \in DOMAIN top}
            o == Ordered(K, Less(K))
            U == Grounding!Usable(replied)
<1>1. U = Picked(replied, K)
  BY SameLists DEF Grounding!Usable
<1>2. K \in SUBSET (DOMAIN replied)
  OBVIOUS
<1>. HIDE DEF K, U
<1>3. /\ Listing(o, K, Less(K)) /\ Len(o) = Cardinality(K) /\ Cardinality(K) \in Nat
      /\ U \in Seq(Grounding!Items) /\ Len(U) = Cardinality(K)
      /\ \A i \in 1..Cardinality(K) : U[i] = replied[o[i]]
  BY <1>1, <1>2, PickedTakes
<1>. HIDE DEF o
<1>4. DOMAIN U = 1..Cardinality(K) /\ \A i \in DOMAIN U : o[i] \in K
  BY <1>3 DEF Listing
<1>5. ASSUME NEW i \in DOMAIN U
      PROVE  U[i] \in Ratings
  <2>1. U[i] = replied[o[i]] /\ o[i] \in K
    BY <1>3, <1>4
  <2>2. U[i] \in Grounding!Items
    BY <1>3, <1>4
  <2>3. U[i].index \in DOMAIN top
    BY <2>1 DEF K
  <2>. QED
    BY <2>2, <2>3 DEF Ratings, Grounding!Items
<1>. QED
  BY <1>3, <1>4, <1>5 DEF U

\* What the reranker must keep: C, no longer than topK, holds no row twice; without scores
\* it is the candidates' front, and with them each row left out is beaten by all the rows in.
KeepsBest(C, items) ==
    LET in == {C[i] : i \in DOMAIN C}
        Rated(r) == {items[k].score : k \in {x \in DOMAIN items : top[items[x].index] = r}}
    IN  /\ Cardinality(in) = Len(C) /\ Len(C) <= settings.topK
        /\ items = <<>> => C = Grounding!Prefix(top, settings.topK)
        /\ items # <<>> =>
             \A r \in {top[i] : i \in DOMAIN top} \ in : \A s \in Rated(r) :
               /\ Len(C) = settings.topK
               /\ \A i \in in : \E x \in Rated(i) : x >= s

\* What is chosen: candidates in the order of their scores, each once, as many as are
\* shown at most; none that is left out was rated better than one that is not.
LEMMA ChosenAreBest ==
    ASSUME ContextType, contextPc = "rerank", NEW items \in Seq(Ratings)
    PROVE  LET C == Grounding!Chosen(items)
               in == {C[i] : i \in DOMAIN C}
               Rated(r) == {items[k].score : k \in {x \in DOMAIN items : top[items[x].index] = r}}
           IN  /\ C \in Seq(DOMAIN found)
               /\ Cardinality(in) = Len(C) /\ Len(C) <= settings.topK
               /\ items = <<>> => C = Grounding!Prefix(top, settings.topK)
               /\ items # <<>> =>
                    \A r \in {top[i] : i \in DOMAIN top} \ in : \A s \in Rated(r) :
                      /\ Len(C) = settings.topK
                      /\ \A i \in in : \E x \in Rated(i) : x >= s
<1>. DEFINE C == Grounding!Chosen(items)
            n == settings.topK
            keyOf == [k \in DOMAIN items |-> -items[k].score]
            O == Sorted(DOMAIN items, keyOf)
            N == [k \in DOMAIN O |-> top[items[O[k]].index]]
            once == {k \in DOMAIN N : \A j \in 1..(k - 1) : N[j] # N[k]}
            w == Ordered(once, Less(once))
            P == Picked(N, once)
            m == IF n < Len(P) THEN n ELSE Len(P)
<1>1. n \in Nat
  BY LimitsAre
<1>2. top \in Seq(DOMAIN found) /\ \A i, j \in DOMAIN top : i # j => top[i] # top[j]
  BY DEF ContextType
<1>3. CASE items = <<>>
  <2>1. C = SubSeq(top, 1, IF n < Len(top) THEN n ELSE Len(top))
    BY <1>3 DEF Grounding!Chosen, Grounding!Prefix
  <2>2. C \in Seq(DOMAIN found) /\ Cardinality({C[i] : i \in DOMAIN C}) = Len(C) /\ Len(C) <= n
    <3>1. Len(top) \in Nat
      BY <1>2
    <3>. DEFINE F == SubSeq(top, 1, IF n < Len(top) THEN n ELSE Len(top))
    <3>. HIDE DEF n
    <3>a. /\ F \in Seq(DOMAIN found) /\ Cardinality({F[i] : i \in DOMAIN F}) = Len(F)
          /\ Len(F) = IF n < Len(top) THEN n ELSE Len(top)
      BY <1>1, <1>2, ListingFront
    <3>b. C = F
      BY <2>1 DEF n
    <3>. HIDE DEF C, F
    <3>2. /\ C \in Seq(DOMAIN found) /\ Cardinality({C[i] : i \in DOMAIN C}) = Len(C)
          /\ Len(C) = IF n < Len(top) THEN n ELSE Len(top)
      BY <3>a, <3>b
    <3>. QED
      BY <1>1, <3>1, <3>2
  <2>3. C = Grounding!Prefix(top, n)
    BY <1>3 DEF Grounding!Chosen
  <2>. QED
    BY <1>3, <2>2, <2>3
<1>4. CASE items # <<>>
  <2>1. DOMAIN items = 1..Len(items) /\ Len(items) \in Nat
    OBVIOUS
  <2>2. IsFiniteSet(DOMAIN items) /\ DOMAIN items \in SUBSET Int
    BY <2>1, FS_Interval
  <2>3. \A k \in DOMAIN items : items[k].score \in Nat /\ items[k].index \in DOMAIN top
    <3>1. \A k \in DOMAIN items : items[k] \in Ratings
      OBVIOUS
    <3>. QED
      BY <3>1 DEF Ratings
  <2>4. keyOf \in [DOMAIN items -> Int]
    BY <2>3
  <2>5. Listing(O, DOMAIN items, ByKey(DOMAIN items, keyOf))
    <3>. HIDE DEF keyOf
    <3>. QED
      BY <2>2, <2>4, SortedLists
  <2>6. C = SubSeq(P, 1, m)
    <3>1. Grounding!ByScore(items) = N
      BY SameLists DEF Grounding!ByScore
    <3>2. C = Grounding!Prefix(Grounding!Picked(N, once), n)
      BY <1>4, <3>1 DEF Grounding!Chosen
    <3>. HIDE DEF N, once
    <3>. QED
      BY <3>2, SameLists DEF Grounding!Prefix
  <2>. HIDE DEF O
  <2>7. O \in Seq(DOMAIN items) /\ DOMAIN O = 1..Len(O) /\ Len(O) \in Nat
    BY <2>5 DEF Listing
  <2>8. N \in Seq(DOMAIN found) /\ DOMAIN N = DOMAIN O
    <3>1. \A k \in DOMAIN O : top[items[O[k]].index] \in DOMAIN found
      BY <1>2, <2>3, <2>7
    <3>. QED
      BY <2>7, <3>1
  <2>9. once \in SUBSET DOMAIN N
    OBVIOUS
  <2>. HIDE DEF once, N
  <2>10. /\ Listing(w, once, Less(once)) /\ Len(w) = Cardinality(once) /\ Cardinality(once) \in Nat
         /\ P \in Seq(DOMAIN found) /\ Len(P) = Cardinality(once)
         /\ \A i \in 1..Cardinality(once) : P[i] = N[w[i]]
    BY <2>8, <2>9, PickedTakes
  <2>. HIDE DEF w, P
  <2>11. /\ DOMAIN P = 1..Len(P) /\ Len(P) \in Nat /\ DOMAIN w = DOMAIN P
         /\ \A i \in DOMAIN P : w[i] \in once /\ P[i] = N[w[i]]
         /\ \A k \in once : \E i \in DOMAIN P : w[i] = k
    BY <2>10 DEF Listing
  <2>12. \A i, j \in DOMAIN P : i < j => w[i] < w[j]
    <3>. TAKE i, j \in DOMAIN P
    <3>1. i < j => <<w[i], w[j]>> \in Less(once)
      BY <2>10, <2>11 DEF Listing
    <3>. QED
      BY <3>1 DEF Less
  <2>13. ASSUME NEW i \in DOMAIN P, NEW j \in DOMAIN P, i # j
         PROVE  P[i] # P[j]
    <3>1. \A a, b \in DOMAIN P : a < b => P[a] # P[b]
      <4>. SUFFICES ASSUME NEW a \in DOMAIN P, NEW b \in DOMAIN P, a < b
                    PROVE  N[w[a]] # N[w[b]]
        BY <2>11
      <4>1. w[a] < w[b] /\ w[a] \in once /\ w[b] \in once
        BY <2>11, <2>12
      <4>2. w[a] \in 1..Len(O) /\ w[b] \in 1..Len(O)
        BY <2>7, <2>8, <2>9, <4>1
      <4>3. w[a] \in 1..(w[b] - 1)
        BY <2>7, <4>1, <4>2
      <4>. QED
        BY <4>1, <4>3 DEF once
    <3>2. i < j \/ j < i
      BY <2>11, <2>13
    <3>. QED
      BY <3>1, <3>2
  <2>14. /\ C \in Seq(DOMAIN found) /\ Len(C) = m /\ DOMAIN C = 1..m
         /\ \A i \in 1..m : i \in DOMAIN P /\ C[i] = P[i]
         /\ Cardinality({C[i] : i \in DOMAIN C}) = Len(C)
    <3>. DEFINE F == SubSeq(P, 1, m)
    <3>. HIDE DEF n
    <3>1. /\ F \in Seq(DOMAIN found) /\ Len(F) = m /\ DOMAIN F = 1..m
          /\ \A i \in 1..m : i \in DOMAIN P /\ F[i] = P[i]
          /\ Cardinality({F[i] : i \in DOMAIN F}) = Len(F)
      BY <1>1, <2>10, <2>13, ListingFront
    <3>. HIDE DEF C, F
    <3>2. C = F
      BY <2>6 DEF F
    <3>. QED
      BY <3>1, <3>2
  <2>15. m \in Nat /\ m <= n
    BY <1>1, <2>11
  <2>16. ASSUME NEW x \in DOMAIN items,
                \A i \in DOMAIN C : C[i] # top[items[x].index]
         PROVE  /\ m = n
                /\ \A d \in 1..m : \E y \in DOMAIN items :
                     top[items[y].index] = C[d] /\ items[y].score >= items[x].score
    <3>. DEFINE r == top[items[x].index]
    <3>1. PICK a \in DOMAIN O : O[a] = x
      BY <2>5 DEF Listing
    <3>2. a \in DOMAIN N /\ N[a] = r
      BY <2>8, <3>1 DEF N
    <3>. HIDE DEF r, C
    <3>. DEFINE S == {k \in DOMAIN N : N[k] = r}
    <3>3. a \in S /\ S \in SUBSET Nat /\ S # {}
      BY <2>7, <2>8, <3>2
    <3>4. PICK b \in S : \A k \in S : b =< k
      BY <3>3, LeastOfNats
    <3>5. b \in 1..Len(O) /\ a \in 1..Len(O) /\ b =< a /\ N[b] = r
      BY <2>7, <2>8, <3>3, <3>4
    <3>6. b \in once
      <4>1. \A j \in 1..(b - 1) : N[j] # N[b]
        <5>. SUFFICES ASSUME NEW j \in 1..(b - 1), N[j] = N[b]
                      PROVE  FALSE
          OBVIOUS
        <5>1. j \in 1..Len(O) /\ j < b
          BY <2>7, <3>5
        <5>2. j \in S
          BY <2>7, <2>8, <3>5, <5>1
        <5>. QED
          BY <2>7, <3>4, <3>5, <5>1, <5>2
      <4>. QED
        BY <2>7, <2>8, <3>5, <4>1 DEF once
    <3>7. PICK c \in DOMAIN P : w[c] = b
      BY <2>11, <3>6
    <3>8. P[c] = r /\ c \in 1..Len(P)
      BY <2>11, <3>5, <3>7
    <3>9. ~(c \in 1..m)
      <4>1. c \in 1..m => C[c] = r
        BY <2>14, <3>8
      <4>. QED
        BY <2>14, <2>16, <4>1 DEF r
    <3>10. m < c /\ m = n
      BY <1>1, <2>11, <3>8, <3>9
    <3>11. ASSUME NEW d \in 1..m
           PROVE  \E y \in DOMAIN items :
                     top[items[y].index] = C[d] /\ items[y].score >= items[x].score
      <4>1. d \in DOMAIN P /\ d < c
        BY <2>14, <2>15, <3>8, <3>10
      <4>2. w[d] < b /\ w[d] \in once
        BY <2>11, <2>12, <3>7, <4>1
      <4>3. w[d] \in DOMAIN O /\ w[d] < a
        BY <2>7, <2>8, <2>9, <3>5, <4>2
      <4>. DEFINE y == O[w[d]]
      <4>4. y \in DOMAIN items /\ <<y, x>> \in ByKey(DOMAIN items, keyOf)
        <5>. HIDE DEF keyOf, O
        <5>1. /\ \A i \in DOMAIN O : O[i] \in DOMAIN items
              /\ \A i, j \in DOMAIN O :
                   i < j => <<O[i], O[j]>> \in ByKey(DOMAIN items, keyOf)
          BY <2>5 DEF Listing
        <5>. QED
          BY <3>1, <4>3, <5>1
      <4>5. keyOf[y] < keyOf[x] \/ keyOf[y] = keyOf[x]
        BY <4>4 DEF ByKey
      <4>6. top[items[y].index] = C[d]
        <5>1. C[d] = N[w[d]]
          BY <2>11, <2>14, <4>1
        <5>. QED
          BY <4>3, <5>1 DEF N
      <4>7. items[y].score >= items[x].score
        <5>1. items[y].score \in Nat /\ items[x].score \in Nat
          BY <2>3, <4>4
        <5>2. keyOf[y] = -items[y].score /\ keyOf[x] = -items[x].score
          BY <4>4
        <5>. QED
          BY <4>5, <5>1, <5>2
      <4>. QED
        BY <4>4, <4>6, <4>7
    <3>. QED
      BY <3>10, <3>11
  <2>. DEFINE in == {C[i] : i \in DOMAIN C}
              Rated(r) == {items[k].score : k \in {x \in DOMAIN items : top[items[x].index] = r}}
  <2>17. ASSUME NEW r \in {top[i] : i \in DOMAIN top} \ in, NEW s \in Rated(r)
         PROVE  Len(C) = n /\ \A i \in in : \E x \in Rated(i) : x >= s
    <3>. HIDE DEF C, m
    <3>1. PICK x \in DOMAIN items : top[items[x].index] = r /\ items[x].score = s
      OBVIOUS
    <3>2. \A i \in DOMAIN C : C[i] # top[items[x].index]
      BY <3>1
    <3>3. /\ m = n
          /\ \A d \in 1..m : \E y \in DOMAIN items :
               top[items[y].index] = C[d] /\ items[y].score >= items[x].score
      BY <2>16, <3>2
    <3>. QED
      BY <2>14, <3>1, <3>3
  <2>18. Len(C) <= n
    BY <2>14, <2>15
  <2>. HIDE DEF m
  <2>. QED
    BY <1>4, <2>14, <2>17, <2>18, Zenon
<1>. QED
  BY <1>3, <1>4
\* The front of the ranking leaves out no row that beats one it takes.
LEMMA FrontIsBest ==
    ASSUME NEW L, Ranked(L), NEW n \in Nat, NEW T, T = Grounding!Prefix(L, n)
    PROVE  LET in == {T[i] : i \in DOMAIN T}
           IN  /\ Cardinality(in) = Len(T) /\ in \subseteq Scoring
               /\ in = Scoring \/ Len(T) = n
               /\ \A i \in in, j \in Scoring \ in :
                    ~(Grounding!Ahead(dense, j, i) /\ Grounding!Ahead(sparse, j, i))
<1>. DEFINE m == IF n < Len(L) THEN n ELSE Len(L)
            in == {T[i] : i \in DOMAIN T}
<1>1. /\ L \in Seq(Scoring) /\ \A k \in Scoring : \E i \in DOMAIN L : L[i] = k
      /\ \A i, j \in DOMAIN L : i # j => L[i] # L[j]
  BY DEF Ranked
<1>2. DOMAIN L = 1..Len(L) /\ Len(L) \in Nat
  BY <1>1
<1>3. /\ T \in Seq(Scoring) /\ Len(T) = m /\ DOMAIN T = 1..m
      /\ \A i \in 1..m : i \in DOMAIN L /\ T[i] = L[i]
      /\ Cardinality(in) = Len(T)
  <2>. DEFINE F == SubSeq(L, 1, m)
  <2>1. /\ F \in Seq(Scoring) /\ Len(F) = m /\ DOMAIN F = 1..m
        /\ \A i \in 1..m : i \in DOMAIN L /\ F[i] = L[i]
        /\ Cardinality({F[i] : i \in DOMAIN F}) = Len(F)
    BY <1>1, ListingFront
  <2>2. T = F
    BY DEF Grounding!Prefix
  <2>. HIDE DEF F
  <2>. QED
    BY <2>1, <2>2
<1>. HIDE DEF m
<1>4. in \subseteq Scoring
  BY <1>3
<1>5. ASSUME NEW j \in Scoring \ in
      PROVE  \E c \in DOMAIN L : L[c] = j /\ ~(c \in 1..m)
  BY <1>1, <1>3
<1>6. in = Scoring \/ Len(T) = n
  <2>1. ASSUME NEW j \in Scoring \ in
        PROVE  m = n
    BY <1>2, <1>5, <2>1 DEF m
  <2>. HIDE DEF in
  <2>. QED
    BY <1>3, <1>4, <2>1
<1>7. ASSUME NEW i \in in, NEW j \in Scoring \ in
      PROVE  ~(Grounding!Ahead(dense, j, i) /\ Grounding!Ahead(sparse, j, i))
  <2>1. PICK d \in 1..m : d \in DOMAIN L /\ L[d] = i
    BY <1>3
  <2>2. PICK c \in DOMAIN L : L[c] = j /\ ~(c \in 1..m)
    BY <1>5
  <2>3. d < c
    BY <1>2, <2>1, <2>2 DEF m
  <2>. QED
    BY <2>1, <2>2, <2>3 DEF Ranked
<1>. QED
  BY <1>3, <1>4, <1>6, <1>7

LEMMA RankBest ==
    ASSUME ContextType, Grounding!Rank
    PROVE  LET in == {top'[i] : i \in DOMAIN top'}
           IN  /\ Cardinality(in) = Len(top') /\ in \subseteq Scoring
               /\ \/ in = Scoring
                  \/ Len(top') = IF contextPc' = "rerank" THEN Grounding!CandidateK ELSE settings.topK
               /\ \A i \in in, j \in Scoring \ in :
                    ~(Grounding!Ahead(dense, j, i) /\ Grounding!Ahead(sparse, j, i))
<1>. DEFINE n == Grounding!CandidateK
            k == settings.topK
            H == Grounding!Hybrid(n)
<1>1. n \in Nat /\ k \in Nat /\ k <= n
  <2>1. k \in Nat /\ settings.candidates \in Nat
    BY SettingsAre DEF ContextType
  <2>. QED
    BY <2>1 DEF Grounding!CandidateK
<1>2. PICK L : Ranked(L) /\ H = SubSeq(L, 1, IF n < Len(L) THEN n ELSE Len(L))
  <2>. HIDE DEF n
  <2>1. contextPc = "rank"
    BY DEF Grounding!Rank
  <2>. QED
    BY <1>1, <2>1, HybridRanks
<1>3. Len(L) \in Nat /\ L \in Seq(Scoring)
  BY <1>2 DEF Ranked
<1>4. CASE top' = H /\ contextPc' = "rerank"
  <2>. HIDE DEF n, H
  <2>1. LET in == {top'[i] : i \in DOMAIN top'}
        IN  /\ Cardinality(in) = Len(top') /\ in \subseteq Scoring
            /\ in = Scoring \/ Len(top') = n
            /\ \A i \in in, j \in Scoring \ in :
                 ~(Grounding!Ahead(dense, j, i) /\ Grounding!Ahead(sparse, j, i))
    <3>1. top' = Grounding!Prefix(L, n)
      BY <1>2, <1>4 DEF Grounding!Prefix
    <3>2. \A T : T = Grounding!Prefix(L, n) =>
            LET in == {T[i] : i \in DOMAIN T}
            IN  /\ Cardinality(in) = Len(T) /\ in \subseteq Scoring
                /\ in = Scoring \/ Len(T) = n
                /\ \A i \in in, j \in Scoring \ in :
                     ~(Grounding!Ahead(dense, j, i) /\ Grounding!Ahead(sparse, j, i))
      <4>1. Ranked(L) /\ n \in Nat
        BY <1>1, <1>2
      <4>. QED
        BY <4>1, FrontIsBest, ZenonT(30)
    <3>. QED
      BY <3>1, <3>2, Zenon
  <2>. QED
    BY <1>4, <2>1 DEF n
<1>5. CASE top' = Grounding!Prefix(H, k) /\ contextPc' = "web"
  <2>. HIDE DEF n, H, k
  <2>1. top' = SubSeq(H, 1, IF k < Len(H) THEN k ELSE Len(H))
    BY <1>5 DEF Grounding!Prefix
  <2>2. Len(H) = IF n < Len(L) THEN n ELSE Len(L)
    BY <1>1, <1>2, <1>3
  <2>3. top' = SubSeq(L, 1, IF k < Len(L) THEN k ELSE Len(L))
    <3>. DEFINE a == IF n < Len(L) THEN n ELSE Len(L)
                b == IF k < Len(L) THEN k ELSE Len(L)
    <3>1. (IF k < Len(H) THEN k ELSE Len(H)) = b /\ b <= a /\ a \in 0..Len(L) /\ b \in Nat
      BY <1>1, <1>3, <2>2
    <3>2. top' = SubSeq(SubSeq(L, 1, a), 1, b)
      BY <1>2, <2>1, <3>1
    <3>. HIDE DEF a, b
    <3>. QED
      BY <1>3, <3>1, <3>2 DEF b
  <2>4. LET in == {top'[i] : i \in DOMAIN top'}
        IN  /\ Cardinality(in) = Len(top') /\ in \subseteq Scoring
            /\ in = Scoring \/ Len(top') = k
            /\ \A i \in in, j \in Scoring \ in :
                 ~(Grounding!Ahead(dense, j, i) /\ Grounding!Ahead(sparse, j, i))
    <3>1. top' = Grounding!Prefix(L, k)
      BY <2>3 DEF Grounding!Prefix
    <3>2. \A T : T = Grounding!Prefix(L, k) =>
            LET in == {T[i] : i \in DOMAIN T}
            IN  /\ Cardinality(in) = Len(T) /\ in \subseteq Scoring
                /\ in = Scoring \/ Len(T) = k
                /\ \A i \in in, j \in Scoring \ in :
                     ~(Grounding!Ahead(dense, j, i) /\ Grounding!Ahead(sparse, j, i))
      <4>1. Ranked(L) /\ k \in Nat
        BY <1>1, <1>2
      <4>. QED
        BY <4>1, FrontIsBest, ZenonT(30)
    <3>. QED
      BY <3>1, <3>2, Zenon
  <2>. QED
    BY <1>5, <2>4 DEF k
<1>6. \/ top' = H /\ contextPc' = "rerank"
      \/ top' = Grounding!Prefix(H, k) /\ contextPc' = "web"
  BY DEF Grounding!Rank, Grounding!Found
<1>. QED
  BY <1>4, <1>5, <1>6
\* A reranking chooses from what is usable of the replied.
LEMMA RerankIs ==
    ASSUME Grounding!Rerank
    PROVE  /\ rated' \in Seq(Ratings) /\ top' = Grounding!Chosen(rated')
           /\ Grounding!Found(Grounding!Excerpts(top'))
<1>1. PICK replied \in {<<>>} \cup {<<i>> : i \in Grounding!Items}
                            \cup {<<i, j>> : i, j \in Grounding!Items} :
        rated' = Grounding!Usable(replied)
  BY DEF Grounding!Rerank
<1>2. replied \in Seq(Grounding!Items)
  <2>. DEFINE I == Grounding!Items
  <2>. HIDE DEF I
  <2>1. \A i, j \in I : <<i>> \in Seq(I) /\ <<i, j>> \in Seq(I)
    OBVIOUS
  <2>2. \/ replied = <<>>
        \/ \E i \in I : replied = <<i>>
        \/ \E i, j \in I : replied = <<i, j>>
    BY <1>1 DEF I
  <2>3. CASE replied = <<>>
    BY <2>3 DEF I
  <2>4. CASE \E i \in I : replied = <<i>>
    BY <2>1, <2>4 DEF I
  <2>5. CASE \E i, j \in I : replied = <<i, j>>
    BY <2>1, <2>5 DEF I
  <2>. QED
    BY <2>2, <2>3, <2>4, <2>5
<1>3. rated' \in Seq(Ratings)
  BY <1>1, <1>2, UsableAre
<1>. QED
  BY <1>3 DEF Grounding!Rerank

LEMMA ConcatIs ==
    ASSUME NEW T, NEW s \in Seq(T), NEW t \in Seq(T)
    PROVE  /\ Len(s \o t) = Len(s) + Len(t) /\ DOMAIN (s \o t) = 1..Len(s) + Len(t)
           /\ \A k \in 1..Len(s) : (s \o t)[k] = s[k]
           /\ \A k \in 1..Len(t) : (s \o t)[Len(s) + k] = t[k]
OBVIOUS

\* Every step keeps the types, and the numbers that stand for the sources.
LEMMA ContextStep ==
    ContextType /\ CitationsResolve /\ [Grounding!Next]_(Grounding!vars)
      => ContextType' /\ CitationsResolve'
<1>. SUFFICES ASSUME ContextType, CitationsResolve, [Grounding!Next]_(Grounding!vars)
              PROVE  ContextType' /\ CitationsResolve'
  OBVIOUS
<1>0. ASSUME UNCHANGED <<sections, sources>>
      PROVE  CitationsResolve'
  BY <1>0, CitationsAre
<1>1. CASE Grounding!Delete
  <2>1. contextPc \in Grounding!Reading /\ UNCHANGED <<settings, contextPc, found, dense, sparse, top,
          rated, sections, sources, memory, history, upstream>>
    BY <1>1 DEF Grounding!Delete
  <2>2. PICK d \in Docs : docs' = [docs EXCEPT ![d].there = FALSE]
    BY <1>1 DEF Grounding!Delete
  <2>3. docs \in Documents
    BY DEF ContextType
  <2>4. docs' \in Documents
    <3>1. docs'  = [x \in Docs |-> IF x = d THEN [docs[x] EXCEPT !.there = FALSE] ELSE docs[x]]
      BY <2>2, <2>3 DEF Documents
    <3>2. \A x \in Docs : [docs[x] EXCEPT !.there = FALSE] \in
                             [own : BOOLEAN, full : BOOLEAN, len : Nat, there : BOOLEAN]
      BY <2>3 DEF Documents
    <3>. QED
      BY <2>3, <3>1, <3>2 DEF Documents
  <2>5. ContextType'
    BY <2>1, <2>4 DEF ContextType
  <2>. QED
    BY <1>0, <2>1, <2>5
<1>2. CASE Grounding!FullOwn
  <2>1. contextPc = "own" /\ Grounding!Read(Grounding!WholeRows(TRUE), "ownTexts")
    BY <1>2 DEF Grounding!FullOwn
  <2>2. "ownTexts" \in ContextPcs \ {"rank", "rerank"}
    BY DEF ContextPcs, Grounding!Reading
  <2>3. ContextType'
    BY <2>1, <2>2, AttachedRows, ReadStep
  <2>. QED
    BY <1>0, <2>1, <2>3 DEF Grounding!Read
<1>3. CASE Grounding!FullShared
  <2>1. contextPc = "shared" /\ Grounding!Read(Grounding!WholeRows(FALSE), "sharedTexts")
    BY <1>3 DEF Grounding!FullShared
  <2>2. "sharedTexts" \in ContextPcs \ {"rank", "rerank"}
    BY DEF ContextPcs, Grounding!Reading
  <2>3. ContextType'
    BY <2>1, <2>2, AttachedRows, ReadStep
  <2>. QED
    BY <1>0, <2>1, <2>3 DEF Grounding!Read
<1>4. CASE Grounding!FullTexts
  <2>. DEFINE K == {k \in DOMAIN found : docs[found[k][1]].full \/ docs[found[k][1]].there}
  <2>1. /\ contextPc \in {"ownTexts", "sharedTexts"} /\ contextPc' \in {"shared", "cut"}
        /\ found' = Picked(found, K)
        /\ UNCHANGED <<settings, docs, dense, sparse, top, rated, sections, sources, memory, history,
                       upstream>>
    BY <1>4, SameLists DEF Grounding!FullTexts
  <2>2. found \in Seq(Docs \X Nat) /\ K \in SUBSET (DOMAIN found)
    BY DEF ContextType
  <2>. HIDE DEF K
  <2>3. found' \in Seq(Docs \X Nat)
    BY <2>1, <2>2, PickedTakes
  <2>4. contextPc' \in ContextPcs
    BY <2>1 DEF ContextPcs, Grounding!Reading
  <2>5. ContextType'
    BY <2>1, <2>3, <2>4 DEF ContextType
  <2>. QED
    BY <1>0, <2>1, <2>5
<1>5. CASE Grounding!FullCut
  <2>. DEFINE budget == IF settings.tokens = 0 THEN 30000 ELSE settings.tokens
  <2>. DEFINE K == {k \in DOMAIN found : Grounding!Before(k) < budget}
              items == [k \in 1..Cardinality(K) |-> found[k]]
  <2>1. Grounding!Found([k \in 1..Grounding!Cardinality(K) |-> found[k]])
    BY <1>5 DEF Grounding!FullCut
  <2>2. found \in Seq(Docs \X Nat)
    BY DEF ContextType
  <2>3. Len(found) \in Nat /\ DOMAIN found = 1..Len(found) /\ K \in SUBSET DOMAIN found
    BY <2>2
  <2>. HIDE DEF K
  <2>4. IsFiniteSet(DOMAIN found) /\ Cardinality(DOMAIN found) = Len(found)
    <3>1. 1 \in Int /\ Len(found) \in Int
      BY <2>3
    <3>2. IsFiniteSet(1..Len(found)) /\ Cardinality(1..Len(found)) = IF 1 > Len(found) THEN 0 ELSE Len(found) - 1 + 1
      BY <3>1, FS_Interval
    <3>. QED
      BY <2>3, <3>2
  <2>5. Cardinality(K) \in Nat /\ Cardinality(K) <= Len(found)
    BY <2>3, <2>4, FS_Subset, FS_CardinalityType
  <2>6. \A k \in 1..Cardinality(K) : found[k] \in Passages
    BY <2>2, <2>3, <2>5 DEF Passages
  <2>7. items \in Seq(Passages)
    BY <2>5, <2>6
  <2>8. UNCHANGED <<settings, docs, top, rated, memory, history, upstream>> /\ top \in Seq(Nat)
    BY <1>5 DEF Grounding!FullCut, ContextType
  <2>9. Grounding!Found(items)
    <3>1. Grounding!Cardinality(K) = Cardinality(K)
      BY SameLists
    <3>. QED
      BY <2>1, <3>1
  <2>. HIDE DEF items
  <2>. QED
    BY <2>7, <2>8, <2>9, FoundStep
<1>6. CASE Grounding!BlankQuery
  <2>1. contextPc = "own" /\ Grounding!Read(<<>>, "web")
    BY <1>6 DEF Grounding!BlankQuery
  <2>2. "web" \in ContextPcs \ {"rank", "rerank"} /\ <<>> \in Seq(Docs \X Nat)
    BY DEF ContextPcs
  <2>3. ContextType'
    BY <2>1, <2>2, ReadStep
  <2>. QED
    BY <1>0, <2>1, <2>3 DEF Grounding!Read
<1>7. CASE Grounding!ReadOwn
  <2>1. contextPc = "own" /\ Grounding!Read(Grounding!ChunkRows(TRUE), "shared")
    BY <1>7 DEF Grounding!ReadOwn
  <2>2. "shared" \in ContextPcs \ {"rank", "rerank"}
    BY DEF ContextPcs, Grounding!Reading
  <2>3. ContextType'
    BY <2>1, <2>2, AttachedRows, ReadStep
  <2>. QED
    BY <1>0, <2>1, <2>3 DEF Grounding!Read
<1>8. CASE Grounding!ReadShared
  <2>1. PICK next \in {"web", "embed"} :
          contextPc = "shared" /\ Grounding!Read(Grounding!ChunkRows(FALSE), next)
    BY <1>8 DEF Grounding!ReadShared
  <2>2. next \in ContextPcs \ {"rank", "rerank"}
    BY DEF ContextPcs
  <2>3. ContextType'
    BY <2>1, <2>2, AttachedRows, ReadStep
  <2>. QED
    BY <1>0, <2>1, <2>3 DEF Grounding!Read
<1>9. CASE Grounding!Embed
  <2>1. /\ contextPc = "embed" /\ UNCHANGED <<settings, docs, top, rated, sections, sources, memory,
                                             history, upstream>>
        /\ \/ contextPc' = "failed" /\ found' = <<>> /\ UNCHANGED <<dense, sparse>>
           \/ /\ dense' \in [DOMAIN found -> Scores]
              /\ sparse' \in [DOMAIN found -> IF settings.hybrid THEN Scores ELSE {0}]
              /\ contextPc' = "rank" /\ found' = found
    BY <1>9 DEF Grounding!Embed
  <2>2. contextPc' \in ContextPcs
    BY <2>1 DEF ContextPcs
  <2>3. ContextType'
    <3>1. CASE contextPc' = "failed" /\ found' = <<>> /\ UNCHANGED <<dense, sparse>>
      BY <2>1, <2>2, <3>1 DEF ContextType
    <3>2. CASE /\ dense' \in [DOMAIN found -> Scores]
               /\ sparse' \in [DOMAIN found -> IF settings.hybrid THEN Scores ELSE {0}]
               /\ contextPc' = "rank" /\ found' = found
      BY <2>1, <2>2, <3>2 DEF ContextType
    <3>. QED
      BY <2>1, <3>1, <3>2
  <2>. QED
    BY <1>0, <2>1, <2>3
<1>10. CASE Grounding!Rank
  <2>. DEFINE n == Grounding!CandidateK
              H == Grounding!Hybrid(n)
  <2>1. contextPc = "rank" /\ UNCHANGED <<settings, docs, rated, memory, history, upstream>>
    BY <1>10 DEF Grounding!Rank
  <2>2. \/ /\ top' = H /\ contextPc' = "rerank" /\ dense' = <<>> /\ sparse' = <<>>
           /\ UNCHANGED <<found, sections, sources>>
        \/ top' = Grounding!Prefix(H, settings.topK) /\ Grounding!Found(Grounding!Excerpts(top'))
    BY <1>10 DEF Grounding!Rank
  <2>3. n \in Nat /\ settings.topK \in Nat
    BY LimitsAre
  <2>. HIDE DEF n
  <2>4. H \in Seq(DOMAIN found) /\ \A i, j \in DOMAIN H : i # j => H[i] # H[j]
    BY <2>1, <2>3, HybridRows
  <2>5. DOMAIN found \subseteq Nat
    <3>1. found \in Seq(Docs \X Nat)
      BY DEF ContextType
    <3>. QED
      BY <3>1
  <2>. HIDE DEF H
  <2>6. CASE /\ top' = H /\ contextPc' = "rerank" /\ dense' = <<>> /\ sparse' = <<>>
             /\ UNCHANGED <<found, sections, sources>>
    <3>1. top' \in Seq(Nat) /\ \A i \in DOMAIN top' : top'[i] \in DOMAIN found'
      BY <2>4, <2>5, <2>6
    <3>2. contextPc' \in ContextPcs
      BY <2>6 DEF ContextPcs
    <3>3. ContextType'
      BY <2>1, <2>4, <2>6, <3>1, <3>2 DEF ContextType
    <3>. QED
      BY <1>0, <2>6, <3>3
  <2>7. CASE top' = Grounding!Prefix(H, settings.topK) /\ Grounding!Found(Grounding!Excerpts(top'))
    <3>1. top' = SubSeq(H, 1, IF settings.topK < Len(H) THEN settings.topK ELSE Len(H))
      BY <2>7 DEF Grounding!Prefix
    <3>2. top' \in Seq(DOMAIN found)
      BY <2>3, <2>4, <3>1
    <3>3. Grounding!Excerpts(top') \in Seq(Passages) /\ top' \in Seq(Nat)
      BY <2>5, <3>2, ExcerptsAre
    <3>. QED
      BY <2>1, <2>7, <3>3, FoundStep
  <2>. QED
    BY <2>2, <2>6, <2>7
<1>11. CASE Grounding!Rerank
  <2>1. contextPc = "rerank" /\ UNCHANGED <<settings, docs, memory, history, upstream>>
    BY <1>11 DEF Grounding!Rerank
  <2>2. PICK items \in Seq(Ratings) :
          top' = Grounding!Chosen(items) /\ Grounding!Found(Grounding!Excerpts(top'))
    BY <1>11, RerankIs
  <2>3. top' \in Seq(DOMAIN found)
    BY <2>1, <2>2, ChosenAreBest
  <2>4. DOMAIN found \subseteq Nat
    <3>1. found \in Seq(Docs \X Nat)
      BY DEF ContextType
    <3>. QED
      BY <3>1
  <2>5. Grounding!Excerpts(top') \in Seq(Passages) /\ top' \in Seq(Nat)
    BY <2>3, <2>4, ExcerptsAre
  <2>. QED
    BY <2>1, <2>2, <2>5, FoundStep
<1>12. CASE Grounding!Search
  <2>1. PICK n \in IF settings.web THEN 0..MaxResults ELSE {0} :
          LET items == [k \in 1..n |-> <<0, k>>]
          IN  /\ sections' = sections \o Grounding!Sections(items, Len(sources) + 1)
              /\ sources' = sources \o items
    BY <1>12 DEF Grounding!Search, Grounding!Web
  <2>. DEFINE items == [k \in 1..n |-> <<0, k>>]
              S == Grounding!Sections(items, Len(sources) + 1)
              l == Len(sources)
  <2>2. /\ top' = <<>> /\ rated' = <<>> /\ contextPc' = "compose"
        /\ UNCHANGED <<settings, docs, found, dense, sparse, memory, history, upstream>>
        /\ contextPc = "web"
    BY <1>12 DEF Grounding!Search
  <2>3. n \in Nat
    BY ContextAssumption
  <2>4. items \in Seq(Passages) /\ Len(items) = n
    <3>1. \A k \in 1..n : <<0, k>> \in Passages
      BY <2>3 DEF Passages
    <3>. QED
      BY <2>3, <3>1
  <2>5. sections \in Seq(Numbered) /\ sources \in Seq(Passages) /\ l \in Nat /\ Len(sections) = l
    BY CitationsAre DEF ContextType
  <2>. HIDE DEF items
  <2>6. /\ S \in Seq(Numbered) /\ Len(S) = n
        /\ \A k \in DOMAIN S :
             /\ S[k].n = l + 1 + k - 1 /\ S[k].shows = items[k]
             /\ S[k].marks = {l + 1 + k - 1} \cup Grounding!Label(items[k])
    BY <2>4, <2>5, SectionsAre
  <2>7. sections' = sections \o S /\ sources' = sources \o items
    BY <2>1 DEF items
  <2>8. sections' \in Seq(Numbered) /\ sources' \in Seq(Passages)
    <3>. HIDE DEF S
    <3>. QED
      BY <2>4, <2>5, <2>6, <2>7
  <2>9. contextPc' \in ContextPcs /\ <<>> \in Seq(Nat)
    BY <2>2 DEF ContextPcs
  <2>10. ContextType'
    BY <2>2, <2>8, <2>9 DEF ContextType
  <2>. HIDE DEF S
  <2>11. /\ Len(sections') = l + n /\ Len(sources') = l + n
         /\ DOMAIN sections' = 1..l + n /\ DOMAIN sources' = 1..l + n
         /\ \A k \in 1..l : sections'[k] = sections[k] /\ sources'[k] = sources[k]
         /\ \A k \in 1..n : sections'[l + k] = S[k] /\ sources'[l + k] = items[k]
    <3>. HIDE DEF l
    <3>1. /\ Len(sections') = l + n /\ DOMAIN sections' = 1..l + n
          /\ \A k \in 1..l : sections'[k] = sections[k]
          /\ \A k \in 1..n : sections'[l + k] = S[k]
      <4>1. sections \in Seq(Numbered) /\ S \in Seq(Numbered) /\ sections' = sections \o S
        BY <2>5, <2>6, <2>7
      <4>2. Len(sections) = l /\ Len(S) = n
        BY <2>5, <2>6
      <4>3. /\ Len(sections \o S) = Len(sections) + Len(S)
            /\ DOMAIN (sections \o S) = 1..Len(sections) + Len(S)
            /\ \A k \in 1..Len(sections) : (sections \o S)[k] = sections[k]
            /\ \A k \in 1..Len(S) : (sections \o S)[Len(sections) + k] = S[k]
        BY <4>1, ConcatIs
      <4>. QED
        BY <4>1, <4>2, <4>3
    <3>2. Len(sources) = l
      BY DEF l
    <3>3. /\ Len(sources') = l + n /\ DOMAIN sources' = 1..l + n
          /\ \A k \in 1..l : sources'[k] = sources[k]
          /\ \A k \in 1..n : sources'[l + k] = items[k]
      <4>1. sources \in Seq(Passages) /\ items \in Seq(Passages) /\ sources' = sources \o items
        BY <2>4, <2>5, <2>7
      <4>2. Len(items) = n
        BY <2>4
      <4>3. /\ Len(sources \o items) = Len(sources) + Len(items)
            /\ DOMAIN (sources \o items) = 1..Len(sources) + Len(items)
            /\ \A k \in 1..Len(sources) : (sources \o items)[k] = sources[k]
            /\ \A k \in 1..Len(items) : (sources \o items)[Len(sources) + k] = items[k]
        BY <4>1, ConcatIs
      <4>. QED
        BY <3>2, <4>1, <4>2, <4>3
    <3>. QED
      BY <3>1, <3>3
  <2>12. ASSUME NEW k \in DOMAIN sections'
         PROVE  CitedAt(sections'[k], sources')
    <3>1. CASE k \in 1..l
      <4>1. k \in DOMAIN sections /\ DOMAIN sources = 1..l
        BY <2>5, <3>1
      <4>2. CitedAt(sections[k], sources)
        BY <4>1, CitationsAre
      <4>3. sections[k].n \in 1..l /\ sections'[k] = sections[k]
        BY <2>11, <3>1, <4>1, <4>2 DEF CitedAt
      <4>4. sections[k].n \in DOMAIN sources'
        BY <2>3, <2>5, <2>11, <4>3
      <4>. QED
        BY <2>11, <4>2, <4>3, <4>4 DEF CitedAt
    <3>2. CASE k - l \in 1..n
      <4>. DEFINE j == k - l
      <4>1. j \in 1..n /\ j \in DOMAIN S /\ k = l + j
        BY <2>3, <2>5, <2>6, <2>11, <3>2
      <4>. HIDE DEF j
      <4>2. sections'[k] = S[j] /\ sources'[k] = items[j]
        BY <2>11, <4>1
      <4>3. l + 1 + j - 1 = k
        <5>1. j \in Int /\ l \in Int
          BY <2>5, <4>1
        <5>. HIDE DEF l
        <5>. QED
          BY <4>1, <5>1
      <4>4. /\ S[j].n = k /\ S[j].shows = items[j]
            /\ S[j].marks = {k} \cup Grounding!Label(items[j])
        BY <2>6, <4>1, <4>3
      <4>5. k \in DOMAIN sources'
        BY <2>11
      <4>. QED
        BY <4>2, <4>4, <4>5 DEF CitedAt
    <3>3. k \in 1..l \/ k - l \in 1..n
      BY <2>3, <2>5, <2>11
    <3>. QED
      BY <3>1, <3>2, <3>3
  <2>13. CitationsResolve'
    BY <2>11, <2>12, CitationsAre
  <2>. QED
    BY <2>10, <2>13
<1>13. CASE Grounding!Compose
  <2>1. /\ history' \in Histories /\ contextPc' = "sent" /\ sections' = <<>> /\ sources' = <<>>
        /\ UNCHANGED <<settings, docs, found, dense, sparse, top, rated>> /\ contextPc = "compose"
    BY <1>13 DEF Grounding!Compose, Grounding!NoContext
  <2>2. contextPc' \in ContextPcs
    BY <2>1 DEF ContextPcs
  <2>3. ContextType'
    BY <2>1, <2>2 DEF ContextType
  <2>4. CitationsResolve'
    BY <2>1, CitationsAre
  <2>. QED
    BY <2>3, <2>4
<1>14. CASE UNCHANGED Grounding!vars
  <2>1. UNCHANGED <<settings, docs, contextPc, found, dense, sparse, top, rated, sections, sources,
                    memory, history, upstream>>
    BY <1>14 DEF Grounding!vars
  <2>2. ContextType'
    BY <2>1 DEF ContextType
  <2>. QED
    BY <1>0, <2>1, <2>2
<1>. QED
  BY <1>1, <1>2, <1>3, <1>4, <1>5, <1>6, <1>7, <1>8, <1>9, <1>10, <1>11, <1>12, <1>13, <1>14
     DEF Grounding!Next
LEMMA ContextStarts == Grounding!Init => ContextType /\ CitationsResolve
<1>. SUFFICES ASSUME Grounding!Init
              PROVE  ContextType /\ CitationsResolve
  OBVIOUS
<1>1. /\ settings \in Settings /\ docs \in Attachments /\ contextPc = "own"
      /\ found = <<>> /\ dense = <<>> /\ sparse = <<>> /\ top = <<>>
      /\ sections = <<>> /\ sources = <<>> /\ history = <<>>
  BY DEF Grounding!Init, Grounding!Local, Grounding!NoContext
<1>2. docs \in Documents
  <2>1. docs \in [Docs -> [own : BOOLEAN, full : BOOLEAN, len : Nat, there : {TRUE}]]
    BY <1>1, ContextAssumption
  <2>. QED
    BY <2>1 DEF Documents
<1>3. ContextType
  BY <1>1, <1>2 DEF ContextType, ContextPcs, Grounding!Reading
<1>4. CitationsResolve
  BY <1>1, CitationsAre
<1>. QED
  BY <1>3, <1>4

\* The number of each section stands in the client for what the section shows, and what
\* it shows adds no other bracketed number than those its label holds
\* (retrieve_context, _full_document_context, format_context, _gather_context).
THEOREM CitationsAreResolved == Grounding!Spec => []CitationsResolve
<1>1. ContextType /\ CitationsResolve => CitationsResolve
  OBVIOUS
<1>. QED
  BY ContextStarts, ContextStep, PTL DEF Grounding!Spec

\* The variables of the context keep their types (retrieve_context, _gather_context).
THEOREM ContextTypeCorrect == Grounding!Spec => []Grounding!TypeOK
<1>1. ContextType => Grounding!TypeOK
  <2>. SUFFICES ASSUME ContextType
                PROVE  Grounding!TypeOK
    OBVIOUS
  <2>1. /\ settings \in Settings /\ history \in Histories \cup {<<>>}
        /\ contextPc \in Grounding!Reading \cup {"cut", "embed", "rank", "rerank", "web", "compose",
                                                 "sent", "failed"}
    BY DEF ContextType, ContextPcs
  <2>2. \A k \in DOMAIN found : found[k][1] \in Docs
    <3>1. found \in Seq(Docs \X Nat)
      BY DEF ContextType
    <3>. QED
      BY <3>1
  <2>3. {dense, sparse} \subseteq [DOMAIN found -> Scores] \cup {<<>>}
    <3>1. CASE contextPc = "rank"
      <4>1. dense \in [DOMAIN found -> Scores]
        BY <3>1 DEF ContextType
      <4>2. sparse \in [DOMAIN found -> Scores]
        BY <3>1, ContextAssumption DEF ContextType
      <4>. QED
        BY <4>1, <4>2
    <3>2. CASE contextPc # "rank"
      BY <3>2 DEF ContextType
    <3>. QED
      BY <3>1, <3>2
  <2>4. Grounding!ToSet(top) \subseteq DOMAIN found \/ contextPc = "web"
    <3>1. CASE contextPc = "rerank"
      BY <3>1, SameLists DEF ContextType
    <3>2. CASE contextPc \notin {"rerank", "web", "rank"}
      BY <3>2, SameLists DEF ContextType
    <3>3. CASE contextPc = "rank"
      BY <3>3, SameLists DEF ContextType
    <3>. QED
      BY <3>1, <3>2, <3>3
  <2>. QED
    BY <2>1, <2>2, <2>3, <2>4 DEF Grounding!TypeOK
<1>. QED
  BY <1>1, ContextStarts, ContextStep, PTL DEF Grounding!Spec

\* What is taken of the ranking.
LEMMA BestStep ==
    ContextType /\ [Grounding!Next]_(Grounding!vars) =>
       [/\ contextPc = "rank" =>
            LET in == Grounding!ToSet(top')
                listed == {k \in DOMAIN found : dense[k] > 0 \/ sparse[k] > 0}
            IN  /\ Grounding!Cardinality(in) = Len(top') /\ in \subseteq listed
                /\ \/ in = listed
                   \/ Len(top') = IF contextPc' = "rerank" THEN Grounding!CandidateK
                                  ELSE settings.topK
                /\ \A i \in in, j \in listed \ in :
                     ~(Grounding!Ahead(dense, j, i) /\ Grounding!Ahead(sparse, j, i))
        /\ contextPc = "rerank" =>
            LET in == Grounding!ToSet(top')
                Rated(r) == {rated'[k].score : k \in {x \in DOMAIN rated' : top[rated'[x].index] = r}}
            IN  /\ Grounding!Cardinality(in) = Len(top') /\ Len(top') <= settings.topK
                /\ rated' = <<>> => top' = Grounding!Prefix(top, settings.topK)
                /\ rated' # <<>> =>
                     \A r \in Grounding!ToSet(top) \ in : \A s \in Rated(r) :
                       /\ Len(top') = settings.topK
                       /\ \A i \in in : \E x \in Rated(i) : x >= s
       ]_(Grounding!vars)
<1>. SUFFICES ASSUME ContextType, Grounding!Next
              PROVE
        /\ contextPc = "rank" =>
            LET in == Grounding!ToSet(top')
                listed == {k \in DOMAIN found : dense[k] > 0 \/ sparse[k] > 0}
            IN  /\ Grounding!Cardinality(in) = Len(top') /\ in \subseteq listed
                /\ \/ in = listed
                   \/ Len(top') = IF contextPc' = "rerank" THEN Grounding!CandidateK
                                  ELSE settings.topK
                /\ \A i \in in, j \in listed \ in :
                     ~(Grounding!Ahead(dense, j, i) /\ Grounding!Ahead(sparse, j, i))
        /\ contextPc = "rerank" =>
            LET in == Grounding!ToSet(top')
                Rated(r) == {rated'[k].score : k \in {x \in DOMAIN rated' : top[rated'[x].index] = r}}
            IN  /\ Grounding!Cardinality(in) = Len(top') /\ Len(top') <= settings.topK
                /\ rated' = <<>> => top' = Grounding!Prefix(top, settings.topK)
                /\ rated' # <<>> =>
                     \A r \in Grounding!ToSet(top) \ in : \A s \in Rated(r) :
                       /\ Len(top') = settings.topK
                       /\ \A i \in in : \E x \in Rated(i) : x >= s
  OBVIOUS
<1>1. contextPc = "rank" => Grounding!Rank
  BY DEF Grounding!Next, Grounding!Delete, Grounding!Reading, Grounding!FullOwn, Grounding!FullShared,
     Grounding!FullTexts, Grounding!FullCut, Grounding!BlankQuery, Grounding!ReadOwn,
     Grounding!ReadShared, Grounding!Embed, Grounding!Rerank, Grounding!Search, Grounding!Compose
<1>2. contextPc = "rerank" => Grounding!Rerank
  BY DEF Grounding!Next, Grounding!Delete, Grounding!Reading, Grounding!FullOwn, Grounding!FullShared,
     Grounding!FullTexts, Grounding!FullCut, Grounding!BlankQuery, Grounding!ReadOwn,
     Grounding!ReadShared, Grounding!Embed, Grounding!Rank, Grounding!Search, Grounding!Compose
<1>3. /\ Grounding!ToSet(top') = {top'[i] : i \in DOMAIN top'}
      /\ Grounding!ToSet(top) = {top[i] : i \in DOMAIN top}
      /\ \A S : Grounding!Cardinality(S) = Cardinality(S)
  BY SameLists
<1>4. CASE contextPc = "rank"
  <2>1. LET in == Grounding!ToSet(top')
        IN  /\ Cardinality(in) = Len(top') /\ in \subseteq Scoring
               /\ \/ in = Scoring
                  \/ Len(top') = IF contextPc' = "rerank" THEN Grounding!CandidateK ELSE settings.topK
               /\ \A i \in in, j \in Scoring \ in :
                    ~(Grounding!Ahead(dense, j, i) /\ Grounding!Ahead(sparse, j, i))
    BY <1>1, <1>3, <1>4, RankBest
  <2>. QED
    BY <1>3, <1>4, <2>1 DEF Scoring
<1>5. CASE contextPc = "rerank"
  <2>1. /\ rated' \in Seq(Ratings) /\ top' = Grounding!Chosen(rated')
    BY <1>2, <1>5, RerankIs
  <2>2. \A items \in Seq(Ratings) : KeepsBest(Grounding!Chosen(items), items)
    <3>1. SUFFICES ASSUME NEW items \in Seq(Ratings)
                   PROVE  KeepsBest(Grounding!Chosen(items), items)
      OBVIOUS
    <3>. QED
      BY <1>5, ChosenAreBest DEF KeepsBest
  <2>3. KeepsBest(top', rated')
    BY <2>1, <2>2, Zenon
  <2>. QED
    BY <1>3, <1>5, <2>3, Zenon DEF KeepsBest
<1>. QED
  BY <1>4, <1>5

\* The excerpts are the best there are: as many rows that score as fit, none beaten in both
\* rankings by one left out, and the reranker reorders candidates without losing one it
\* rated better (_hybrid_rank, _rerank).
THEOREM ExcerptsStayBest == Grounding!Spec => ExcerptsAreBest
BY ContextStarts, ContextStep, BestStep, PTL
   DEF Grounding!Spec, ExcerptsAreBest, Grounding!ExcerptsAreBest

\* g sums the newest k elements of s, for every k.
Sums(g, s) ==
    /\ g \in [0..Len(s) -> Nat] /\ g[0] = 0
    /\ \A k \in 1..Len(s) : g[k] = g[k - 1] + s[Len(s) - k + 1]

\* The sums of the newest elements of a list of naturals exist.
LEMMA NewestSums ==
    ASSUME NEW s \in Seq(Nat)
    PROVE  Sums(Grounding!Newest(s), s)
<1>. DEFINE n == Len(s)
            Upto(f, m) == /\ f \in [0..m -> Nat] /\ f[0] = 0
                          /\ \A k \in 1..m : f[k] = f[k - 1] + s[n - k + 1]
            Missing == {m \in 0..n : \A f \in [0..m -> Nat] : ~Upto(f, m)}
<1>1. n \in Nat /\ DOMAIN s = 1..n /\ \A k \in 1..n : s[n - k + 1] \in Nat
  OBVIOUS
<1>2. Missing = {}
  <2>. SUFFICES ASSUME Missing # {} PROVE FALSE
    OBVIOUS
  <2>1. PICK m \in Missing : \A k \in Missing : m =< k
    <3>1. Missing \in SUBSET Nat
      BY <1>1
    <3>. HIDE DEF Missing
    <3>. QED
      BY <3>1, LeastOfNats
  <2>2. m \in 0..n
    OBVIOUS
  <2>3. m # 0
    <3>1. Upto([k \in 0..0 |-> 0], 0) /\ [k \in 0..0 |-> 0] \in [0..0 -> Nat]
      OBVIOUS
    <3>. QED
      BY <3>1
  <2>4. m - 1 \in 0..n /\ m - 1 \notin Missing
    <3>1. m - 1 \in 0..n /\ ~(m =< m - 1)
      BY <1>1, <2>2, <2>3
    <3>. HIDE DEF Missing
    <3>. QED
      BY <2>1, <3>1
  <2>5. PICK f \in [0..(m - 1) -> Nat] : Upto(f, m - 1)
    BY <2>4
  <2>. DEFINE g == [k \in 0..m |-> IF k = m THEN f[m - 1] + s[n - m + 1] ELSE f[k]]
  <2>6. m \in 1..n /\ f[m - 1] \in Nat /\ s[n - m + 1] \in Nat
    BY <1>1, <2>2, <2>3
  <2>7. g \in [0..m -> Nat]
    <3>1. \A k \in 0..m : k # m => k \in 0..(m - 1) /\ f[k] \in Nat
      BY <2>6
    <3>2. f[m - 1] + s[n - m + 1] \in Nat
      BY <2>6
    <3>. QED
      BY <3>1, <3>2
  <2>8. g[0] = 0
    BY <2>5, <2>6
  <2>9. ASSUME NEW k \in 1..m PROVE g[k] = g[k - 1] + s[n - k + 1]
    <3>1. CASE k = m
      <4>1. g[k] = f[m - 1] + s[n - m + 1] /\ g[k - 1] = f[m - 1]
        BY <2>6, <3>1
      <4>. QED
        BY <3>1, <4>1
    <3>2. CASE k # m
      <4>1. k \in 1..(m - 1) /\ k - 1 # m /\ k \in 0..m /\ k - 1 \in 0..m
        BY <2>6, <3>2
      <4>2. g[k] = f[k] /\ g[k - 1] = f[k - 1]
        BY <3>2, <4>1
      <4>. QED
        BY <2>5, <4>1, <4>2
    <3>. QED
      BY <3>1, <3>2
  <2>. HIDE DEF g
  <2>. QED
    BY <2>1, <2>7, <2>8, <2>9
<1>3. PICK f \in [0..n -> Nat] : Upto(f, n)
  <2>1. n \in 0..n /\ n \notin Missing
    <3>. HIDE DEF Missing
    <3>. QED
      BY <1>1, <1>2
  <2>. QED
    BY <2>1
<1>4. f = [k \in 0..n |-> IF k = 0 THEN 0 ELSE f[k - 1] + s[n - k + 1]]
  <2>1. ASSUME NEW k \in 0..n
        PROVE  f[k] = IF k = 0 THEN 0 ELSE f[k - 1] + s[n - k + 1]
    BY <1>1, <1>3
  <2>. QED
    BY <1>3, <2>1
<1>5. Grounding!Newest(s) = CHOOSE g : g = [k \in 0..n |-> IF k = 0 THEN 0 ELSE g[k - 1] + s[n - k + 1]]
  BY DEF Grounding!Newest
<1>. DEFINE g == Grounding!Newest(s)
<1>6. g = [k \in 0..n |-> IF k = 0 THEN 0 ELSE g[k - 1] + s[n - k + 1]]
  BY <1>4, <1>5
<1>. HIDE DEF g
<1>7. DOMAIN g = 0..n /\ g[0] = 0 /\ \A k \in 1..n : g[k] = g[k - 1] + s[n - k + 1]
  <2>1. DOMAIN g = 0..n
    BY <1>6
  <2>2. \A k \in 0..n : g[k] = IF k = 0 THEN 0 ELSE g[k - 1] + s[n - k + 1]
    BY <1>6
  <2>3. 0 \in 0..n /\ \A k \in 1..n : k \in 0..n /\ k # 0
    BY <1>1
  <2>. QED
    BY <2>1, <2>2, <2>3
<1>. DEFINE Apart == {k \in 0..n : g[k] # f[k]}
<1>8. Apart = {}
  <2>. SUFFICES ASSUME Apart # {} PROVE FALSE
    OBVIOUS
  <2>1. PICK m \in Apart : \A k \in Apart : m =< k
    <3>1. Apart \in SUBSET Nat
      BY <1>1
    <3>. HIDE DEF Apart
    <3>. QED
      BY <3>1, LeastOfNats
  <2>2. m \in 1..n /\ m - 1 \in 0..n
    BY <1>1, <1>3, <1>7
  <2>3. g[m - 1] = f[m - 1]
    BY <2>1, <2>2
  <2>. QED
    BY <1>3, <1>7, <2>2, <2>3
<1>9. \A k \in 0..n : g[k] = f[k]
  BY <1>8
<1>10. g \in [0..n -> Nat]
  <2>1. g = [k \in 0..n |-> g[k]]
    BY <1>6, <1>7
  <2>2. \A k \in 0..n : g[k] \in Nat
    BY <1>9
  <2>. QED
    BY <2>1, <2>2
<1>. QED
  BY <1>7, <1>10 DEF g, Sums

\* The more of the newest, the greater their sum.
LEMMA SumsGrow ==
    ASSUME NEW s \in Seq(Nat), NEW g, Sums(g, s), NEW j \in 0..Len(s)
    PROVE  \A k \in j..Len(s) : g[j] <= g[k]
<1>. DEFINE n == Len(s)
            Short == {k \in j..n : g[k] < g[j]}
<1>1. n \in Nat /\ j \in 0..n /\ \A k \in 1..n : s[n - k + 1] \in Nat
  OBVIOUS
<1>2. /\ \A k \in 0..n : g[k] \in Nat
      /\ \A k \in 1..n : g[k] = g[k - 1] + s[n - k + 1]
  BY DEF Sums
<1>. HIDE DEF n
<1>3. Short = {}
  <2>. SUFFICES ASSUME Short # {} PROVE FALSE
    OBVIOUS
  <2>1. PICK m \in Short : \A k \in Short : m =< k
    <3>1. Short \in SUBSET Nat
      BY <1>1
    <3>. HIDE DEF Short
    <3>. QED
      BY <3>1, LeastOfNats
  <2>2. m \in j..n /\ m # j /\ m - 1 \in j..n /\ g[m] < g[j]
    BY <1>1, <1>2
  <2>3. g[j] <= g[m - 1]
    <3>1. m - 1 \notin Short
      BY <1>1, <2>1, <2>2
    <3>2. g[m - 1] \in Nat /\ g[j] \in Nat
      BY <1>1, <1>2, <2>2
    <3>. QED
      BY <2>2, <3>1, <3>2
  <2>4. g[m] = g[m - 1] + s[n - m + 1] /\ s[n - m + 1] \in Nat /\ g[m - 1] \in Nat /\ g[j] \in Nat
    BY <1>1, <1>2, <2>2
  <2>. QED
    BY <2>2, <2>3, <2>4
<1>4. \A k \in j..n : g[k] \in Nat /\ g[j] \in Nat
  BY <1>1, <1>2
<1>5. \A k \in j..n : g[j] <= g[k]
  BY <1>3, <1>4
<1>. QED
  BY <1>5 DEF n

\* The end of a list, from its place a on.
LEMMA FromIs ==
    ASSUME NEW s \in Seq(Nat), NEW a \in 1..Len(s)
    PROVE  /\ Grounding!From(s, a) \in Seq(Nat)
           /\ Len(Grounding!From(s, a)) = Len(s) - a + 1
           /\ \A k \in 1..(Len(s) - a + 1) : Grounding!From(s, a)[k] = s[k + a - 1]
BY SMTT(30) DEF Grounding!From

\* The newest of the end of a list are the newest of the list.
LEMMA SumsOfEnd ==
    ASSUME NEW h \in Seq(Nat), NEW a \in 1..Len(h)
    PROVE  LET s == Grounding!From(h, a)
           IN  /\ s \in Seq(Nat) /\ Len(s) = Len(h) - a + 1
               /\ \A k \in 0..Len(s) : Grounding!Newest(s)[k] = Grounding!Newest(h)[k]
<1>. DEFINE s == Grounding!From(h, a)
            n == Len(h)
            l == Len(s)
            f == Grounding!Newest(h)
            g == Grounding!Newest(s)
            Apart == {k \in 0..l : g[k] # f[k]}
<1>1. /\ s \in Seq(Nat) /\ l = n - a + 1 /\ n \in Nat /\ l \in Nat
      /\ \A k \in 1..l : s[k] = h[k + a - 1]
  <2>1. s \in Seq(Nat) /\ l = n - a + 1 /\ \A k \in 1..(n - a + 1) : s[k] = h[k + a - 1]
    BY FromIs, Zenon
  <2>2. n \in Nat /\ a \in 1..n
    OBVIOUS
  <2>. HIDE DEF s, l, n
  <2>. QED
    BY <2>1, <2>2
<1>2. Sums(f, h) /\ Sums(g, s)
  BY <1>1, NewestSums
<1>. HIDE DEF s, f, g
<1>3. \A k \in 1..l : /\ g[k] = g[k - 1] + s[l - k + 1] /\ f[k] = f[k - 1] + h[n - k + 1]
                      /\ s[l - k + 1] = h[n - k + 1]
  <2>. TAKE k \in 1..l
  <2>1. k \in 1..n /\ l - k + 1 \in 1..l /\ l - k + 1 + a - 1 = n - k + 1
    BY <1>1
  <2>. QED
    BY <1>1, <1>2, <2>1 DEF Sums
<1>4. g[0] = 0 /\ f[0] = 0
  BY <1>2 DEF Sums
<1>5. Apart = {}
  <2>. SUFFICES ASSUME Apart # {} PROVE FALSE
    OBVIOUS
  <2>1. PICK m \in Apart : \A k \in Apart : m =< k
    <3>1. Apart \in SUBSET Nat
      BY <1>1
    <3>. HIDE DEF Apart
    <3>. QED
      BY <3>1, LeastOfNats
  <2>2. m \in 1..l /\ m - 1 \in 0..l
    <3>1. m \in 0..l /\ g[m] # f[m]
      OBVIOUS
    <3>2. m # 0
      BY <1>4, <3>1
    <3>. HIDE DEF l, Apart
    <3>. QED
      BY <1>1, <3>1, <3>2
  <2>3. g[m - 1] = f[m - 1]
    BY <1>1, <2>1, <2>2
  <2>. QED
    BY <1>3, <2>2, <2>3
<1>. QED
  BY <1>1, <1>5 DEF s, f, g

\* A history is cut before its oldest messages.
LEMMA LimitedIs ==
    ASSUME ContextType, NEW h \in Seq(Nat), h # <<>>
    PROVE  \E a \in 1..Len(h) :
             /\ Grounding!Limited(h) = Grounding!From(h, a)
             /\ settings.messages = 0 \/ Len(h) - a + 1 <= settings.messages
             /\ a > 1 => settings.messages = Len(h) - a + 1
<1>. DEFINE n == Len(h)
            m == settings.messages
<1>1. n \in Nat /\ n > 0 /\ m \in Nat
  BY SettingsAre DEF ContextType
<1>2. h = Grounding!From(h, 1)
  BY DEF Grounding!From
<1>3. Grounding!Limited(h) = IF m > 0 /\ n > m THEN Grounding!From(h, n - m + 1) ELSE h
  BY DEF Grounding!Limited
<1>. HIDE DEF n, m
<1>4. CASE m > 0 /\ n > m
  <2>1. n - m + 1 \in 1..n /\ n - (n - m + 1) + 1 = m
    BY <1>1, <1>4
  <2>. QED
    BY <1>1, <1>3, <1>4, <2>1 DEF n, m
<1>5. CASE ~(m > 0 /\ n > m)
  <2>1. 1 \in 1..n /\ (m = 0 \/ n - 1 + 1 <= m) /\ ~(1 > 1)
    BY <1>1, <1>5
  <2>2. Grounding!Limited(h) = Grounding!From(h, 1)
    BY <1>2, <1>3, <1>5
  <2>. QED
    BY <2>1, <2>2 DEF n, m
<1>. QED
  BY <1>4, <1>5

\* The end of an end is an end.
LEMMA EndOfEnd ==
    ASSUME NEW h \in Seq(Nat), NEW a \in 1..Len(h), NEW b \in 1..(Len(h) - a + 1)
    PROVE  Grounding!From(Grounding!From(h, a), b) = Grounding!From(h, a + b - 1)
<1>. DEFINE s == Grounding!From(h, a)
            n == Len(h)
<1>1. /\ s \in Seq(Nat) /\ Len(s) = n - a + 1 /\ n \in Nat
      /\ \A k \in 1..(n - a + 1) : s[k] = h[k + a - 1]
  <2>1. n \in Nat
    OBVIOUS
  <2>. QED
    BY <2>1, FromIs, Zenon
<1>2. /\ Grounding!From(s, b) \in Seq(Nat) /\ Len(Grounding!From(s, b)) = n - a - b + 2
      /\ \A k \in 1..(n - a - b + 2) : Grounding!From(s, b)[k] = s[k + b - 1]
  <2>1. b \in 1..Len(s) /\ Len(s) - b + 1 = n - a - b + 2
    BY <1>1
  <2>. HIDE DEF s
  <2>. QED
    BY <1>1, <2>1, FromIs
<1>3. /\ Grounding!From(h, a + b - 1) \in Seq(Nat)
      /\ Len(Grounding!From(h, a + b - 1)) = n - a - b + 2
      /\ \A k \in 1..(n - a - b + 2) : Grounding!From(h, a + b - 1)[k] = h[k + a + b - 2]
  <2>1. /\ a + b - 1 \in 1..n /\ n - (a + b - 1) + 1 = n - a - b + 2
        /\ \A k \in 1..(n - a - b + 2) : k + (a + b - 1) - 1 = k + a + b - 2
    <3>1. a \in Nat /\ b \in Nat /\ a >= 1 /\ b >= 1 /\ a + b - 1 <= n
      BY <1>1
    <3>. HIDE DEF n, s
    <3>. QED
      BY <1>1, <3>1
  <2>. HIDE DEF n
  <2>2. n = Len(h)
    BY DEF n
  <2>3. /\ Grounding!From(h, a + b - 1) \in Seq(Nat)
        /\ Len(Grounding!From(h, a + b - 1)) = n - (a + b - 1) + 1
        /\ \A k \in 1..(n - (a + b - 1) + 1) :
             Grounding!From(h, a + b - 1)[k] = h[k + (a + b - 1) - 1]
    BY <2>1, <2>2, FromIs
  <2>. QED
    BY <2>1, <2>3
<1>. HIDE DEF s
<1>4. \A k \in 1..(n - a - b + 2) : s[k + b - 1] = h[k + a + b - 2]
  <2>. TAKE k \in 1..(n - a - b + 2)
  <2>1. k + b - 1 \in 1..(n - a + 1) /\ k + b - 1 + a - 1 = k + a + b - 2
    BY <1>1
  <2>. QED
    BY <1>1, <2>1
<1>. DEFINE x == Grounding!From(s, b)
            y == Grounding!From(h, a + b - 1)
<1>5. x \in Seq(Nat) /\ y \in Seq(Nat) /\ Len(x) = Len(y)
      /\ \A k \in 1..Len(x) : x[k] = y[k]
  BY <1>2, <1>3, <1>4
<1>. HIDE DEF x, y
<1>6. x = y
  <2>1. x = [k \in 1..Len(x) |-> x[k]] /\ y = [k \in 1..Len(y) |-> y[k]]
    BY <1>5
  <2>2. [k \in 1..Len(x) |-> x[k]] = [k \in 1..Len(x) |-> y[k]]
    BY <1>5
  <2>3. Len(x) = Len(y)
    BY <1>5
  <2>. QED
    BY <2>1, <2>2, <2>3, Zenon
<1>. QED
  BY <1>6 DEF x, y, s

\* What is sent of a history: its longest end within both limits, or its newest message.
LEMMA BudgetIs ==
    ASSUME ContextType, NEW h \in Seq(Nat), h # <<>>
    PROVE  \E k \in 1..Len(h) :
             /\ Grounding!Budget(h) = Grounding!From(h, k)
             /\ settings.messages = 0 \/ Len(h) - k + 1 <= settings.messages
             /\ \/ settings.tokens = 0 \/ Len(h) - k + 1 = 1
                \/ Grounding!Newest(h)[Len(h) - k + 1] <= settings.tokens
             /\ \A j \in 1..(k - 1) :
                  \/ settings.messages # 0 /\ Len(h) - j + 1 > settings.messages
                  \/ /\ settings.tokens # 0 /\ Len(h) - j + 1 # 1
                     /\ Grounding!Newest(h)[Len(h) - j + 1] > settings.tokens
<1>. DEFINE n == Len(h)
            f == Grounding!Newest(h)
            t == settings.tokens
            m == settings.messages
<1>1. n \in Nat /\ n > 0 /\ m \in Nat /\ t \in Nat
  BY SettingsAre DEF ContextType
<1>2. PICK a \in 1..n : /\ Grounding!Limited(h) = Grounding!From(h, a)
                        /\ m = 0 \/ n - a + 1 <= m
                        /\ a > 1 => m = n - a + 1
  BY LimitedIs
<1>. DEFINE s == Grounding!From(h, a)
            l == n - a + 1
            high == {k \in 2..l : f[k] > t}
<1>3. s \in Seq(Nat) /\ Len(s) = l /\ \A k \in 0..l : Grounding!Newest(s)[k] = f[k]
  BY SumsOfEnd
<1>4. l \in 1..n /\ l \in Nat
  BY <1>1
<1>5. Grounding!Budget(h) = IF t = 0 THEN s ELSE Grounding!KeptBefore(s, high)
  <2>1. {k \in 2..Len(s) : Grounding!Newest(s)[k] > t} = high
    <3>1. \A k \in 2..l : Grounding!Newest(s)[k] = f[k]
      BY <1>3, <1>4
    <3>2. Len(s) = l
      BY <1>3
    <3>. HIDE DEF s, f, t, l
    <3>. QED
      BY <3>1, <3>2
  <2>. QED
    BY <1>2, <2>1 DEF Grounding!Budget
<1>6. \A i \in 0..n : f[i] \in Nat /\ \A k \in i..n : f[i] <= f[k]
  <2>1. Sums(f, h)
    BY NewestSums
  <2>. HIDE DEF f
  <2>. QED
    BY <2>1, SumsGrow DEF Sums
<1>7. \A j \in 1..(a - 1) : m # 0 /\ n - j + 1 > m
  BY <1>1, <1>2
<1>8. CASE t = 0 \/ high = {}
  <2>1. Grounding!Budget(h) = s
    BY <1>5, <1>8 DEF Grounding!KeptBefore
  <2>2. t = 0 \/ l = 1 \/ f[l] <= t
    <3>1. l # 1 => l \in 2..l
      BY <1>4
    <3>2. l \in 0..n /\ f[l] \in Nat
      BY <1>4, <1>6
    <3>. HIDE DEF f, l
    <3>. QED
      BY <1>1, <1>8, <3>1, <3>2
  <2>. HIDE DEF f, t, m, high
  <2>. QED
    BY <1>2, <1>7, <2>1, <2>2 DEF f, t, m
<1>9. CASE t # 0 /\ high # {}
  <2>1. PICK c \in high : \A k \in high : c <= k
    <3>1. high \in SUBSET Nat
      BY <1>4
    <3>. HIDE DEF high
    <3>. QED
      BY <1>9, <3>1, LeastOfNats
  <2>2. (CHOOSE k \in high : \A j \in high : k <= j) = c
    <3>1. high \in SUBSET Nat
      BY <1>4
    <3>. HIDE DEF high
    <3>2. \A k \in high : (\A j \in high : k <= j) => k = c
      BY <2>1, <3>1
    <3>. QED
      BY <2>1, <3>2
  <2>3. c \in 2..l /\ f[c] > t
    BY <2>1
  <2>4. Grounding!Budget(h) = Grounding!From(s, l + 2 - c)
    <3>. HIDE DEF s, high, l, f, t
    <3>. QED
      BY <1>3, <1>5, <1>9, <2>2 DEF Grounding!KeptBefore
  <2>. DEFINE k == n + 2 - c
  <2>5. /\ l + 2 - c \in 1..l /\ a + (l + 2 - c) - 1 = k /\ k \in 1..n
        /\ n - k + 1 = c - 1 /\ k \in a..n
    BY <1>1, <1>4, <2>3
  <2>6. Grounding!Budget(h) = Grounding!From(h, k)
    <3>1. Grounding!From(s, l + 2 - c) = Grounding!From(h, a + (l + 2 - c) - 1)
      BY <2>5, EndOfEnd
    <3>. QED
      BY <2>4, <2>5, <3>1
  <2>7. m = 0 \/ n - k + 1 <= m
    <3>1. c - 1 <= n - a + 1 /\ c \in Nat
      BY <1>1, <2>3
    <3>2. n - k + 1 = c - 1
      BY <2>5
    <3>3. m = 0 \/ n - a + 1 <= m
      BY <1>2
    <3>. HIDE DEF m, k, n
    <3>. QED
      BY <1>1, <3>1, <3>2, <3>3
  <2>8. n - k + 1 = 1 \/ f[n - k + 1] <= t
    <3>1. CASE c = 2
      BY <2>5, <3>1
    <3>2. CASE c # 2
      <4>1. c - 1 \in 2..l /\ ~(c <= c - 1) /\ c - 1 \in 0..n
        BY <1>4, <2>3, <3>2
      <4>2. ~(f[c - 1] > t) /\ f[c - 1] \in Nat
        BY <1>6, <2>1, <4>1
      <4>3. n - k + 1 = c - 1
        BY <2>5
      <4>. DEFINE z == f[c - 1]
      <4>4. ~(z > t) /\ z \in Nat /\ t \in Nat
        BY <1>1, <4>2
      <4>. HIDE DEF f, t, k, high, l, z
      <4>5. z <= t
        BY <4>4
      <4>. QED
        BY <4>3, <4>5 DEF z
    <3>. QED
      BY <3>1, <3>2
  <2>9. ASSUME NEW j \in 1..(k - 1)
        PROVE  n - j + 1 # 1 /\ f[n - j + 1] > t
    <3>1. n - j + 1 \in c..n /\ c \in 0..n /\ n - j + 1 # 1
      <4>1. c \in Nat /\ c >= 2 /\ c <= n
        BY <1>4, <2>3
      <4>2. j \in Nat /\ j >= 1 /\ j <= n + 1 - c
        BY <1>1, <4>1
      <4>3. n \in Nat /\ c \in Nat
        BY <1>1, <4>1
      <4>. HIDE DEF n, k, l, high, f, t, m, s
      <4>. QED
        BY <4>1, <4>2, <4>3
    <3>2. f[c] <= f[n - j + 1] /\ f[c] \in Nat /\ f[n - j + 1] \in Nat
      BY <1>1, <1>6, <3>1
    <3>3. f[c] > t /\ t \in Nat
      BY <1>1, <2>3
    <3>. DEFINE x == n - j + 1
    <3>4. f[c] <= f[x] /\ f[c] \in Nat /\ f[x] \in Nat /\ x # 1
      BY <3>1, <3>2
    <3>. HIDE DEF f, t, x
    <3>5. x # 1 /\ f[x] > t
      BY <3>3, <3>4
    <3>. QED
      BY <3>5 DEF x
  <2>. HIDE DEF f, t, m, k, high
  <2>. QED
    BY <1>9, <2>5, <2>6, <2>7, <2>8, <2>9 DEF f, t, m
<1>. QED
  BY <1>8, <1>9

\* Composing is the one step that sends: the context, the history within the budget, and
\* the new message.
LEMMA SentIs ==
    ASSUME ContextType, [Grounding!Next]_(Grounding!vars), contextPc' = "sent", contextPc # "sent"
    PROVE  /\ memory' \in BOOLEAN /\ history' \in Histories /\ extra' \in Histories
           /\ upstream'.context <=> memory' \/ sections # <<>>
           /\ upstream'.messages = Grounding!Budget(history') \o extra'
<1>1. CASE Grounding!Compose
  <2>1. upstream' = [context |-> memory' \/ sections # <<>>,
                     messages |-> Grounding!Budget(history') \o extra']
    BY <1>1 DEF Grounding!Compose, Grounding!NoContext
  <2>2. memory' \in BOOLEAN /\ history' \in Histories /\ extra' \in Histories
    BY <1>1 DEF Grounding!Compose
  <2>. QED
    BY <2>1, <2>2
<1>2. CASE UNCHANGED Grounding!vars
  BY <1>2 DEF Grounding!vars
<1>3. CASE Grounding!Delete
  BY <1>3 DEF Grounding!Delete
<1>4. CASE Grounding!FullOwn
  BY <1>4 DEF Grounding!FullOwn, Grounding!Read
<1>5. CASE Grounding!FullShared
  BY <1>5 DEF Grounding!FullShared, Grounding!Read
<1>6. CASE Grounding!FullTexts
  BY <1>6 DEF Grounding!FullTexts
<1>7. CASE Grounding!FullCut
  BY <1>7 DEF Grounding!FullCut, Grounding!Found
<1>8. CASE Grounding!BlankQuery
  BY <1>8 DEF Grounding!BlankQuery, Grounding!Read
<1>9. CASE Grounding!ReadOwn
  BY <1>9 DEF Grounding!ReadOwn, Grounding!Read
<1>10. CASE Grounding!ReadShared
  BY <1>10 DEF Grounding!ReadShared, Grounding!Read
<1>11. CASE Grounding!Embed
  BY <1>11 DEF Grounding!Embed, Grounding!Found
<1>12. CASE Grounding!Rank
  BY <1>12 DEF Grounding!Rank, Grounding!Found
<1>13. CASE Grounding!Rerank
  BY <1>13 DEF Grounding!Rerank, Grounding!Found
<1>14. CASE Grounding!Search
  BY <1>14 DEF Grounding!Search
<1>. QED
  BY <1>1, <1>2, <1>3, <1>4, <1>5, <1>6, <1>7, <1>8, <1>9, <1>10, <1>11, <1>12, <1>13, <1>14 DEF Grounding!Next

\* With the settings st, b is the longest run of the newest messages of h within both
\* limits, the newest whatever its size.
Replays(st, b, h) ==
    LET Fits(s) == /\ st.messages = 0 \/ Len(s) <= st.messages
                   /\ \/ st.tokens = 0 \/ Grounding!Newest(s)[Len(s)] <= st.tokens
                      \/ Len(s) = 1
        fitting == {k \in DOMAIN h : Fits(Grounding!From(h, k))}
    IN  IF h = <<>> THEN b = <<>>
        ELSE \E k \in fitting : b = Grounding!From(h, k) /\ \A j \in fitting : k <= j

\* Whatever a history holds, that is what is sent of it.
LEMMA BudgetKeeps ==
    ASSUME ContextType, NEW h \in Seq(Nat), NEW b, b = Grounding!Budget(h)
    PROVE  Replays(settings, b, h)
<1>. DEFINE n == Len(h)
            f == Grounding!Newest(h)
            t == settings.tokens
            m == settings.messages
            Fits(s) == /\ m = 0 \/ Len(s) <= m
                       /\ t = 0 \/ Grounding!Newest(s)[Len(s)] <= t \/ Len(s) = 1
            fitting == {k \in DOMAIN h : Fits(Grounding!From(h, k))}
<1>1. n \in Nat /\ DOMAIN h = 1..n /\ t \in Nat /\ m \in Nat
  BY SettingsAre DEF ContextType
<1>2. CASE h = <<>>
  <2>1. n = 0 /\ ~(m > 0 /\ n > m)
    BY <1>1, <1>2
  <2>2. Grounding!Limited(h) = h
    BY <2>1 DEF Grounding!Limited
  <2>3. Grounding!Budget(h) = IF t = 0 THEN h ELSE Grounding!KeptBefore(h, {})
    <3>1. {k \in 2..Len(h) : Grounding!Newest(h)[k] > settings.tokens} = {}
      BY <2>1
    <3>. QED
      BY <2>2, <3>1 DEF Grounding!Budget
  <2>. QED
    BY <1>2, <2>3 DEF Grounding!KeptBefore, Replays
<1>3. CASE h # <<>>
  <2>1. PICK k \in 1..n :
             /\ Grounding!Budget(h) = Grounding!From(h, k)
             /\ m = 0 \/ n - k + 1 <= m
             /\ t = 0 \/ n - k + 1 = 1 \/ f[n - k + 1] <= t
             /\ \A j \in 1..(k - 1) :
                  \/ m # 0 /\ n - j + 1 > m
                  \/ t # 0 /\ n - j + 1 # 1 /\ f[n - j + 1] > t
    BY <1>3, BudgetIs
  <2>2. \A j \in 1..n :
           /\ Len(Grounding!From(h, j)) = n - j + 1
           /\ Grounding!Newest(Grounding!From(h, j))[n - j + 1] = f[n - j + 1]
    <3>. TAKE j \in 1..n
    <3>1. /\ Len(Grounding!From(h, j)) = n - j + 1
          /\ \A i \in 0..(n - j + 1) : Grounding!Newest(Grounding!From(h, j))[i] = f[i]
      BY SumsOfEnd
    <3>2. n - j + 1 \in 0..(n - j + 1)
      BY <1>1
    <3>. QED
      BY <3>1, <3>2
  <2>3. \A j \in 1..n : j \in fitting <=> /\ m = 0 \/ n - j + 1 <= m
                                          /\ t = 0 \/ f[n - j + 1] <= t \/ n - j + 1 = 1
    <3>. HIDE DEF f, t, m
    <3>. QED
      BY <1>1, <2>2
  <2>4. k \in fitting
    <3>. HIDE DEF f, t, m, fitting
    <3>. QED
      BY <2>1, <2>3
  <2>5. \A j \in fitting : k <= j
    <3>. TAKE j \in fitting
    <3>1. j \in 1..n
      BY <1>1
    <3>2. j \notin 1..(k - 1)
      <4>. SUFFICES ASSUME j \in 1..(k - 1) PROVE FALSE
        OBVIOUS
      <4>1. /\ m = 0 \/ n - j + 1 <= m
            /\ t = 0 \/ f[n - j + 1] <= t \/ n - j + 1 = 1
        <5>. HIDE DEF f, t, m, fitting
        <5>. QED
          BY <2>3, <3>1
      <4>2. \/ m # 0 /\ n - j + 1 > m
            \/ t # 0 /\ n - j + 1 # 1 /\ f[n - j + 1] > t
        BY <2>1
      <4>3. n - j + 1 \in 0..n
        BY <1>1, <3>1
      <4>4. f[n - j + 1] \in Nat
        <5>1. Sums(f, h)
          BY NewestSums
        <5>. HIDE DEF f
        <5>. QED
          BY <4>3, <5>1 DEF Sums
      <4>. DEFINE x == n - j + 1
      <4>5. x \in Nat /\ f[x] \in Nat
        BY <1>1, <4>3, <4>4
      <4>6. (m = 0 \/ x <= m) /\ (t = 0 \/ f[x] <= t \/ x = 1)
        BY <4>1
      <4>7. (m # 0 /\ x > m) \/ (t # 0 /\ x # 1 /\ f[x] > t)
        BY <4>2
      <4>. HIDE DEF f, t, m, x
      <4>. QED
        BY <1>1, <4>5, <4>6, <4>7
    <3>. QED
      BY <1>1, <3>1, <3>2
  <2>. QED
    BY <1>3, <2>1, <2>4, <2>5 DEF Replays
<1>. QED
  BY <1>2, <1>3

LEMMA BudgetStep ==
    ContextType /\ CitationsResolve /\ [Grounding!Next]_(Grounding!vars) =>
       [contextPc' = "sent" /\ contextPc # "sent" =>
         LET Fits(s) == /\ settings.messages = 0 \/ Len(s) <= settings.messages
                        /\ settings.tokens = 0 \/ Grounding!Newest(s)[Len(s)] <= settings.tokens \/ Len(s) = 1
             fitting == {k \in DOMAIN history' : Fits(Grounding!From(history', k))}
         IN  /\ upstream'.context <=> memory' \/ sources # <<>>
             /\ IF history' = <<>> THEN upstream'.messages = extra'
                ELSE \E k \in fitting : /\ upstream'.messages = Grounding!From(history', k) \o extra'
                                        /\ \A j \in fitting : k <= j
       ]_(Grounding!vars)
<1>. DEFINE Fits(s) == /\ settings.messages = 0 \/ Len(s) <= settings.messages
                       /\ \/ settings.tokens = 0
                          \/ Grounding!Newest(s)[Len(s)] <= settings.tokens
                          \/ Len(s) = 1
            fitting == {k \in DOMAIN history' : Fits(Grounding!From(history', k))}
<1>. SUFFICES ASSUME ContextType, CitationsResolve, [Grounding!Next]_(Grounding!vars),
                     contextPc' = "sent", contextPc # "sent"
              PROVE  /\ upstream'.context <=> memory' \/ sources # <<>>
                     /\ IF history' = <<>> THEN upstream'.messages = extra'
                        ELSE \E k \in fitting :
                               /\ upstream'.messages = Grounding!From(history', k) \o extra'
                               /\ \A j \in fitting : k <= j
  OBVIOUS
<1>. DEFINE b == Grounding!Budget(history')
<1>1. /\ upstream'.context <=> memory' \/ sections # <<>>
      /\ upstream'.messages = b \o extra'
      /\ history' \in Seq(Nat) /\ extra' \in Seq(Nat)
  BY SentIs, ContextAssumption
<1>2. sections # <<>> <=> sources # <<>>
  <2>1. sections \in Seq(Numbered) /\ sources \in Seq(Passages) /\ Len(sections) = Len(sources)
    BY CitationsAre DEF ContextType
  <2>. QED
    BY <2>1
<1>3. Replays(settings, b, history')
  BY <1>1, BudgetKeeps
<1>4. CASE history' = <<>>
  <2>1. b = <<>>
    BY <1>3, <1>4 DEF Replays
  <2>2. b \o extra' = extra'
    BY <1>1, <2>1
  <2>. QED
    BY <1>1, <1>2, <1>4, <2>2
<1>5. CASE history' # <<>>
  <2>1. \E k \in fitting : b = Grounding!From(history', k) /\ \A j \in fitting : k <= j
    BY <1>3, <1>5, Zenon DEF Replays
  <2>. QED
    BY <1>1, <1>2, <1>5, <2>1, Zenon
<1>. QED
  BY <1>4, <1>5

\* A request holds the context whenever there is a section or a memory, then the longest
\* run of the newest messages that both limits allow, then the message just sent, which
\* no limit bounds (_gather_context, _budget_history, _build_upstream_messages).
THEOREM BudgetKeepsTheNewest == Grounding!Spec => BudgetKeepsNewest
BY ContextStarts, ContextStep, BudgetStep, PTL
   DEF Grounding!Spec, BudgetKeepsNewest, Grounding!BudgetKeepsNewest

-----------------------------------------------------------------------------
(* A document that comes in. *)

\* The last multiple of s up to a.
LEMMA LastMultiple ==
    ASSUME NEW a \in Nat, NEW s \in Nat \ {0}
    PROVE  a % s \in 0..(s - 1) /\ a % s <= a /\ (a - (a % s)) % s = 0
<1>1. a = s * (a \div s) + (a % s) /\ a \div s \in Nat
  OBVIOUS
<1>2. \A q \in Nat : (s * q) % s = 0
  OBVIOUS
<1>3. a % s \in 0..(s - 1) /\ a % s <= a
  OBVIOUS
<1>. DEFINE q == a \div s
            r == a % s
<1>4. q \in Nat /\ r \in Nat /\ a - r = s * q /\ (s * q) % s = 0
  BY <1>1, <1>2, <1>3
<1>. HIDE DEF q, r
<1>5. (a - r) % s = 0
  BY <1>4
<1>. QED
  BY <1>3, <1>5 DEF r

\* The greatest of some naturals up to b.
LEMMA GreatestOfNats ==
    ASSUME NEW b \in Nat, NEW S \in SUBSET (0..b), S # {}
    PROVE  \E x \in S : \A y \in S : y =< x
<1>. DEFINE T == {b - x : x \in S}
<1>1. T \in SUBSET Nat /\ T # {}
  <2>1. \A x \in S : b - x \in Nat
    OBVIOUS
  <2>2. PICK x \in S : TRUE
    OBVIOUS
  <2>3. b - x \in T
    OBVIOUS
  <2>. QED
    BY <2>1, <2>3
<1>2. PICK z \in T : \A y \in T : z =< y
  <2>. HIDE DEF T
  <2>. QED
    BY <1>1, LeastOfNats
<1>3. PICK x \in S : z = b - x
  OBVIOUS
<1>4. \A y \in S : b - x =< b - y
  BY <1>2, <1>3
<1>5. \A y \in S : y =< x
  <2>. TAKE y \in S
  <2>1. y \in Nat /\ x \in Nat /\ b - x =< b - y
    BY <1>4
  <2>. QED
    BY <2>1
<1>. QED
  BY <1>5

\* A list of the numbers up to n in their order is that of their own places.
LEMMA RisingIsIdentity ==
    ASSUME NEW n \in Nat, NEW f \in [1..n -> 1..n],
           \A i, j \in 1..n : i < j => f[i] < f[j]
    PROVE  \A i \in 1..n : f[i] = i
<1>. DEFINE Low == {i \in 1..n : f[i] < i}
            High == {i \in 1..n : f[i] > i}
<1>1. Low = {}
  <2>. SUFFICES ASSUME Low # {} PROVE FALSE
    OBVIOUS
  <2>1. PICK m \in Low : \A k \in Low : m =< k
    <3>1. Low \in SUBSET Nat
      OBVIOUS
    <3>. HIDE DEF Low
    <3>. QED
      BY <3>1, LeastOfNats
  <2>2. m \in 1..n /\ f[m] \in 1..n /\ f[m] < m
    OBVIOUS
  <2>3. f[f[m]] < f[m] /\ f[m] \in Low
    BY <2>2
  <2>. QED
    BY <2>1, <2>2, <2>3
<1>2. High = {}
  <2>. SUFFICES ASSUME High # {} PROVE FALSE
    OBVIOUS
  <2>1. PICK m \in High : \A k \in High : k =< m
    <3>1. High \in SUBSET (0..n)
      OBVIOUS
    <3>. HIDE DEF High
    <3>. QED
      BY <3>1, GreatestOfNats
  <2>2. m \in 1..n /\ f[m] \in 1..n /\ f[m] > m
    OBVIOUS
  <2>3. f[f[m]] > f[m] /\ f[m] \in High
    BY <2>2
  <2>. QED
    BY <2>1, <2>2, <2>3
<1>3. \A i \in 1..n : f[i] \in Nat /\ i \in Nat /\ ~(f[i] < i) /\ ~(f[i] > i)
  BY <1>1, <1>2
<1>. QED
  BY <1>3

LEMMA LoadingLists ==
    /\ \A s, K : Loading!Picked(s, K) = Picked(s, K)
    /\ \A K, keyOf : Loading!Sorted(K, keyOf) = Sorted(K, keyOf)
<1>1. \A S : Loading!Cardinality(S) = Cardinality(S)
  BY DEF Loading!Cardinality, Cardinality
<1>2. \A S, R : Loading!Ordered(S, R) = Ordered(S, R)
  BY DEF Loading!Ordered, Ordered, Loading!Cardinality, Cardinality
<1>3. \A K : Loading!Less(K) = Less(K)
  BY DEF Loading!Less, Less
<1>4. \A s, K : Loading!Picked(s, K) = Picked(s, K)
  BY <1>1, <1>2, <1>3 DEF Loading!Picked, Picked
<1>5. \A K, keyOf : Loading!ByKey(K, keyOf) = ByKey(K, keyOf)
  BY DEF Loading!ByKey, ByKey
<1>6. \A K, keyOf : Loading!Sorted(K, keyOf) = Sorted(K, keyOf)
  BY <1>2, <1>5 DEF Loading!Sorted, Sorted
<1>. QED
  BY <1>4, <1>6

\* A window stripped is None when it is blank, and otherwise reaches from its first
\* visible character to its last.
LEMMA StripIs ==
    ASSUME NEW t \in Seq(BOOLEAN), NEW a \in Nat, NEW b \in Nat
    PROVE  \/ Loading!Strip(t, a, b) = None /\ \A i \in a..b : ~t[i]
           \/ \E p \in a..b, q \in a..b :
                /\ Loading!Strip(t, a, b) = [from |-> p, to |-> q] /\ t[p] /\ t[q]
                /\ \A i \in a..b : t[i] => p <= i /\ i <= q
<1>. DEFINE V == {i \in a..b : t[i]}
            first == CHOOSE i \in V : \A j \in V : i <= j
            last == CHOOSE i \in V : \A j \in V : j <= i
<1>1. Loading!Strip(t, a, b) = IF V = {} THEN None ELSE [from |-> first, to |-> last]
  BY DEF Loading!Strip, Loading!Interval
<1>2. CASE V = {}
  BY <1>1, <1>2
<1>3. CASE V # {}
  <2>1. V \in SUBSET Nat /\ V \in SUBSET (0..b)
    OBVIOUS
  <2>2. first \in V /\ \A j \in V : first <= j
    <3>. HIDE DEF V
    <3>1. \E i \in V : \A j \in V : i <= j
      BY <1>3, <2>1, LeastOfNats
    <3>. QED
      BY <3>1
  <2>3. last \in V /\ \A j \in V : j <= last
    <3>. HIDE DEF V
    <3>1. \E i \in V : \A j \in V : j <= i
      BY <1>3, <2>1, GreatestOfNats
    <3>. QED
      BY <3>1
  <2>4. Loading!Strip(t, a, b) = [from |-> first, to |-> last]
    <3>. HIDE DEF V, first, last
    <3>. QED
      BY <1>1, <1>3
  <2>. HIDE DEF first, last
  <2>5. first \in a..b /\ last \in a..b /\ t[first] /\ t[last]
    BY <2>2, <2>3
  <2>6. \A i \in a..b : t[i] => first <= i /\ i <= last
    BY <2>2, <2>3
  <2>. QED
    BY <2>4, <2>5, <2>6
<1>. QED
  BY <1>2, <1>3

\* What is chunked of t: windows of n characters, one step apart, that share no more than
\* they keep.
Faithful(t, n, P) ==
    /\ \A i \in DOMAIN t : t[i] => \E c \in DOMAIN P : i \in P[c].from .. P[c].to
    /\ \A c \in DOMAIN P :
         /\ t[P[c].from] /\ t[P[c].to] /\ P[c].to - P[c].from < n
         /\ c > 1 => P[c - 1].from <= P[c].from

\* The chunks of a text cover what is visible of it, none blank or longer than the size, in
\* the order of the text.
LEMMA ChunksAre ==
    ASSUME NEW t \in Seq(BOOLEAN), NEW n \in Nat \ {0}, NEW o \in Nat
    PROVE  Loading!Chunks(t, n, o) \in Seq([from : Nat, to : Nat])
           /\ Faithful(t, n, Loading!Chunks(t, n, o))
<1>. DEFINE lap == IF o >= n THEN n \div 4 ELSE o
            step == IF n - lap > 1 THEN n - lap ELSE 1
            l == Len(t)
            starts == {i \in 1..l : (i - 1) % step = 0}
            end == [i \in 1..l |-> IF i + n - 1 < l THEN i + n - 1 ELSE l]
            clip == [i \in 1..l |-> IF i \in starts
                                    THEN Loading!Strip(t, i, IF i + n - 1 < l THEN i + n - 1 ELSE l)
                                    ELSE None]
            K == {i \in DOMAIN clip : clip[i] # None}
            Chunk == [from : Nat, to : Nat]
            P == Loading!Chunks(t, n, o)
<1>1. l \in Nat /\ DOMAIN t = 1..l /\ \A i \in 1..l : t[i] \in BOOLEAN
  OBVIOUS
<1>2. step \in Nat \ {0} /\ step <= n
  <2>1. lap \in Nat
    OBVIOUS
  <2>. HIDE DEF lap
  <2>. QED
    BY <2>1
<1>3. P = Picked(clip, K)
  BY LoadingLists DEF Loading!Chunks
<1>. HIDE DEF step, P
<1>4. \A i \in 1..l : /\ end[i] \in i..l /\ end[i] <= i + n - 1
                      /\ clip[i] = IF i \in starts THEN Loading!Strip(t, i, end[i]) ELSE None
  BY <1>1
<1>5. \A i, j \in 1..l : i <= j => end[i] <= end[j]
  BY <1>1
<1>6. DOMAIN clip = 1..l
  OBVIOUS
<1>. HIDE DEF end, starts
<1>7. ASSUME NEW i \in K
      PROVE  \E p \in i..end[i], q \in i..end[i] :
               /\ clip[i] = [from |-> p, to |-> q] /\ t[p] /\ t[q]
               /\ \A x \in i..end[i] : t[x] => p <= x /\ x <= q
  <2>1. i \in 1..l /\ clip[i] # None
    BY <1>6
  <2>2. i \in starts /\ clip[i] = Loading!Strip(t, i, end[i])
    <3>. HIDE DEF clip, K
    <3>. QED
      BY <1>4, <2>1
  <2>3. end[i] \in Nat /\ i \in Nat
    BY <1>1, <1>4, <2>1
  <2>. HIDE DEF clip, K
  <2>. QED
    BY <2>1, <2>2, <2>3, StripIs
<1>8. ASSUME NEW i \in 1..l, i \in starts, NEW x \in i..end[i], t[x]
      PROVE  i \in K
  <2>1. clip[i] = Loading!Strip(t, i, end[i])
    <3>. HIDE DEF clip
    <3>. QED
      BY <1>4, <1>8
  <2>2. end[i] \in Nat /\ i \in Nat
    BY <1>1, <1>4
  <2>3. Loading!Strip(t, i, end[i]) # None
    <3>1. \A p, q \in Nat : [from |-> p, to |-> q] # None
      BY LoadingAssumption
    <3>2. \A p \in i..end[i] : p \in Nat
      BY <2>2
    <3>. QED
      BY <1>8, <2>2, <3>1, <3>2, StripIs
  <2>. QED
    BY <1>6, <2>1, <2>3
<1>9. \A i \in K : i \in 1..l
  BY <1>6
<1>10. \A i \in K : clip[i] \in Chunk
  <2>. TAKE i \in K
  <2>1. \A p \in i..end[i] : p \in Nat
    BY <1>1, <1>4, <1>9
  <2>2. PICK p \in i..end[i], q \in i..end[i] : clip[i] = [from |-> p, to |-> q]
    BY <1>7
  <2>3. p \in Nat /\ q \in Nat
    BY <2>1
  <2>. QED
    BY <2>2, <2>3
<1>. DEFINE T == Chunk \cup {None}
            w == Ordered(K, Less(K))
            m == Cardinality(K)
<1>11. clip \in Seq(T) /\ K \in SUBSET (DOMAIN clip)
  <2>1. \A i \in 1..l : clip[i] \in T
    <3>. TAKE i \in 1..l
    <3>1. CASE i \in K
      BY <1>10, <3>1
    <3>2. CASE i \notin K
      BY <1>6, <3>2
    <3>. QED
      BY <3>1, <3>2
  <2>. HIDE DEF T
  <2>. QED
    BY <1>1, <1>6, <2>1
<1>. HIDE DEF clip, K, T
<1>12. /\ m \in Nat /\ Listing(w, K, Less(K)) /\ Len(w) = m
       /\ P \in Seq(T) /\ Len(P) = m /\ \A c \in 1..m : P[c] = clip[w[c]]
  BY <1>3, <1>11, PickedTakes
<1>. HIDE DEF w, m
<1>13. /\ DOMAIN P = 1..m /\ DOMAIN w = 1..m
       /\ \A c \in 1..m : w[c] \in K
       /\ \A i \in K : \E c \in 1..m : w[c] = i
       /\ \A c, d \in 1..m : c < d => w[c] < w[d]
  <2>1. DOMAIN P = 1..m /\ DOMAIN w = 1..m
    BY <1>12 DEF Listing
  <2>2. /\ \A c \in 1..m : w[c] \in K
        /\ \A i \in K : \E c \in 1..m : w[c] = i
        /\ \A c, d \in 1..m : c < d => <<w[c], w[d]>> \in Less(K)
    <3>1. w \in Seq(K)
      BY <1>12 DEF Listing
    <3>2. /\ \A i \in K : \E c \in DOMAIN w : w[c] = i
          /\ \A c, d \in DOMAIN w : c < d => <<w[c], w[d]>> \in Less(K)
      BY <1>12 DEF Listing
    <3>3. \A c \in DOMAIN w : w[c] \in K
      BY <3>1
    <3>. QED
      BY <2>1, <3>2, <3>3, Zenon
  <2>3. \A i, j : <<i, j>> \in Less(K) => i < j
    BY DEF Less
  <2>. QED
    BY <2>1, <2>2, <2>3
<1>14. P \in Seq(Chunk)
  <2>1. \A c \in 1..m : P[c] \in Chunk
    BY <1>10, <1>12, <1>13
  <2>2. P = [c \in 1..m |-> P[c]]
    BY <1>12, <1>13
  <2>3. P \in [1..m -> Chunk]
    <3>. HIDE DEF Chunk
    <3>. QED
      BY <2>1, <2>2
  <2>. HIDE DEF Chunk
  <2>. QED
    BY <1>12, <2>3
<1>15. ASSUME NEW x \in DOMAIN t, t[x]
       PROVE  \E c \in DOMAIN P : x \in P[c].from .. P[c].to
  <2>. DEFINE r == (x - 1) % step
              i == x - r
  <2>1. x - 1 \in Nat /\ x \in 1..l
    BY <1>1
  <2>2. r \in 0..(step - 1) /\ r <= x - 1 /\ (x - 1 - r) % step = 0
    BY <1>2, <2>1, LastMultiple
  <2>. HIDE DEF r
  <2>3. i \in 1..l /\ i - 1 = x - 1 - r /\ x <= i + n - 1 /\ i <= x
    BY <1>1, <1>2, <2>1, <2>2
  <2>4. i \in starts
    BY <2>2, <2>3 DEF starts
  <2>5. x \in i..end[i]
    BY <1>1, <2>1, <2>3 DEF end
  <2>. HIDE DEF i
  <2>6. i \in K
    BY <1>8, <1>15, <2>3, <2>4, <2>5
  <2>7. PICK c \in 1..m : w[c] = i
    BY <1>13, <2>6
  <2>8. PICK p \in i..end[i], q \in i..end[i] :
               /\ clip[i] = [from |-> p, to |-> q]
               /\ \A y \in i..end[i] : t[y] => p <= y /\ y <= q
    BY <1>7, <2>6
  <2>9. P[c].from = p /\ P[c].to = q /\ p <= x /\ x <= q
    BY <1>12, <1>15, <2>5, <2>7, <2>8
  <2>. QED
    BY <1>13, <2>1, <2>8, <2>9
<1>16. ASSUME NEW c \in DOMAIN P
       PROVE  /\ t[P[c].from] /\ t[P[c].to] /\ P[c].to - P[c].from < n
              /\ c > 1 => P[c - 1].from <= P[c].from
  <2>1. c \in 1..m /\ w[c] \in K /\ w[c] \in 1..l
    BY <1>9, <1>13
  <2>2. PICK p \in w[c]..end[w[c]], q \in w[c]..end[w[c]] :
               clip[w[c]] = [from |-> p, to |-> q] /\ t[p] /\ t[q]
    BY <1>7, <2>1
  <2>3. P[c].from = p /\ P[c].to = q
    BY <1>12, <2>1, <2>2
  <2>4. q - p < n
    BY <1>1, <1>4, <2>1, <2>2
  <2>5. ASSUME c > 1 PROVE P[c - 1].from <= p
    <3>1. c - 1 \in 1..m /\ c - 1 < c
      BY <1>12, <2>1, <2>5
    <3>2. w[c - 1] \in K /\ w[c - 1] < w[c] /\ w[c - 1] \in 1..l
      BY <1>9, <1>13, <2>1, <3>1
    <3>3. PICK d \in w[c - 1]..end[w[c - 1]], e \in w[c - 1]..end[w[c - 1]] :
               /\ clip[w[c - 1]] = [from |-> d, to |-> e]
               /\ \A y \in w[c - 1]..end[w[c - 1]] : t[y] => d <= y /\ y <= e
      BY <1>7, <3>2
    <3>4. P[c - 1].from = d
      BY <1>12, <3>1, <3>3
    <3>5. end[w[c - 1]] \in Nat /\ end[w[c]] \in Nat
      <4>1. end[w[c - 1]] \in w[c - 1]..l
        BY <1>4, <3>2
      <4>2. end[w[c]] \in w[c]..l
        BY <1>4, <2>1
      <4>. QED
        BY <1>1, <2>1, <3>2, <4>1, <4>2
    <3>6. CASE p <= end[w[c - 1]]
      <4>1. p \in w[c - 1]..end[w[c - 1]]
        BY <1>1, <2>1, <3>2, <3>5, <3>6
      <4>. QED
        BY <2>2, <3>3, <3>4, <4>1
    <3>7. CASE ~(p <= end[w[c - 1]])
      <4>1. d \in Int /\ d <= end[w[c - 1]] /\ p \in Int
        BY <1>1, <2>1, <3>2, <3>5
      <4>. QED
        BY <3>4, <3>5, <3>7, <4>1
    <3>. QED
      BY <3>6, <3>7
  <2>. QED
    BY <2>2, <2>3, <2>4, <2>5
<1>17. Faithful(t, n, P)
  BY <1>15, <1>16 DEF Faithful
<1>. QED
  BY <1>14, <1>17 DEF P

LEMMA UpTo == \A n \in Nat : IsFiniteSet(1..n) /\ Cardinality(1..n) = n
BY FS_Interval

LEMMA ElementsOf == \A S : \A s \in Seq(S) : \A j \in DOMAIN s : s[j] \in S
OBVIOUS

\* Onto as many as there are is one to one.
LEMMA AsManyAreDistinct ==
    ASSUME NEW n \in Nat, NEW q \in [1..n -> 1..n],
           Loading!Cardinality({q[i] : i \in 1..n}) = n
    PROVE  \A i, j \in 1..n : q[i] = q[j] => i = j
<1>. DEFINE T == {q[i] : i \in 1..n}
<1>1. q \in Surjection(1..n, T)
  BY DEF Surjection
<1>2. IsFiniteSet(1..n) /\ Cardinality(1..n) = n
  BY FS_Interval
<1>3. Cardinality(T) = n
  BY DEF Loading!Cardinality, Cardinality
<1>. HIDE DEF T
<1>4. q \in Injection(1..n, T)
  BY <1>1, <1>2, <1>3, FS_Surjection
<1>. QED
  BY <1>4 DEF Injection, IsInjective

\* A full answer holds each vector once: the one of p[k] at k, ordered by index, or where
\* the indices say nothing, by place.
LEMMA AnswerIs ==
    ASSUME NEW T, NEW ps \in Seq(T), NEW data \in Loading!Answers(ps), Len(data) = Len(ps),
           Len(ps) > 0
    PROVE  /\ DOMAIN data = 1..Len(ps)
           /\ [k \in DOMAIN data |-> data[k].index] \in [1..Len(ps) -> Int]
           /\ \E p \in [1..Len(ps) -> 1..Len(ps)] :
                /\ \A k \in 1..Len(ps) : data[k].vector = ps[p[k]]
                /\ \A i, j \in 1..Len(ps) :
                     \/ data[i].index < data[j].index
                     \/ data[i].index = data[j].index /\ i < j
                     => p[i] < p[j]
<1>. DEFINE n == Len(ps)
            Perms == {q \in [1..n -> 1..n] : Loading!Cardinality({q[i] : i \in 1..n}) = n}
            Shuffled(p) == [k \in 1..n |-> [index |-> p[k] - 1, vector |-> ps[p[k]]]]
            Plain(m) == [k \in 1..m |-> [index |-> 0, vector |-> ps[k]]]
<1>1. n \in Nat /\ n > 0
  OBVIOUS
<1>2. data \in {Shuffled(p) : p \in Perms} \cup {Plain(n)} \cup {Plain(n - 1)}
  BY DEF Loading!Answers
<1>. HIDE DEF n
<1>3. Len(data) = n
  BY DEF n
<1>4. CASE data \in {Shuffled(p) : p \in Perms}
  <2>1. PICK p \in Perms : data = Shuffled(p)
    BY <1>4
  <2>2. p \in [1..n -> 1..n] /\ \A i, j \in 1..n : p[i] = p[j] => i = j
    BY <1>1, AsManyAreDistinct
  <2>3. /\ DOMAIN data = 1..n
        /\ \A k \in 1..n : /\ data[k].index = p[k] - 1 /\ data[k].vector = ps[p[k]]
                           /\ p[k] \in 1..n
    BY <2>1, <2>2
  <2>4. [k \in DOMAIN data |-> data[k].index] \in [1..n -> Int]
    BY <1>1, <2>3
  <2>5. ASSUME NEW i \in 1..n, NEW j \in 1..n,
               data[i].index < data[j].index \/ (data[i].index = data[j].index /\ i < j)
        PROVE  p[i] < p[j]
    <3>1. p[i] \in Int /\ p[j] \in Int /\ data[i].index = p[i] - 1 /\ data[j].index = p[j] - 1
      BY <1>1, <2>3
    <3>2. i < j => p[i] # p[j]
      BY <1>1, <2>2
    <3>. QED
      BY <2>5, <3>1, <3>2
  <2>. QED
    BY <2>2, <2>3, <2>4, <2>5 DEF n
<1>5. CASE data = Plain(n)
  <2>. DEFINE p == [k \in 1..n |-> k]
  <2>1. p \in [1..n -> 1..n] /\ \A k \in 1..n : p[k] = k
    OBVIOUS
  <2>2. DOMAIN data = 1..n /\ \A k \in 1..n : data[k].index = 0 /\ data[k].vector = ps[k]
    BY <1>5
  <2>3. [k \in DOMAIN data |-> data[k].index] \in [1..n -> Int]
    BY <2>2
  <2>4. \A i, j \in 1..n :
           data[i].index < data[j].index \/ (data[i].index = data[j].index /\ i < j) => p[i] < p[j]
    BY <1>1, <2>1, <2>2
  <2>. HIDE DEF p
  <2>. QED
    BY <2>1, <2>2, <2>3, <2>4 DEF n
<1>6. CASE data = Plain(n - 1)
  <2>1. Len(data) = n - 1
    BY <1>1, <1>6
  <2>. QED
    BY <1>1, <1>3, <2>1
<1>. QED
  BY <1>2, <1>4, <1>5, <1>6

\* In whatever order the upstream answers, vector i is that of chunk i.
LEMMA ArrangedIs ==
    ASSUME NEW T, NEW ps \in Seq(T), NEW data \in Loading!Answers(ps), Len(data) = Len(ps)
    PROVE  \A i \in DOMAIN ps : Loading!Arranged(data)[i] = ps[i]
<1>. DEFINE n == Len(ps)
            index == [k \in DOMAIN data |-> data[k].index]
            O == Sorted(DOMAIN data, index)
<1>1. n \in Nat /\ DOMAIN ps = 1..n
  OBVIOUS
<1>2. CASE n = 0
  BY <1>1, <1>2
<1>3. CASE n > 0
  <2>1. DOMAIN data = 1..n /\ index \in [1..n -> Int]
    BY <1>3, AnswerIs
  <2>2. PICK p \in [1..n -> 1..n] :
           /\ \A k \in 1..n : data[k].vector = ps[p[k]]
           /\ \A i, j \in 1..n :
                \/ data[i].index < data[j].index
                \/ data[i].index = data[j].index /\ i < j
                => p[i] < p[j]
    BY <1>3, AnswerIs
  <2>3. IsFiniteSet(1..n) /\ Cardinality(1..n) = n /\ 1..n \in SUBSET Int
    <3>. HIDE DEF n
    <3>1. IsFiniteSet(1..n) /\ Cardinality(1..n) = n
      BY <1>1, UpTo
    <3>2. \A i \in 1..n : i \in Int
      BY <1>1
    <3>. QED
      BY <3>1, <3>2
  <2>4. \A k \in 1..n : index[k] = data[k].index
    BY <2>1
  <2>5. Loading!Arranged(data) = [k \in DOMAIN O |-> data[O[k]].vector]
    BY LoadingLists DEF Loading!Arranged
  <2>. HIDE DEF index, n
  <2>6. Listing(O, 1..n, ByKey(1..n, index)) /\ Len(O) = n
    BY <2>1, <2>3, SortedLists
  <2>. HIDE DEF O
  <2>7. /\ O \in Seq(1..n) /\ DOMAIN O = 1..n
        /\ \A i, j \in DOMAIN O : i < j => <<O[i], O[j]>> \in ByKey(1..n, index)
    BY <2>6 DEF Listing
  <2>8. \A j \in 1..n : O[j] \in 1..n
    <3>1. \A j \in DOMAIN O : O[j] \in 1..n
      BY <2>7, ElementsOf, Zenon
    <3>. QED
      BY <2>7, <3>1, Zenon
  <2>. DEFINE f == [j \in 1..n |-> p[O[j]]]
  <2>9. f \in [1..n -> 1..n]
    BY <2>2, <2>8
  <2>10. ASSUME NEW i \in 1..n, NEW j \in 1..n, i < j
         PROVE  f[i] < f[j]
    <3>1. <<O[i], O[j]>> \in ByKey(1..n, index)
      BY <2>7, <2>10
    <3>2. index[O[i]] < index[O[j]] \/ (index[O[i]] = index[O[j]] /\ O[i] < O[j])
      BY <3>1 DEF ByKey
    <3>3. p[O[i]] < p[O[j]]
      BY <2>2, <2>4, <2>8, <3>2
    <3>. QED
      BY <3>3
  <2>11. \A j \in 1..n : f[j] = j
    <3>. HIDE DEF f
    <3>. QED
      BY <1>1, <2>9, <2>10, RisingIsIdentity
  <2>12. \A j \in 1..n : p[O[j]] = j
    BY <2>11
  <2>. QED
    BY <1>1, <2>2, <2>5, <2>7, <2>8, <2>12
<1>. QED
  BY <1>1, <1>2, <1>3

-----------------------------------------------------------------------------
Chunk == [from : Nat, to : Nat]
Visible == Seq(BOOLEAN)
Embedded == [text : Visible, size : Nat, chunks : Seq([piece : Chunk, vector : Chunk])]

\* A document in the database: its chunks are those of its text, each with its own vector.
Kept(d) ==
    /\ \A i \in DOMAIN d.text : d.text[i] => \E c \in DOMAIN d.chunks :
                                  i \in d.chunks[c].piece.from .. d.chunks[c].piece.to
    /\ \A c \in DOMAIN d.chunks :
         /\ d.text[d.chunks[c].piece.from] /\ d.text[d.chunks[c].piece.to]
         /\ d.chunks[c].piece.to - d.chunks[c].piece.from < d.size
         /\ c > 1 => d.chunks[c - 1].piece.from <= d.chunks[c].piece.from
         /\ d.chunks[c].vector = d.chunks[c].piece

\* What a load has come to: nothing, an address, or a text and its chunks.
LoadType ==
    /\ loadPc \in {"idle", "fetch", "extract", "embed"} /\ source \in {"file", "url"}
    /\ visited \subseteq Urls /\ hops \in 0..MaxRedirects
    /\ text \in Texts \cup {<<>>} /\ size \in Sizes \cup {1} /\ overlap \in Overlaps \cup {0}
    /\ pieces \in Seq(Chunk)
    /\ loadPc = "embed" => Faithful(text, size, pieces)
    /\ stored \in Seq(Embedded) /\ Len(stored) <= MaxDocuments
    /\ loadPc # "idle" => Len(stored) < MaxDocuments
    /\ \A k \in DOMAIN stored : Kept(stored[k])

LEMMA LoadSettings ==
    /\ Texts \cup {<<>>} \subseteq Visible /\ Sizes \cup {1} \subseteq Nat \ {0}
    /\ Overlaps \cup {0} \subseteq Nat /\ 0 \in 0..MaxRedirects /\ MaxDocuments \in Nat
    /\ MaxRedirects \in Nat
<1>1. <<>> \in Seq(BOOLEAN) /\ 1 \in Nat \ {0} /\ 0 \in Nat
  OBVIOUS
<1>2. MaxRedirects \in Nat /\ MaxDocuments \in Nat
  BY LoadingAssumption
<1>3. 0 \in 0..MaxRedirects
  BY <1>2
<1>. QED
  BY <1>1, <1>2, <1>3, LoadingAssumption, Zenon DEF Visible

LEMMA LoadStarts == Loading!Init => LoadType
<1>. SUFFICES ASSUME Loading!Init PROVE LoadType
  OBVIOUS
<1>1. <<>> \in Seq(Chunk) /\ <<>> \in Seq(Embedded) /\ Len(<<>>) = 0 /\ DOMAIN <<>> = {}
  OBVIOUS
<1>. QED
  BY <1>1, LoadSettings DEF Loading!Init, LoadType

\* What is stored of a text is its chunks, each with its vector.
LEMMA StoredIs ==
    ASSUME NEW t \in Visible, NEW n \in Nat, NEW P \in Seq(Chunk), Faithful(t, n, P),
           NEW data \in Loading!Answers(P), Len(data) = Len(P)
    PROVE  LET d == [text |-> t, size |-> n,
                     chunks |-> [i \in DOMAIN P |-> [piece |-> P[i],
                                                     vector |-> Loading!Arranged(data)[i]]]]
           IN  d \in Embedded /\ Kept(d)
<1>. DEFINE cs == [i \in DOMAIN P |-> [piece |-> P[i], vector |-> Loading!Arranged(data)[i]]]
            d == [text |-> t, size |-> n, chunks |-> cs]
<1>1. \A i \in DOMAIN P : Loading!Arranged(data)[i] = P[i]
  BY ArrangedIs
<1>2. DOMAIN P = 1..Len(P) /\ Len(P) \in Nat /\ \A i \in DOMAIN P : P[i] \in Chunk
  OBVIOUS
<1>3. DOMAIN cs = DOMAIN P /\ \A i \in DOMAIN P : cs[i] = [piece |-> P[i], vector |-> P[i]]
  BY <1>1
<1>. HIDE DEF cs
<1>4. cs \in Seq([piece : Chunk, vector : Chunk])
  <2>. DEFINE R == [piece : Chunk, vector : Chunk]
  <2>1. \A i \in DOMAIN P : cs[i] \in R
    BY <1>2, <1>3
  <2>2. cs = [i \in 1..Len(P) |-> cs[i]]
    BY <1>2, <1>3 DEF cs
  <2>. HIDE DEF R
  <2>3. cs \in [1..Len(P) -> R]
    BY <1>2, <2>1, <2>2
  <2>4. cs \in Seq(R)
    BY <1>2, <2>3
  <2>. QED
    BY <2>4 DEF R
<1>5. d.text = t /\ d.size = n /\ d.chunks = cs /\ d \in Embedded
  BY <1>4 DEF Embedded
<1>. HIDE DEF d
<1>6. \A i \in DOMAIN t : t[i] => \E c \in DOMAIN cs : i \in cs[c].piece.from .. cs[c].piece.to
  BY <1>3 DEF Faithful
<1>7. ASSUME NEW c \in DOMAIN cs
      PROVE  /\ t[cs[c].piece.from] /\ t[cs[c].piece.to]
             /\ cs[c].piece.to - cs[c].piece.from < n
             /\ c > 1 => cs[c - 1].piece.from <= cs[c].piece.from
             /\ cs[c].vector = cs[c].piece
  <2>1. cs[c].piece = P[c] /\ cs[c].vector = P[c] /\ c \in DOMAIN P
    BY <1>3
  <2>2. c > 1 => c - 1 \in DOMAIN P
    BY <1>2, <2>1
  <2>3. c > 1 => cs[c - 1].piece = P[c - 1]
    BY <1>3, <2>2
  <2>. QED
    BY <2>1, <2>3 DEF Faithful
<1>8. Kept(d)
  BY <1>5, <1>6, <1>7 DEF Kept
<1>. QED
  BY <1>5, <1>8 DEF d, cs

LEMMA LoadStep ==
    LoadType /\ [Loading!Next]_(Loading!vars) => LoadType'
<1>. SUFFICES ASSUME LoadType, [Loading!Next]_(Loading!vars) PROVE LoadType'
  OBVIOUS
<1>0. <<>> \in Seq(Chunk)
  OBVIOUS
<1>1. ASSUME Loading!Refused PROVE LoadType'
  <2>1. stored \in Seq(Embedded) /\ Len(stored) <= MaxDocuments
        /\ \A k \in DOMAIN stored : Kept(stored[k])
    BY DEF LoadType
  <2>2. /\ loadPc' = "idle" /\ source' = "file" /\ visited' = {} /\ hops' = 0 /\ text' = <<>>
        /\ size' = 1 /\ overlap' = 0 /\ pieces' = <<>> /\ stored' = stored
    BY <1>1 DEF Loading!Refused
  <2>. QED
    BY <1>0, <2>1, <2>2, LoadSettings DEF LoadType
<1>2. CASE Loading!Begin
  <2>1. /\ loadPc' \in {"extract", "fetch"} /\ source' \in {"file", "url"} /\ visited' \subseteq Urls
        /\ hops' = 0 /\ size' \in Sizes /\ overlap' \in Overlaps /\ Len(stored) < MaxDocuments
        /\ UNCHANGED <<text, pieces, stored>>
    BY <1>2 DEF Loading!Begin
  <2>2. loadPc' # "embed" /\ loadPc' \in {"idle", "fetch", "extract", "embed"}
    BY <2>1
  <2>. QED
    BY <2>1, <2>2, LoadSettings DEF LoadType
<1>3. CASE Loading!Fetch
  <2>1. CASE Loading!Refused
    BY <1>1, <2>1
  <2>2. ASSUME NEW u \in Urls, u \notin visited, hops # MaxRedirects,
               visited' = visited \cup {u}, hops' = hops + 1,
               UNCHANGED <<loadPc, source, text, size, overlap, pieces, stored>>
        PROVE  LoadType'
    <3>1. hops' \in 0..MaxRedirects /\ visited' \subseteq Urls
      BY <2>2, LoadSettings DEF LoadType
    <3>. QED
      BY <2>2, <3>1 DEF LoadType
  <2>3. CASE /\ loadPc' = "extract"
             /\ UNCHANGED <<source, visited, hops, text, size, overlap, pieces, stored>>
    BY <1>3, <2>3 DEF LoadType, Loading!Fetch
  <2>. QED
    BY <1>3, <2>1, <2>2, <2>3 DEF Loading!Fetch
<1>4. CASE Loading!Extract
  <2>1. CASE Loading!Refused
    BY <1>1, <2>1
  <2>2. ASSUME NEW t \in Texts, text' = t, pieces' = Loading!Chunks(t, size, overlap),
               loadPc' = "embed",
               UNCHANGED <<source, visited, hops, size, overlap, stored>>
        PROVE  LoadType'
    <3>1. t \in Visible /\ size \in Nat \ {0} /\ overlap \in Nat
      BY LoadSettings DEF LoadType
    <3>2. Loading!Chunks(t, size, overlap) \in Seq(Chunk)
          /\ Faithful(t, size, Loading!Chunks(t, size, overlap))
      BY <3>1, ChunksAre DEF Visible, Chunk
    <3>3. pieces' \in Seq(Chunk) /\ Faithful(text', size', pieces')
      BY <2>2, <3>2
    <3>4. loadPc = "extract"
      BY <1>4 DEF Loading!Extract
    <3>. QED
      BY <2>2, <3>3, <3>4 DEF LoadType
  <2>. QED
    BY <1>4, <2>1, <2>2 DEF Loading!Extract
<1>5. CASE Loading!Store
  <2>1. CASE Loading!Refused
    BY <1>1, <2>1
  <2>2. ASSUME NEW data \in Loading!Answers(pieces), Len(data) = Len(pieces),
               stored' = Append(stored,
                  [text |-> text, size |-> size,
                   chunks |-> [i \in DOMAIN pieces |->
                                 [piece |-> pieces[i], vector |-> Loading!Arranged(data)[i]]]]),
               loadPc' = "idle", source' = "file", visited' = {}, hops' = 0,
               text' = <<>>, size' = 1, overlap' = 0, pieces' = <<>>
        PROVE  LoadType'
    <3>. DEFINE d == [text |-> text, size |-> size,
                      chunks |-> [i \in DOMAIN pieces |->
                                    [piece |-> pieces[i], vector |-> Loading!Arranged(data)[i]]]]
    <3>1. loadPc = "embed"
      BY <1>5 DEF Loading!Store
    <3>2. text \in Visible /\ size \in Nat /\ pieces \in Seq(Chunk) /\ Faithful(text, size, pieces)
      BY <3>1, LoadSettings DEF LoadType
    <3>3. d \in Embedded /\ Kept(d)
      BY <2>2, <3>2, StoredIs
    <3>4. stored' = Append(stored, d)
      BY <2>2
    <3>. HIDE DEF d
    <3>5. stored \in Seq(Embedded) /\ Len(stored) < MaxDocuments
          /\ \A k \in DOMAIN stored : Kept(stored[k])
      BY <3>1 DEF LoadType
    <3>6. /\ stored' \in Seq(Embedded) /\ Len(stored') = Len(stored) + 1
          /\ DOMAIN stored' = 1..(Len(stored) + 1)
          /\ stored'[Len(stored) + 1] = d
          /\ \A k \in 1..Len(stored) : stored'[k] = stored[k]
      BY <3>3, <3>4, <3>5
    <3>7. Len(stored') <= MaxDocuments
      BY <3>5, <3>6, LoadSettings
    <3>8. \A k \in DOMAIN stored' : Kept(stored'[k])
      <4>. TAKE k \in DOMAIN stored'
      <4>1. k \in DOMAIN stored \/ k = Len(stored) + 1
        BY <3>5, <3>6
      <4>2. k \in DOMAIN stored => k \in 1..Len(stored)
        BY <3>5
      <4>. QED
        BY <3>3, <3>5, <3>6, <4>1, <4>2
    <3>. QED
      BY <1>0, <2>2, <3>6, <3>7, <3>8, LoadSettings DEF LoadType
  <2>. QED
    BY <1>5, <2>1, <2>2 DEF Loading!Store
<1>6. CASE UNCHANGED Loading!vars
  BY <1>6 DEF Loading!vars, LoadType
<1>. QED
  BY <1>2, <1>3, <1>4, <1>5, <1>6 DEF Loading!Next

\* The type of what comes in (Ingest.TypeOK).
THEOREM LoadTypeCorrect == Loading!Spec => []Loading!TypeOK
<1>1. LoadType => Loading!TypeOK
  BY DEF LoadType, Loading!TypeOK
<1>. QED
  BY <1>1, LoadStarts, LoadStep, PTL DEF Loading!Spec

\* What is attached can be retrieved: the chunks of a stored document cover what is visible
\* of its text and carry their own vectors, whatever the size, the overlap and the order of
\* the answer (chunk_text, embed_texts, the zip of the upload handlers).
THEOREM ChunksStayFaithful == Loading!Spec => []ChunksFaithful
<1>1. LoadType => ChunksFaithful
  BY Zenon DEF LoadType, ChunksFaithful, Loading!ChunksFaithful, Kept
<1>. QED
  BY <1>1, LoadStarts, LoadStep, PTL DEF Loading!Spec

-----------------------------------------------------------------------------
(* The types of all parts. *)

\* The clock keeps its bound, and a map is kept for ids of connections.
RouteBounds ==
    /\ clock <= MaxTime
    /\ \A p \in AllProcesses : map[p] # None => map[p].key \subseteq Extras

LEMMA RouteBoundsStep ==
    RouteType /\ RouteBounds /\ [Routing!Next]_(Routing!vars) => RouteBounds'
<1> SUFFICES ASSUME RouteType, RouteBounds, [Routing!Next]_(Routing!vars) PROVE RouteBounds'
  OBVIOUS
<1>1. ASSUME UNCHANGED <<clock, map>> PROVE RouteBounds'
  BY <1>1 DEF RouteBounds, AllProcesses, Routing!AllProcesses
<1>2. AllProcesses' = AllProcesses
  BY DEF AllProcesses, Routing!AllProcesses
<1>3. ASSUME NEW a \in Admins,
             Routing!Create(a) \/ Routing!Patch(a) \/ Routing!Delete(a)
      PROVE  RouteBounds'
  BY <1>1, <1>3 DEF Routing!Create, Routing!Patch, Routing!Delete, Routing!Becomes
<1>4. ASSUME NEW a \in Admins, Routing!Invalidate(a) PROVE RouteBounds'
  <2>1. clock' = clock /\ map' = [map EXCEPT ![Process[a]] = None]
    BY <1>4 DEF Routing!Invalidate
  <2>2. \A p \in AllProcesses : map'[p] = None \/ map'[p] = map[p]
    BY <2>1 DEF RouteType
  <2> QED
    BY <1>2, <2>1, <2>2 DEF RouteBounds
<1>5. ASSUME NEW r \in Requests,
             Routing!HasExtra(r) \/ Routing!ReadKey(r) \/ Routing!Look(r) \/ Routing!ReadRows(r)
      PROVE  RouteBounds'
  BY <1>1, <1>5 DEF Routing!HasExtra, Routing!ReadKey, Routing!Look, Routing!ReadRows
<1>6. ASSUME NEW r \in Requests, Routing!Probe(r) PROVE RouteBounds'
  <2>1. PICK routes, until :
          map' = [map EXCEPT ![Process[r]] =
                    [key |-> key[r], routes |-> routes, expires |-> until]]
    BY <1>6 DEF Routing!Probe
  <2>2. clock' = clock /\ key[r] \subseteq Extras
    BY <1>6 DEF Routing!Probe, RouteType
  <2>3. \A p \in AllProcesses : map'[p].key = key[r] \/ map'[p] = map[p]
    BY <2>1 DEF RouteType
  <2> QED
    BY <1>2, <2>2, <2>3 DEF RouteBounds
<1>7. CASE Routing!Tick
  <2>1. clock < MaxTime /\ clock' = clock + 1 /\ map' = map
    BY <1>7 DEF Routing!Tick
  <2>2. clock' <= MaxTime
    BY <2>1, RoutingAssumption DEF RouteType
  <2> QED
    BY <1>2, <2>1, <2>2 DEF RouteBounds
<1>8. CASE UNCHANGED Routing!vars
  BY <1>1, <1>8 DEF Routing!vars
<1> QED
  BY <1>3, <1>4, <1>5, <1>6, <1>7, <1>8 DEF Routing!Next

\* A row in a map is one that may serve.
LEMMA RouteTyped == RouteType /\ RouteInv /\ RouteBounds => Routing!TypeOK
<1> SUFFICES ASSUME RouteType, RouteInv, RouteBounds PROVE Routing!TypeOK
  OBVIOUS
<1>1. clock \in 0..MaxTime
  BY RoutingAssumption DEF RouteType, RouteBounds
<1>2. \A r \in Requests : taken[r] \in 0..MaxTime
  <2> TAKE r \in Requests
  <2>1. taken[r] \in Nat /\ taken[r] <= clock
    BY DEF RouteType, RouteInv, Knows
  <2> QED
    BY <1>1, <2>1, RoutingAssumption
<1>3. \A p \in AllProcesses : map[p] # None =>
        \A m \in DOMAIN map[p].routes : map[p].routes[m] \in AllRows
  <2> SUFFICES ASSUME NEW p \in AllProcesses, map[p] # None, NEW m \in DOMAIN map[p].routes
               PROVE  map[p].routes[m] \in AllRows
    OBVIOUS
  <2>1. \/ map[p].routes[m] = Routing!EnvRow
        \/ Serves(map[p].routes[m], p, map[p].expires - TTL)
    BY DEF RouteInv, MapsServe
  <2> QED
    BY <2>1, EnvIsRow, ServersAreRows
<1>4. enabled \subseteq {c \in Extras : version[c] # Routing!Absent}
  BY DEF RouteType, Routing!Absent
<1>5. \A r \in Requests :
        /\ model[r] \in Models \cup {None} /\ key[r] \subseteq Extras
        /\ rows[r] \subseteq AllRows
        /\ answer[r] \in AllRows \cup {None} /\ fresh[r] \subseteq AllRows
  BY DEF RouteType
<1>6. \A p \in AllProcesses : excused[p] \subseteq AllRows
  BY DEF RouteType
<1>7. /\ version \in [Extras -> 0..MaxVersion] /\ latest \in [Extras -> 0..MaxVersion]
      /\ routePc \in [Requests \cup Admins -> RoutePcs]
  BY DEF RouteType
<1> QED
  BY <1>1, <1>2, <1>3, <1>4, <1>5, <1>6, <1>7
  DEF Routing!TypeOK, RouteBounds, RoutePcs, AllRows, AllProcesses

\* The routing keeps its types; what a map routes to is a row (resolve_connection).
THEOREM RoutingTypeCorrect == Routing!Spec => []Routing!TypeOK
<1>1. Routing!Init => RouteType /\ RouteInv /\ RouteBounds
  <2> SUFFICES ASSUME Routing!Init PROVE RouteType /\ RouteInv /\ RouteBounds
    OBVIOUS
  <2>1. RouteType
    BY RoutingAssumption DEF Routing!Init, RouteType, RoutePcs, AllRows, AllProcesses, Routing!Absent
  <2>2. RouteInv
    BY DEF Routing!Init, RouteInv, MapsServe, Knows, Routing!Current, AllProcesses
  <2>3. RouteBounds
    BY RoutingAssumption DEF Routing!Init, RouteBounds, AllProcesses
  <2> QED
    BY <2>1, <2>2, <2>3
<1>2. [Routing!Next]_(Routing!vars) => [Routing!Next]_routing
  BY DEF Routing!vars, Routing!requestVars, routing
<1>3. RouteType /\ RouteInv /\ RouteBounds /\ [Routing!Next]_(Routing!vars) =>
        (RouteType /\ RouteInv /\ RouteBounds)'
  BY <1>2, RouteTypeStep, RouteStep, RouteBoundsStep
<1> QED
  BY <1>1, <1>3, RouteTyped, PTL DEF Routing!Spec

-----------------------------------------------------------------------------
\* The tools and plugins of a turn are the configured ones, its rounds limited.
TurnBounds ==
    /\ kind \in Kinds \cup {Answering!NoKind}
    /\ DOMAIN servers \subseteq Servers /\ dispatch \subseteq Answering!Targets
    /\ plugin \in 1..(Len(Plugins) + 1)
    /\ round <= MaxLoops /\ chunks <= MaxTokens

LEMMA TurnBoundsStep ==
    TurnType /\ TurnBounds /\ [Answering!Next]_(Answering!vars) => TurnBounds'
<1> SUFFICES ASSUME TurnType, TurnBounds, [Answering!Next]_(Answering!vars) PROVE TurnBounds'
  OBVIOUS
<1>0. /\ Len(Plugins) \in Nat /\ MaxLoops \in Nat /\ MaxTokens \in Nat
      /\ round \in Nat /\ chunks \in Nat
  BY TurnAssumption DEF TurnType
<1>1. ASSUME UNCHANGED <<kind, servers, dispatch, plugin, round, chunks>> PROVE TurnBounds'
  BY <1>1 DEF TurnBounds, Answering!NoKind, Answering!Targets
<1>2. CASE Answering!Compose
  <2>2. dispatch' \subseteq Answering!Targets
    <3>1. CASE UNCHANGED dispatch
      BY <3>1 DEF TurnBounds, Answering!Targets
    <3>2. CASE ~UNCHANGED dispatch
      <4>1. PICK some \in SUBSET {s \in DOMAIN servers : servers[s]} :
              dispatch' = IF kind'.tools THEN {Answering!Builtin} \cup some ELSE {}
        BY <1>2, <3>2 DEF Answering!Compose
      <4> QED
        BY <4>1 DEF TurnBounds, Answering!Targets
    <3> QED
      BY <3>1, <3>2
  <2> QED
    BY <1>2, <2>2 DEF Answering!Compose, TurnBounds, Answering!Targets
<1>3. CASE Answering!Inlet
  <2>1. /\ plugin <= Len(Plugins) /\ plugin' = plugin + 1
        /\ UNCHANGED <<kind, servers, dispatch, round, chunks>>
    BY <1>3 DEF Answering!Inlet
  <2>2. plugin' \in 1..(Len(Plugins) + 1)
    BY <1>0, <2>1 DEF TurnBounds
  <2> QED
    BY <2>1, <2>2 DEF TurnBounds, Answering!Targets
<1>4. CASE Answering!Round
  <2>1. UNCHANGED <<kind, servers, dispatch, plugin>>
    BY <1>4 DEF Answering!Round
  <2>2. \/ UNCHANGED <<round, chunks>>
        \/ round # MaxLoops /\ round' = round + 1 /\ chunks' = 0
    BY <1>4 DEF Answering!Round, Answering!BeginRound
  <2>3. round' <= MaxLoops /\ chunks' <= MaxTokens
    BY <1>0, <2>2 DEF TurnBounds
  <2> QED
    BY <2>1, <2>3 DEF TurnBounds, Answering!Targets
<1>5. CASE Answering!Chunk
  <2>1. /\ chunks < MaxTokens /\ chunks' = chunks + 1
        /\ UNCHANGED <<kind, servers, dispatch, plugin, round>>
    BY <1>5 DEF Answering!Chunk
  <2>2. chunks' <= MaxTokens
    BY <1>0, <2>1
  <2> QED
    BY <2>1, <2>2 DEF TurnBounds, Answering!Targets
<1>6. CASE Answering!ServerChanges
  <2>1. UNCHANGED <<kind, dispatch, plugin, round, chunks>>
    BY <1>6 DEF Answering!ServerChanges
  <2>2. DOMAIN servers' \subseteq DOMAIN servers
    <3>1. PICK s \in DOMAIN servers :
            \/ servers' = [servers EXCEPT ![s] = FALSE]
            \/ servers' = [x \in DOMAIN servers \ {s} |-> servers[x]]
      BY <1>6 DEF Answering!ServerChanges
    <3> QED
      BY <3>1
  <2> QED
    BY <2>1, <2>2 DEF TurnBounds, Answering!Targets
<1>7. CASE Answering!InletsEnd
  BY <1>1, <1>7 DEF Answering!InletsEnd
<1>8. CASE Answering!Upstream \/ Answering!StreamEnds
  BY <1>1, <1>8 DEF Answering!Upstream, Answering!StreamEnds
<1>9. CASE Answering!Close
  BY <1>1, <1>9 DEF Answering!Close
<1>10. CASE Answering!RunTool \/ Answering!ToolRaises \/ Answering!ToolsEnd
  BY <1>1, <1>10 DEF Answering!RunTool, Answering!ToolRaises, Answering!ToolsEnd
<1>11. CASE Answering!Persist \/ Answering!Leaves \/ Answering!Cancelled
  BY <1>1, <1>11 DEF Answering!Persist, Answering!Leaves, Answering!Cancelled
<1>12. CASE UNCHANGED Answering!vars
  BY <1>1, <1>12 DEF Answering!vars
<1> QED
  BY <1>2, <1>3, <1>4, <1>5, <1>6, <1>7, <1>8, <1>9, <1>10, <1>11, <1>12 DEF Answering!Next

LEMMA TurnTyped == TurnType /\ TurnBounds => Answering!TypeOK
<1> SUFFICES ASSUME TurnType, TurnBounds PROVE Answering!TypeOK
  OBVIOUS
<1>1. \A s \in Seq(Tokens) : Answering!Range(s) \subseteq Tokens
  BY DEF Answering!Range
<1>2. \A s \in {said, final, shown} : Answering!Range(s) \subseteq Answering!Tokens
  BY <1>1 DEF TurnType, Tokens
<1>3. round \in 0..MaxLoops /\ chunks \in 0..MaxTokens
  BY TurnAssumption DEF TurnType, TurnBounds
<1>4. {open, aborted, gone, failed, cut} \subseteq BOOLEAN
  BY DEF TurnType
<1> QED
  BY <1>2, <1>3, <1>4 DEF Answering!TypeOK, TurnType, TurnBounds, TurnPcs

\* A turn dispatches to the tools of its servers, runs the plugins there are, and keeps
\* within its rounds (compose_tool_specs, run_inlet, max_tool_loops).
THEOREM AnsweringTypeCorrect == Answering!Spec => []Answering!TypeOK
<1>1. Answering!Init => TurnBounds
  <2> SUFFICES ASSUME Answering!Init PROVE TurnBounds
    OBVIOUS
  <2>1. plugin \in 1..(Len(Plugins) + 1)
    BY TurnAssumption DEF Answering!Init
  <2> QED
    BY <2>1, TurnAssumption DEF Answering!Init, TurnBounds
<1> QED
  BY <1>1, TurnTypeCorrect, TurnBoundsStep, TurnTyped, PTL DEF Answering!Spec

-----------------------------------------------------------------------------
\* A process keeps no more attempts than the limit, and the key expires in time.
LoginBounds ==
    /\ expires <= Login!Never
    /\ \A p \in Processes : IsFiniteSet(local[p]) /\ Cardinality(local[p]) <= Limit
    /\ hiccups \in 0..MaxHiccups /\ restarts \in 0..MaxRestarts

LEMMA LoginBoundsStep ==
    LoginType /\ LoginBounds /\ [Login!Next]_(Login!vars) => LoginBounds'
<1> SUFFICES ASSUME LoginType, LoginBounds, [Login!Next]_(Login!vars) PROVE LoginBounds'
  OBVIOUS
<1>0. /\ now \in Nat /\ now <= MaxTime + 1 /\ expires \in Nat /\ Login!Never \in Nat
      /\ now + Window < Login!Never /\ now + Window \in Nat
      /\ local \in [Processes -> SUBSET Nat] /\ Limit \in Nat /\ Limit > 0
      /\ MaxHiccups \in Nat /\ MaxRestarts \in Nat /\ Login!Never' = Login!Never
  BY NeverType, LoginAssumption DEF LoginType, Login!Never
<1>1. ASSUME UNCHANGED <<local, hiccups, restarts>>, expires' <= Login!Never PROVE LoginBounds'
  BY <1>0, <1>1 DEF LoginBounds
<1>2. CASE Login!Tick
  <2>1. UNCHANGED <<local, hiccups, restarts>> /\ expires' \in {expires, Login!Never}
    BY <1>2 DEF Login!Tick
  <2>2. expires' <= Login!Never
    BY <1>0, <2>1 DEF LoginBounds
  <2> QED
    BY <1>1, <2>1, <2>2
<1>3. ASSUME NEW p \in Processes, Login!Attempt(p) \/ Login!Incr(p) \/ Login!Decide(p)
      PROVE  LoginBounds'
  <2>1. UNCHANGED <<local, hiccups, restarts, expires>>
    BY <1>3 DEF Login!Attempt, Login!Incr, Login!Decide
  <2> QED
    BY <1>1, <2>1 DEF LoginBounds
<1>4. ASSUME NEW p \in Processes, Login!Expire(p) PROVE LoginBounds'
  <2>1. UNCHANGED <<local, hiccups, restarts>> /\ expires' \in {expires, now + Window}
    BY <1>4 DEF Login!Expire
  <2>2. expires' <= Login!Never
    BY <1>0, <2>1 DEF LoginBounds
  <2> QED
    BY <1>1, <2>1, <2>2
<1>5. ASSUME NEW p \in Processes, Login!Hiccup(p) PROVE LoginBounds'
  <2>1. /\ hiccups < MaxHiccups /\ hiccups' = hiccups + 1
        /\ UNCHANGED <<local, restarts>> /\ expires' \in {expires, now + Window}
    BY <1>5 DEF Login!Hiccup
  <2>2. expires' <= Login!Never
    BY <1>0, <2>1 DEF LoginBounds
  <2>3. hiccups' \in 0..MaxHiccups
    BY <1>0, <2>1 DEF LoginBounds
  <2> QED
    BY <1>0, <2>1, <2>2, <2>3 DEF LoginBounds
<1>6. ASSUME NEW p \in Processes, Login!Restart(p) PROVE LoginBounds'
  <2>1. /\ restarts < MaxRestarts /\ restarts' = restarts + 1
        /\ local' = [local EXCEPT ![p] = {}] /\ UNCHANGED <<hiccups, expires>>
    BY <1>6 DEF Login!Restart
  <2>2. restarts' \in 0..MaxRestarts
    BY <1>0, <2>1 DEF LoginBounds
  <2>3. IsFiniteSet({}) /\ Cardinality({}) = 0
    BY FS_EmptySet
  <2>4. \A q \in Processes : local'[q] = {} \/ local'[q] = local[q]
    BY <1>0, <2>1
  <2>5. \A q \in Processes : IsFiniteSet(local'[q]) /\ Cardinality(local'[q]) <= Limit
    <3> TAKE q \in Processes
    <3>1. CASE local'[q] = {}
      <4>1. 0 <= Limit
        BY <1>0
      <4> QED
        BY <2>3, <3>1, <4>1
    <3>2. CASE local'[q] = local[q]
      BY <3>2 DEF LoginBounds
    <3> QED
      BY <2>4, <3>1, <3>2
  <2> QED
    BY <1>0, <2>1, <2>2, <2>5 DEF LoginBounds
<1>7. ASSUME NEW p \in Processes, Login!Local(p) PROVE LoginBounds'
  <2> DEFINE recent == {i \in local[p] : now - asked[i] < Window}
  <2>1. /\ UNCHANGED <<hiccups, restarts, expires>>
        /\ \/ local' = [local EXCEPT ![p] = recent]
           \/ /\ ~(Login!Cardinality(recent) >= Limit)
              /\ local' = [local EXCEPT ![p] = recent \cup {mine[p]}]
    BY <1>7 DEF Login!Local
  <2>2. /\ IsFiniteSet(local[p]) /\ Cardinality(local[p]) <= Limit
        /\ Cardinality(local[p]) \in Nat
    BY FS_CardinalityType DEF LoginBounds
  <2>3. recent \subseteq local[p]
    OBVIOUS
  <2> HIDE DEF recent
  <2>4. /\ IsFiniteSet(recent) /\ Cardinality(recent) \in Nat
        /\ Cardinality(recent) <= Cardinality(local[p])
    BY <2>2, <2>3, FS_Subset, FS_CardinalityType
  <2>5. /\ IsFiniteSet(recent \cup {mine[p]})
        /\ Cardinality(recent \cup {mine[p]}) \in {Cardinality(recent), Cardinality(recent) + 1}
    BY <2>4, FS_AddElement
  <2>6. IsFiniteSet(local'[p]) /\ Cardinality(local'[p]) <= Limit
    <3>1. CASE local' = [local EXCEPT ![p] = recent]
      <4>1. local'[p] = recent
        BY <1>0, <3>1
      <4> QED
        BY <1>0, <2>2, <2>4, <4>1
    <3>2. CASE /\ ~(Login!Cardinality(recent) >= Limit)
               /\ local' = [local EXCEPT ![p] = recent \cup {mine[p]}]
      <4>1. local'[p] = recent \cup {mine[p]}
        BY <1>0, <3>2
      <4>2. ~(Cardinality(recent) >= Limit)
        BY <3>2, SameLogin
      <4>3. Cardinality(recent) + 1 <= Limit /\ Cardinality(recent) <= Limit
        BY <1>0, <2>4, <4>2
      <4> QED
        BY <2>5, <4>1, <4>3
    <3> QED
      BY <2>1, <3>1, <3>2
  <2>7. \A q \in Processes : q # p => local'[q] = local[q]
    BY <1>0, <2>1
  <2>8. \A q \in Processes : IsFiniteSet(local'[q]) /\ Cardinality(local'[q]) <= Limit
    BY <2>6, <2>7 DEF LoginBounds
  <2> QED
    BY <1>0, <2>1, <2>8 DEF LoginBounds
<1>8. CASE UNCHANGED Login!vars
  BY <1>1, <1>8 DEF Login!vars, LoginBounds
<1> QED
  BY <1>2, <1>3, <1>4, <1>5, <1>6, <1>7, <1>8 DEF Login!Next

\* The list a process falls back on holds no more attempts than the limit
\* (_check_login_rate_local); the counter and its expiry keep their types.
THEOREM LoginTypeCorrect == Login!Spec => []Login!TypeOK
<1>1. Login!Init => LoginType /\ LoginInv /\ LoginBounds
  <2> SUFFICES ASSUME Login!Init PROVE LoginType /\ LoginInv /\ LoginBounds
    OBVIOUS
  <2>1. Today = {} /\ Uncounted = {}
    BY DEF Login!Init, Today, Uncounted
  <2>2. Cardinality({}) = 0 /\ IsFiniteSet({})
    BY FS_EmptySet
  <2>3. LoginType
    BY RoutingAssumption, NeverType DEF Login!Init, LoginType, LoginPcs
  <2>4. LoginInv
    BY <2>1, <2>2 DEF Login!Init, LoginInv
  <2>5. \A p \in Processes : local[p] = {}
    BY DEF Login!Init
  <2>6. /\ Limit \in Nat /\ hiccups \in 0..MaxHiccups /\ restarts \in 0..MaxRestarts
        /\ expires <= Login!Never
    BY LoginAssumption, NeverType DEF Login!Init
  <2>7. LoginBounds
    BY <2>2, <2>5, <2>6 DEF LoginBounds
  <2> QED
    BY <2>3, <2>4, <2>7
<1>2. LoginType /\ LoginBounds => Login!TypeOK
  <2> SUFFICES ASSUME LoginType, LoginBounds PROVE Login!TypeOK
    OBVIOUS
  <2>1. now \in 0..(MaxTime + 1) /\ expires \in 0..Login!Never
    BY RoutingAssumption, NeverType DEF LoginType, LoginBounds
  <2>2. \A p \in Processes : Login!Cardinality(local[p]) <= Limit
    BY SameLogin DEF LoginBounds
  <2> QED
    BY <2>1, <2>2 DEF Login!TypeOK, LoginType, LoginBounds, LoginPcs
<1> QED
  BY <1>1, <1>2, LoginTypeStep, LoginStep, LoginBoundsStep, PTL DEF Login!Spec

-----------------------------------------------------------------------------
\* What a request to a compatible API goes through.
RelayPcs == {"key", "body", "post", "open", "stream", "close", "done"}

RelayType ==
    /\ apiPc \in RelayPcs
    /\ status \in {0, 200, 400, 401, 403, 502}
    /\ reason \in {"end_turn", "max_tokens"}
    /\ lines \in Seq(Relaying!Lines) /\ Len(lines) <= MaxLines
    /\ secret \in BOOLEAN /\ disabled \in BOOLEAN /\ streaming \in BOOLEAN

LEMMA RelayTypeStep == RelayType /\ [Relaying!Next]_(Relaying!vars) => RelayType'
<1> SUFFICES ASSUME RelayType, [Relaying!Next]_(Relaying!vars) PROVE RelayType'
  OBVIOUS
<1> USE DEF RelayType, RelayPcs
<1>a. ASSUME NEW code \in {200, 400, 401, 403, 502}, Relaying!Respond(code) PROVE RelayType'
  BY <1>a DEF Relaying!Respond
<1>1. CASE Relaying!KeyChanges
  <2>1. disabled' \in BOOLEAN /\ secret' \in BOOLEAN
    BY <1>1, Zenon DEF Relaying!KeyChanges
  <2> QED
    BY <1>1, <2>1 DEF Relaying!KeyChanges
<1>2. CASE Relaying!Authenticate
  BY <1>2, <1>a DEF Relaying!Authenticate
<1>3. CASE Relaying!Accept
  BY <1>3, <1>a DEF Relaying!Accept
<1>4. CASE Relaying!Post
  BY <1>4, <1>a DEF Relaying!Post
<1>5. CASE Relaying!Open
  BY <1>5 DEF Relaying!Open
<1>6. CASE Relaying!Fails
  BY <1>6 DEF Relaying!Fails
<1>7. CASE Relaying!Line
  <2>1. PICK line \in Relaying!Lines : lines' = Append(lines, line)
    BY <1>7 DEF Relaying!Line
  <2>2. lines' \in Seq(Relaying!Lines) /\ Len(lines') = Len(lines) + 1
    BY <2>1
  <2>3. Len(lines) < MaxLines /\ Len(lines) \in Nat /\ MaxLines \in Nat
    BY <1>7, RelayAssumption DEF Relaying!Line
  <2>4. Len(lines') <= MaxLines
    BY <2>2, <2>3
  <2>5. /\ apiPc' \in RelayPcs /\ reason' \in {"end_turn", "max_tokens"}
        /\ UNCHANGED <<secret, disabled, streaming, status>>
    BY <1>7 DEF Relaying!Line
  <2> QED
    BY <2>2, <2>4, <2>5
<1>8. CASE Relaying!Close
  BY <1>8 DEF Relaying!Close
<1>9. CASE Relaying!Leaves
  BY <1>9 DEF Relaying!Leaves
<1>10. CASE UNCHANGED Relaying!vars
  BY <1>10 DEF Relaying!vars
<1> QED
  BY <1>1, <1>2, <1>3, <1>4, <1>5, <1>6, <1>7, <1>8, <1>9, <1>10 DEF Relaying!Next

\* A request to a compatible API keeps its types (_user_from_key, _anthropic_stream).
THEOREM RelayingTypeCorrect == Relaying!Spec => []Relaying!TypeOK
<1>1. Relaying!Init => RelayType
  <2>1. <<>> \in Seq(Relaying!Lines) /\ Len(<<>>) = 0
    OBVIOUS
  <2>2. 0 <= MaxLines
    BY RelayAssumption
  <2> SUFFICES ASSUME Relaying!Init PROVE RelayType
    OBVIOUS
  <2>3. lines \in Seq(Relaying!Lines) /\ Len(lines) <= MaxLines
    BY <2>1, <2>2 DEF Relaying!Init
  <2>4. /\ apiPc \in RelayPcs /\ status = 0 /\ reason = "end_turn"
        /\ secret \in BOOLEAN /\ disabled \in BOOLEAN /\ streaming \in BOOLEAN
    BY DEF Relaying!Init, RelayPcs
  <2> QED
    BY <2>3, <2>4 DEF RelayType
<1>2. RelayType => Relaying!TypeOK
  BY DEF RelayType, RelayPcs, Relaying!TypeOK
<1> QED
  BY <1>1, <1>2, RelayTypeStep, PTL DEF Relaying!Spec

-----------------------------------------------------------------------------
(* The parts together. *)

\* A behaviour of the parts together is one of each part.
LEMMA PartsRun ==
    MCSpec => /\ Routing!Spec /\ Answering!Spec /\ Grounding!Spec /\ Loading!Spec
              /\ Login!Spec /\ Relaying!Spec
<1>1. MCInit => /\ Routing!Init /\ Answering!Init /\ Grounding!Init /\ Loading!Init
                /\ Login!Init /\ Relaying!Init
  BY DEF MCInit
<1> USE DEF MCNext, all
<1>2. [MCNext]_all => [Routing!Next]_(Routing!vars)
  BY DEF routing, Routing!vars, Routing!requestVars
<1>3. [MCNext]_all => [Answering!Next]_(Answering!vars)
  BY DEF answering, Answering!vars
<1>4. [MCNext]_all => [Grounding!Next]_(Grounding!vars)
  BY DEF grounding, Grounding!vars
<1>5. [MCNext]_all => [Loading!Next]_(Loading!vars)
  BY DEF loading, Loading!vars
<1>6. [MCNext]_all => [Login!Next]_(Login!vars)
  BY DEF login, Login!vars
<1>7. [MCNext]_all => [Relaying!Next]_(Relaying!vars)
  BY DEF relaying, Relaying!vars
<1> QED
  BY <1>1, <1>2, <1>3, <1>4, <1>5, <1>6, <1>7, PTL
  DEF MCSpec, Routing!Spec, Answering!Spec, Grounding!Spec, Loading!Spec, Login!Spec,
      Relaying!Spec

\* Every part keeps its types, whatever the others do.
THEOREM TypesCorrect == MCSpec => []TypesOK
<1>1. MCInit => part \in Parts
  BY DEF MCInit
<1>2. part \in Parts /\ [MCNext]_all => (part \in Parts)'
  BY DEF MCNext, all, Parts
<1>3. /\ part \in Parts
      /\ Routing!TypeOK /\ Answering!TypeOK /\ Grounding!TypeOK /\ Loading!TypeOK
      /\ Login!TypeOK /\ Relaying!TypeOK
      => TypesOK
  BY DEF TypesOK, Parts
<1> QED
  BY <1>1, <1>2, <1>3, PartsRun, RoutingTypeCorrect, AnsweringTypeCorrect, ContextTypeCorrect,
     LoadTypeCorrect, LoginTypeCorrect, RelayingTypeCorrect, PTL DEF MCSpec

\* What is promised of the parts holds when they run side by side.
THEOREM PartsKeepTheirPromises ==
    MCSpec => /\ RoutingIsCurrent /\ ExcerptsAreBest /\ BudgetKeepsNewest
              /\ [](GoneStops /\ StoredIsStreamed /\ RequestSound /\ CitationsResolve)
              /\ [](ChunksFaithful /\ FallbackIsFair /\ StreamTellsAll)
BY PartsRun, RoutingStaysCurrent, DepartureStopsWork, StoredWasStreamed, RoundsCanBeAnswered,
   CitationsAreResolved, ExcerptsStayBest, BudgetKeepsTheNewest, ChunksStayFaithful,
   RefusalsAreFair, StreamsTellAll, PTL
=============================================================================
