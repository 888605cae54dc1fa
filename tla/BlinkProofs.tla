----------------------------- MODULE BlinkProofs -----------------------------
(* Proofs about the blinking characters, for any number of structures, any   *)
(* arguments, counters of any width and any number of calls.                 *)
EXTENDS Blink, SequenceTheorems, FiniteSetTheorems, WellFoundedInduction, TLAPS

Address == Nodes \cup {NULL, WILD}

LEMMA NoNodes ==
  /\ N \in Nat /\ NULL \notin Nodes /\ WILD \notin Nodes /\ NULL # WILD
  /\ Nodes \subseteq Int
BY BlinkAssumption DEF NULL, WILD, Nodes

-----------------------------------------------------------------------------
(* Walks.                                                                    *)

LEMMA LeastElement ==
  ASSUME NEW T, T \subseteq Nat, T # {}
  PROVE  \E x \in T : \A y \in T : x <= y
<1> DEFINE R == OpToRel(<, Nat)
<1>1. IsWellFoundedOn(R, Nat)
  BY NatLessThanWellFounded DEF OpToRel
<1>2. \A x, y \in Nat : y < x => <<y, x>> \in R
  BY DEF OpToRel
<1> HIDE DEF R
<1>3. PICK x \in T : \A y \in T : <<y, x>> \notin R
  BY <1>1, WFMin
<1>4. \A y \in T : ~(y < x)
  BY <1>2, <1>3
<1>5. \A y \in T : x <= y
  <2> HIDE DEF R
  <2> QED BY <1>4
<1> QED BY <1>5

\* One of the two walks is not ahead of the other.
LEMMA WalkFollowed ==
  ASSUME NEW s \in Seq(Nodes), NEW t \in Seq(Nodes), IsWalk(s), IsWalk(t)
  PROVE  \A i \in 1 .. Len(s) : i \in 1 .. Len(t) /\ t[i] = s[i]
<1> DEFINE Off == {i \in 1 .. Len(s) : ~(i \in 1 .. Len(t) /\ t[i] = s[i])}
<1> SUFFICES ASSUME Off # {} PROVE FALSE
  OBVIOUS
<1>1. Len(s) \in Nat /\ Len(t) \in Nat /\ Off \subseteq Nat
  BY LenProperties
<1>2. PICK i \in Off : \A j \in Off : i <= j
  <2> HIDE DEF Off
  <2> QED BY <1>1, LeastElement
<1>3. \A j \in 1 .. i - 1 : j \in 1 .. Len(t) /\ t[j] = s[j]
  <2> SUFFICES ASSUME NEW j \in 1 .. i - 1 PROVE j \notin Off
    BY <1>1, <1>2
  <2> HIDE DEF Off
  <2> QED BY <1>1, <1>2
<1>4. i \in 1 .. Len(s) /\ ~(i \in 1 .. Len(t) /\ t[i] = s[i])
  BY <1>2
<1> HIDE DEF Off
<1>5. \A j \in 1 .. Len(s) : s[j] \in Nodes
  BY ElementOfSeq
<1>6. CASE i = 1
  <2>1. s # <<>> /\ s[1] \in Nodes
    BY <1>4, <1>5, <1>6
  <2>2. t # <<>> /\ t[1] = s[1]
    BY <2>1 DEF IsWalk
  <2>3. Len(t) # 0
    BY <2>2, EmptySeq
  <2> QED BY <1>1, <1>4, <1>6, <2>2, <2>3
<1>7. CASE i # 1
  <2>1. /\ i - 1 \in 1 .. i - 1 /\ i - 1 \in 1 .. Len(s) - 1 /\ (i - 1) + 1 = i
        /\ i - 1 \in 1 .. Len(t)
    BY <1>1, <1>3, <1>4, <1>7
  <2>2. mem[s[i - 1]].next = s[i] /\ t[i - 1] = s[i - 1]
    BY <1>3, <2>1 DEF IsWalk
  <2>3. CASE i \in 1 .. Len(t)
    <3>1. i - 1 \in 1 .. Len(t) - 1
      BY <1>1, <2>1, <2>3
    <3>2. mem[t[i - 1]].next = t[i]
      BY <2>1, <3>1 DEF IsWalk
    <3> QED BY <1>4, <2>2, <2>3, <3>2
  <2>4. CASE i \notin 1 .. Len(t)
    <3>1. Len(t) = i - 1 /\ t # <<>>
      BY <1>1, <1>4, <2>1, <2>4
    <3>2. s[i] \in Range(t)
      BY <1>4, <1>5, <2>2, <3>1 DEF IsWalk
    <3>3. PICK j \in 1 .. Len(t) : t[j] = s[i]
      BY <3>2 DEF Range
    <3>4. j \in 1 .. i - 1 /\ j \in 1 .. Len(s) /\ j # i
      BY <1>1, <1>4, <3>1, <3>3
    <3>5. s[j] = s[i]
      BY <1>3, <3>3, <3>4
    <3> QED BY <1>4, <3>4, <3>5 DEF IsWalk
  <2> QED BY <2>3, <2>4
<1> QED BY <1>6, <1>7

LEMMA WalkUnique ==
  ASSUME NEW s \in Seq(Nodes), NEW t \in Seq(Nodes), IsWalk(s), IsWalk(t)
  PROVE  s = t
<1>1. Len(s) \in Nat /\ Len(t) \in Nat
  BY LenProperties
<1>2. \A i \in 1 .. Len(s) : i \in 1 .. Len(t) /\ t[i] = s[i]
  BY WalkFollowed
<1>3. \A i \in 1 .. Len(t) : i \in 1 .. Len(s)
  BY WalkFollowed
<1>4. Len(s) = Len(t)
  <2>1. Len(s) # 0 => Len(s) \in 1 .. Len(s)
    BY <1>1
  <2>2. Len(t) # 0 => Len(t) \in 1 .. Len(t)
    BY <1>1
  <2>3. Len(s) <= Len(t) /\ Len(t) <= Len(s)
    BY <1>1, <1>2, <1>3, <2>1, <2>2
  <2> QED BY <1>1, <2>3
<1> QED BY <1>2, <1>4, SeqEqual

\* A walk is no longer than there are nodes.
LEMMA WalkShort ==
  ASSUME NEW s \in Seq(Nodes), IsWalk(s)
  PROVE  s \in Walks
<1>1. Len(s) \in Nat /\ s \in [1 .. Len(s) -> Nodes]
  BY LenProperties
<1>2. s \in Injection(1 .. Len(s), Nodes)
  BY <1>1 DEF IsWalk, Injection, IsInjective
<1>3. IsFiniteSet(Nodes) /\ Cardinality(Nodes) = N
  BY NoNodes, FS_Interval DEF Nodes
<1>4. Cardinality(1 .. Len(s)) = Len(s)
  BY <1>1, FS_Interval, SMTT(30)
<1>5. Len(s) <= N
  BY <1>2, <1>3, <1>4, FS_Injection
<1>6. Len(s) \in 0 .. N
  BY <1>1, <1>5, NoNodes
<1>7. \E m \in 0 .. N : s \in [1 .. m -> Nodes]
  BY <1>1, <1>6
<1> QED BY <1>7 DEF Walks, SeqOf

\* The list is the walk there is.
LEMMA ListIs ==
  ASSUME NEW s \in Seq(Nodes), IsWalk(s)
  PROVE  List = s
<1>1. s \in Walks
  BY WalkShort, Zenon
<1>2. List \in Walks /\ IsWalk(List)
  BY <1>1 DEF List
<1>3. List \in Seq(Nodes)
  <2>1. PICK m \in 0 .. N : List \in [1 .. m -> Nodes]
    BY <1>2 DEF Walks, SeqOf
  <2> QED BY <2>1, NoNodes, IsASeq
<1> QED BY <1>2, <1>3, WalkUnique

LEMMA ListNow == \A s \in Seq(Nodes) : IsWalk(s) => List = s
BY ListIs

LEMMA ListNext == \A s \in Seq(Nodes) : IsWalk(s)' => List' = s
<1>1. (\A s \in Seq(Nodes) : IsWalk(s) => List = s)'
  BY ListNow, PTL
<1> QED BY <1>1

-----------------------------------------------------------------------------
(* Chains: what the list is at every step, a walk from h along nx that ends  *)
(* at an address that is no node.                                            *)

Chain(s, h, nx) ==
  /\ s \in Seq(Nodes)
  /\ IF s = <<>> THEN h \notin Nodes ELSE h = s[1]
  /\ \A i \in 1 .. Len(s) - 1 : nx[s[i]] = s[i + 1]
  /\ \A i, j \in 1 .. Len(s) : s[i] = s[j] => i = j
  /\ s # <<>> => nx[s[Len(s)]] \notin Nodes

Nx == [n \in Nodes |-> mem[n].next]

LEMMA SeqIs ==
  ASSUME NEW S, NEW n \in Nat, NEW t \in [1 .. n -> S]
  PROVE  t \in Seq(S) /\ Len(t) = n
<1>1. t \in Seq(S)
  BY SeqDef
<1>2. Len(t) \in Nat /\ DOMAIN t = 1 .. Len(t) /\ DOMAIN t = 1 .. n
  BY <1>1, LenProperties
<1> QED BY <1>1, <1>2

LEMMA ChainElements ==
  ASSUME NEW s, NEW h, NEW nx, Chain(s, h, nx)
  PROVE  /\ Len(s) \in Nat /\ s \in Seq(Nodes)
         /\ s = <<>> <=> Len(s) = 0
         /\ DOMAIN s = 1 .. Len(s)
         /\ \A i \in 1 .. Len(s) : s[i] \in Nodes
         /\ Range(s) = {s[i] : i \in 1 .. Len(s)}
         /\ Range(s) \subseteq Nodes
         /\ s = <<>> <=> h \notin Nodes
         /\ s = <<>> <=> Range(s) = {}
<1>1. /\ Len(s) \in Nat /\ s \in Seq(Nodes) /\ DOMAIN s = 1 .. Len(s)
      /\ \A i \in 1 .. Len(s) : s[i] \in Nodes
  BY LenProperties, ElementOfSeq DEF Chain
<1>2. s = <<>> <=> Len(s) = 0
  BY <1>1, EmptySeq
<1>3. Range(s) = {s[i] : i \in 1 .. Len(s)}
  BY <1>1 DEF Range
<1>4. s # <<>> => 1 \in 1 .. Len(s)
  BY <1>1, <1>2
<1>5. s = <<>> <=> h \notin Nodes
  BY <1>1, <1>4 DEF Chain
<1>6. s = <<>> <=> Range(s) = {}
  BY <1>1, <1>2, <1>3, <1>4
<1> QED BY <1>1, <1>2, <1>3, <1>5, <1>6

\* A chain does not see what is not in it.
LEMMA SameChain ==
  ASSUME NEW s, NEW h, NEW nx, NEW ny, Chain(s, h, nx),
         \A n \in Range(s) : ny[n] = nx[n]
  PROVE  Chain(s, h, ny)
<1>1. \A i \in 1 .. Len(s) : ny[s[i]] = nx[s[i]]
  BY ChainElements
<1>2. Len(s) \in Nat /\ (s # <<>> => Len(s) \in 1 .. Len(s))
  BY ChainElements
<1>3. \A i \in 1 .. Len(s) - 1 : i \in 1 .. Len(s)
  BY <1>2
<1> QED BY <1>1, <1>2, <1>3 DEF Chain

\* A node put in front.
LEMMA ChainInsert ==
  ASSUME NEW s, NEW h, NEW nx, Chain(s, h, nx),
         NEW n \in Nodes, n \notin Range(s), s = <<>> => nx[n] \notin Nodes, s # <<>> => nx[n] = h
  PROVE  \E t : Chain(t, n, nx) /\ Range(t) = Range(s) \cup {n}
<1> DEFINE L == Len(s)
           t == [i \in 1 .. L + 1 |-> IF i = 1 THEN n ELSE s[i - 1]]
<1>1. /\ L \in Nat /\ s = <<>> <=> L = 0
      /\ \A i \in 1 .. L : s[i] \in Nodes
      /\ Range(s) = {s[i] : i \in 1 .. L}
  BY ChainElements
<1>2. \A i \in 1 .. L + 1 : i = 1 \/ i - 1 \in 1 .. L
  BY <1>1
<1>3. /\ t \in [1 .. L + 1 -> Nodes] /\ t[1] = n
      /\ \A i \in 1 .. L : i + 1 \in 1 .. L + 1 /\ t[i + 1] = s[i]
      /\ \A i \in 1 .. L + 1 : i # 1 => t[i] = s[i - 1]
  BY <1>1, <1>2
<1>4. t \in Seq(Nodes) /\ Len(t) = L + 1
  BY <1>1, <1>3, SeqIs
<1> HIDE DEF t
<1>5. t # <<>>
  BY <1>1, <1>4, EmptySeq
<1>6. \A i \in 1 .. Len(t) - 1 : nx[t[i]] = t[i + 1]
  <2> SUFFICES ASSUME NEW i \in 1 .. L PROVE nx[t[i]] = s[i]
    BY <1>1, <1>3, <1>4
  <2>1. CASE i = 1
    BY <1>1, <1>3, <2>1 DEF Chain
  <2>2. CASE i # 1
    <3>1. i - 1 \in 1 .. L - 1 /\ (i - 1) + 1 = i /\ i \in 1 .. L + 1
      BY <1>1, <2>2
    <3> QED BY <1>3, <2>2, <3>1, ZenonT(30) DEF Chain
  <2> QED BY <2>1, <2>2
<1>7. \A i, j \in 1 .. Len(t) : t[i] = t[j] => i = j
  <2> SUFFICES ASSUME NEW i \in 1 .. L + 1, NEW j \in 1 .. L + 1, t[i] = t[j]
               PROVE  i = j
    BY <1>4
  <2>1. CASE i # 1 /\ j # 1
    <3>1. i - 1 \in 1 .. L /\ j - 1 \in 1 .. L /\ s[i - 1] = s[j - 1]
      BY <1>2, <1>3, <2>1
    <3>2. i - 1 = j - 1
      BY <3>1 DEF Chain
    <3> QED BY <1>1, <3>2
  <2>2. CASE i = 1 \/ j = 1
    BY <1>1, <1>2, <1>3, <2>2
  <2> QED BY <2>1, <2>2
<1>8. nx[t[Len(t)]] \notin Nodes
  <2>1. CASE L = 0
    BY <1>1, <1>3, <1>4, <2>1
  <2>2. CASE L # 0
    <3>1. t[L + 1] = s[L]
      BY <1>1, <1>3, <2>2
    <3> QED BY <1>1, <1>4, <2>2, <3>1 DEF Chain
  <2> QED BY <2>1, <2>2
<1>9. Chain(t, n, nx)
  BY <1>3, <1>4, <1>5, <1>6, <1>7, <1>8 DEF Chain
<1>10. Range(t) = Range(s) \cup {n}
  <2>1. Range(t) = {t[i] : i \in 1 .. L + 1}
    BY <1>4, <1>9, ChainElements
  <2>2. ASSUME NEW i \in 1 .. L + 1 PROVE t[i] \in Range(s) \cup {n}
    BY <1>1, <1>2, <1>3
  <2>3. n \in Range(t)
    BY <1>1, <1>3, <2>1
  <2>4. ASSUME NEW i \in 1 .. L PROVE s[i] \in Range(t)
    BY <1>3, <2>1
  <2> QED BY <1>1, <2>1, <2>2, <2>3, <2>4
<1> QED BY <1>9, <1>10

\* The first node taken out.
LEMMA ChainTail ==
  ASSUME NEW s, NEW h, NEW nx, Chain(s, h, nx), h \in Range(s)
  PROVE  \E t : Chain(t, nx[h], nx) /\ Range(t) = Range(s) \ {h}
<1> DEFINE L == Len(s)
           t == [i \in 1 .. L - 1 |-> s[i + 1]]
<1>1. /\ L \in Nat /\ L # 0 /\ s # <<>>
      /\ \A i \in 1 .. L : s[i] \in Nodes
      /\ Range(s) = {s[i] : i \in 1 .. L}
  BY ChainElements
<1>2. \A i \in 1 .. L - 1 : i + 1 \in 1 .. L /\ i \in 1 .. L
  BY <1>1
<1>3. h = s[1]
  BY <1>1 DEF Chain
<1>4. /\ t \in Seq(Nodes) /\ Len(t) = L - 1
      /\ \A i \in 1 .. L - 1 : t[i] = s[i + 1]
  <2>1. t \in [1 .. L - 1 -> Nodes] /\ L - 1 \in Nat
    BY <1>1, <1>2
  <2>2. \A i \in 1 .. L - 1 : t[i] = s[i + 1]
    OBVIOUS
  <2> HIDE DEF t
  <2> QED BY <2>1, <2>2, SeqIs
<1> HIDE DEF t
<1>5. IF t = <<>> THEN nx[h] \notin Nodes ELSE nx[h] = t[1]
  <2>1. CASE L = 1
    <3>1. t = <<>>
      BY <1>4, <2>1, EmptySeq
    <3> QED BY <1>1, <1>3, <2>1, <3>1 DEF Chain
  <2>2. CASE L # 1
    <3>1. 1 \in 1 .. L - 1 /\ t # <<>>
      BY <1>1, <1>4, <2>2, EmptySeq
    <3>2. nx[s[1]] = s[1 + 1]
      BY <3>1 DEF Chain
    <3> QED BY <1>3, <1>4, <3>1, <3>2
  <2> QED BY <2>1, <2>2
<1>6. \A i \in 1 .. Len(t) - 1 : nx[t[i]] = t[i + 1]
  <2> SUFFICES ASSUME NEW i \in 1 .. L - 2 PROVE nx[s[i + 1]] = s[(i + 1) + 1]
    BY <1>1, <1>4, SMTT(30)
  <2>1. i + 1 \in 1 .. L - 1
    BY <1>1
  <2> QED BY <2>1 DEF Chain
<1>7. \A i, j \in 1 .. Len(t) : t[i] = t[j] => i = j
  <2> SUFFICES ASSUME NEW i \in 1 .. L - 1, NEW j \in 1 .. L - 1, s[i + 1] = s[j + 1]
               PROVE  i = j
    BY <1>4
  <2>1. i + 1 = j + 1
    BY <1>2 DEF Chain
  <2> QED BY <1>1, <2>1
<1>8. t # <<>> => nx[t[Len(t)]] \notin Nodes
  <2> SUFFICES ASSUME t # <<>> PROVE nx[t[Len(t)]] \notin Nodes
    OBVIOUS
  <2>1. L - 1 # 0
    BY <1>4, EmptySeq
  <2>2. L - 1 \in 1 .. L - 1 /\ (L - 1) + 1 = L
    <3> HIDE DEF L
    <3> QED BY <1>1, <2>1
  <2>3. t[Len(t)] = s[L]
    BY <1>4, <2>2
  <2> QED BY <1>1, <2>3 DEF Chain
<1>9. Chain(t, nx[h], nx)
  BY <1>4, <1>5, <1>6, <1>7, <1>8 DEF Chain
<1>10. Range(t) = Range(s) \ {h}
  <2>1. Range(t) = {t[i] : i \in 1 .. L - 1}
    BY <1>4, <1>9, ChainElements
  <2>2. ASSUME NEW i \in 1 .. L - 1 PROVE t[i] \in Range(s) \ {h}
    <3>1. i + 1 # 1 /\ 1 \in 1 .. L
      BY <1>1
    <3>2. s[i + 1] # s[1]
      BY <1>2, <3>1 DEF Chain
    <3> QED BY <1>1, <1>2, <1>3, <1>4, <3>2
  <2>3. ASSUME NEW i \in 1 .. L, s[i] # h PROVE s[i] \in Range(t)
    <3>1. i - 1 \in 1 .. L - 1 /\ (i - 1) + 1 = i
      BY <1>1, <1>3, <2>3
    <3> QED BY <1>4, <2>1, <3>1
  <2> QED BY <1>1, <2>1, <2>2, <2>3
<1> QED BY <1>9, <1>10

\* Every node but the first has one before it,
LEMMA ChainPrevious ==
  ASSUME NEW s, NEW h, NEW nx, Chain(s, h, nx), NEW n \in Range(s), n # h
  PROVE  \E p \in Range(s) : nx[p] = n
<1>1. /\ Len(s) \in Nat /\ s # <<>>
      /\ Range(s) = {s[i] : i \in 1 .. Len(s)}
  BY ChainElements
<1>2. PICK k \in 1 .. Len(s) : s[k] = n
  BY <1>1
<1>3. k # 1
  BY <1>1, <1>2 DEF Chain
<1>4. k - 1 \in 1 .. Len(s) - 1 /\ k - 1 \in 1 .. Len(s) /\ (k - 1) + 1 = k
  BY <1>1, <1>3
<1>5. nx[s[k - 1]] = n
  BY <1>2, <1>4 DEF Chain
<1> QED BY <1>1, <1>4, <1>5

\* and is taken out when that one points past it.
LEMMA ChainCut ==
  ASSUME NEW s, NEW h, NEW nx, NEW ny, Chain(s, h, nx),
         NEW n \in Range(s), NEW p \in Range(s), nx[p] = n, n # h,
         ny[p] = nx[n], \A m \in Range(s) \ {p} : ny[m] = nx[m]
  PROVE  \E t : Chain(t, h, ny) /\ Range(t) = Range(s) \ {n}
<1> DEFINE L == Len(s)
<1>1. /\ L \in Nat /\ L # 0 /\ s # <<>>
      /\ \A i \in 1 .. L : s[i] \in Nodes
      /\ Range(s) = {s[i] : i \in 1 .. L}
  BY ChainElements
<1>2. PICK k \in 1 .. L : s[k] = n
  BY <1>1
<1>3. PICK q \in 1 .. L : s[q] = p
  BY <1>1
<1>4. k = q + 1
  <2>1. q # L
    BY <1>1, <1>2, <1>3 DEF Chain
  <2>2. q \in 1 .. L - 1 /\ q + 1 \in 1 .. L
    BY <1>1, <2>1
  <2>3. s[q + 1] = n
    BY <1>3, <2>2 DEF Chain
  <2> QED BY <1>2, <2>2, <2>3 DEF Chain
<1> DEFINE t == [i \in 1 .. L - 1 |-> IF i < k THEN s[i] ELSE s[i + 1]]
<1>5. \A i \in 1 .. L - 1 : i + 1 \in 1 .. L /\ i \in 1 .. L
  BY <1>1
<1>6. /\ t \in Seq(Nodes) /\ Len(t) = L - 1
      /\ \A i \in 1 .. L - 1 : (i < k => t[i] = s[i]) /\ (k <= i => t[i] = s[i + 1])
  <2>1. t \in [1 .. L - 1 -> Nodes] /\ L - 1 \in Nat
    BY <1>1, <1>5
  <2>2. \A i \in 1 .. L - 1 : (i < k => t[i] = s[i]) /\ (k <= i => t[i] = s[i + 1])
    BY <1>1, <1>2
  <2> HIDE DEF t
  <2> QED BY <2>1, <2>2, SeqIs, SMTT(30)
<1> HIDE DEF t
<1>7. /\ \A i \in 1 .. L - 1 : nx[s[i]] = s[i + 1]
      /\ \A i, j \in 1 .. L : s[i] = s[j] => i = j
      /\ nx[s[L]] \notin Nodes /\ h = s[1]
  BY <1>1 DEF Chain
<1>8. /\ q \in 1 .. L - 1 /\ 1 \in 1 .. L - 1 /\ t # <<>>
      /\ k \in 1 .. L /\ ~(k < k)
  <2>1. q \in 1 .. L - 1 /\ 1 \in 1 .. L - 1 /\ L - 1 # 0 /\ ~(k < k)
    BY <1>1, <1>2, <1>3, <1>4
  <2> QED BY <1>2, <1>6, <2>1, EmptySeq
<1>9. \A i \in 1 .. L : i # q => ny[s[i]] = nx[s[i]]
  BY <1>1, <1>3, <1>7
<1>10. ny[s[q]] = nx[s[k]]
  BY <1>2, <1>3
<1>11. h = t[1]
  BY <1>1, <1>3, <1>4, <1>6, <1>7, <1>8
<1>12. \A i \in 1 .. Len(t) - 1 : ny[t[i]] = t[i + 1]
  <2> SUFFICES ASSUME NEW i \in 1 .. L - 2 PROVE ny[t[i]] = t[i + 1]
    BY <1>1, <1>6
  <2>0. /\ i \in 1 .. L - 1 /\ i + 1 \in 1 .. L - 1 /\ i \in 1 .. L /\ i + 1 \in 1 .. L
        /\ (i + 1) + 1 \in 1 .. L
    BY <1>1
  <2>1. CASE i + 1 < k
    <3>1. i # q /\ i < k
      BY <1>3, <1>4, <2>0, <2>1
    <3> QED BY <1>6, <1>7, <1>9, <2>0, <2>1, <3>1
  <2>2. CASE i + 1 = k
    <3>1. i = q /\ i < k /\ k <= i + 1 /\ k \in 1 .. L - 1
      BY <1>3, <1>4, <2>0, <2>2
    <3>2. t[i] = s[q] /\ t[i + 1] = s[k + 1]
      BY <1>6, <2>0, <2>2, <3>1
    <3>3. nx[s[k]] = s[k + 1]
      BY <1>7, <3>1
    <3> QED BY <1>10, <3>2, <3>3
  <2>3. CASE k < i + 1
    <3>1. k <= i /\ k <= i + 1 /\ i + 1 # q
      BY <1>2, <1>3, <1>4, <2>0, <2>3
    <3>2. t[i] = s[i + 1] /\ t[i + 1] = s[(i + 1) + 1]
      BY <1>6, <2>0, <3>1
    <3>3. nx[s[i + 1]] = s[(i + 1) + 1]
      BY <1>7, <2>0
    <3>4. ny[s[i + 1]] = nx[s[i + 1]]
      BY <1>9, <2>0, <3>1
    <3> QED BY <3>2, <3>3, <3>4
  <2> QED BY <1>2, <2>0, <2>1, <2>2, <2>3
<1>13. \A i, j \in 1 .. Len(t) : t[i] = t[j] => i = j
  <2> SUFFICES ASSUME NEW i \in 1 .. L - 1, NEW j \in 1 .. L - 1, t[i] = t[j]
               PROVE  i = j
    BY <1>6
  <2> DEFINE A == IF i < k THEN i ELSE i + 1
             B == IF j < k THEN j ELSE j + 1
  <2>1. t[i] = s[A] /\ t[j] = s[B] /\ A \in 1 .. L /\ B \in 1 .. L
    BY <1>1, <1>2, <1>5, <1>6
  <2>2. A = B
    <3> HIDE DEF A, B
    <3> QED BY <1>7, <2>1, ZenonT(30)
  <2> QED BY <1>1, <1>2, <2>2
<1>14. ny[t[Len(t)]] \notin Nodes
  <2>0. Len(t) = L - 1 /\ L - 1 \in 1 .. L - 1 /\ (L - 1) + 1 = L /\ L \in 1 .. L
    BY <1>1, <1>6, <1>8
  <2>1. CASE k <= L - 1
    <3>1. t[L - 1] = s[L] /\ L # q
      BY <1>1, <1>2, <1>4, <1>6, <2>0, <2>1
    <3> QED BY <1>7, <1>9, <2>0, <3>1
  <2>2. CASE ~(k <= L - 1)
    <3>1. k = L /\ q = L - 1 /\ L - 1 < k
      BY <1>1, <1>2, <1>3, <1>4, <2>2
    <3>2. t[L - 1] = s[q]
      BY <1>6, <2>0, <3>1
    <3> QED BY <1>7, <1>10, <2>0, <3>1, <3>2
  <2> QED BY <2>1, <2>2
<1>15. Chain(t, h, ny)
  BY <1>6, <1>8, <1>11, <1>12, <1>13, <1>14 DEF Chain
<1>16. Range(t) = Range(s) \ {n}
  <2>1. Range(t) = {t[i] : i \in 1 .. L - 1}
    BY <1>6, <1>15, ChainElements
  <2>2. ASSUME NEW i \in 1 .. L - 1 PROVE t[i] \in Range(s) \ {n}
    <3> DEFINE j == IF i < k THEN i ELSE i + 1
    <3>1. j \in 1 .. L /\ j # k
      BY <1>1, <1>2
    <3>2. t[i] = s[j]
      <4>1. CASE i < k
        BY <1>6, <4>1
      <4>2. CASE ~(i < k)
        <5>1. k <= i
          BY <1>1, <1>2, <4>2
        <5> QED BY <1>6, <4>2, <5>1
      <4> QED BY <4>1, <4>2
    <3> HIDE DEF j
    <3>3. s[j] # s[k]
      BY <1>7, <3>1
    <3> QED BY <1>1, <1>2, <3>1, <3>2, <3>3
  <2>3. ASSUME NEW i \in 1 .. L, s[i] # n PROVE s[i] \in Range(t)
    <3>1. CASE i < k
      <4>1. i \in 1 .. L - 1
        BY <1>1, <1>2, <3>1
      <4> QED BY <1>6, <2>1, <3>1, <4>1
    <3>2. CASE ~(i < k)
      <4>1. i - 1 \in 1 .. L - 1 /\ (i - 1) + 1 = i /\ k <= i - 1
        BY <1>1, <1>2, <2>3, <3>2
      <4>2. t[i - 1] = s[i]
        BY <1>6, <4>1
      <4> QED BY <2>1, <4>1, <4>2
    <3> QED BY <3>1, <3>2
  <2>4. Range(t) \subseteq Range(s) \ {n}
    BY <2>1, <2>2
  <2>5. Range(s) \ {n} \subseteq Range(t)
    BY <1>1, <2>3
  <2> QED BY <2>4, <2>5
<1> QED BY <1>15, <1>16

LEMMA ChainList == \A s : Chain(s, mp1_list_head, Nx) => List = s
<1> SUFFICES ASSUME NEW s, Chain(s, mp1_list_head, Nx) PROVE List = s
  OBVIOUS
<1>1. /\ s \in Seq(Nodes) /\ \A i \in 1 .. Len(s) : s[i] \in Nodes
      /\ Len(s) \in Nat /\ (s # <<>> => Len(s) \in 1 .. Len(s))
      /\ \A i \in 1 .. Len(s) - 1 : i \in 1 .. Len(s)
  <2>1. /\ s \in Seq(Nodes) /\ \A i \in 1 .. Len(s) : s[i] \in Nodes
        /\ Len(s) \in Nat /\ (s # <<>> => Len(s) # 0)
    BY ChainElements
  <2> QED BY <2>1
<1>2. \A i \in 1 .. Len(s) : Nx[s[i]] = mem[s[i]].next
  BY <1>1 DEF Nx
<1>3. IsWalk(s)
  BY <1>1, <1>2 DEF Chain, IsWalk
<1> QED BY <1>1, <1>3, ListIs

LEMMA ChainListNext == \A s : Chain(s, mp1_list_head', Nx') => List' = s
<1>1. (\A s : Chain(s, mp1_list_head, Nx) => List = s)'
  BY ChainList, PTL
<1> QED BY <1>1

-----------------------------------------------------------------------------
(* The inductive invariant.                                                  *)

Cell(m) ==
  /\ DOMAIN m = Fields /\ m.location \in Locations
  /\ m.on_length \in 0 .. WORD - 1 /\ m.off_length \in 0 .. WORD - 1
  /\ m.countdown \in 0 .. WORD - 1
  /\ m.status \in {0, 1} /\ m.next \in Address

CellInv ==
  /\ mp1_list_head \in Nodes \cup {NULL}
  /\ DOMAIN mem = Nodes /\ \A n \in Nodes : Cell(mem[n])

\* The list is a chain of allocated nodes that ends in NULL, but for the window
\* of insert_into_empty.
ListInv ==
  /\ Chain(List, mp1_list_head, Nx)
  /\ used \subseteq Nodes /\ Listed \subseteq used /\ leaked \subseteq used \ Listed
  /\ pc # "add_next" => \A n \in Listed : mem[n].next # WILD

\* The steps of an ioctl with a node that is not in the list, with one that is,
\* and those of SYNC, with two.
Fresh == {"add_check", "add_copy", "add_link", "add_publish", "add_head", "remove_free"}
Syncing == {"sync_lengths", "sync_countdown", "sync_status", "sync_char", "poke_sync"}
InList == {"add_next", "poke_add", "remove_unlink"} \cup Syncing

\* What the registers hold at each step, and that no other node is allocated.
RegInv ==
  /\ pc \in {"idle"} \cup Fresh \cup InList
  /\ pc = "idle" => esi = NULL
  /\ pc \notin Syncing => edi = NULL
  /\ pc \in Fresh => esi \in used \ (Listed \cup leaked)
  /\ pc \in InList => esi \in Listed
  /\ pc \in Syncing => edi \in Listed
  /\ pc = "add_head" => mp1_list_head = NULL /\ mem[esi].next \notin Nodes
  /\ pc = "add_next" => Listed = {esi}
  /\ pc = "add_publish" => mem[esi].next = mp1_list_head
  /\ wild \in BOOLEAN /\ (wild => pc = "add_next")
  /\ used \subseteq Listed \cup leaked \cup (IF pc \in Fresh THEN {esi} ELSE {})

\* The last writer of a location, still there and right, but for races.
ShowInv ==
  /\ DOMAIN screen = Locations /\ DOMAIN shown = Locations
  /\ \A loc \in Locations : shown[loc] # NULL =>
       /\ shown[loc] \in Listed \cup (IF pc = "remove_free" THEN {esi} ELSE {})
       /\ mem[shown[loc]].location = loc
       /\ \/ shown[loc] \in raced
          \/ pc \in {"sync_char", "poke_sync"} /\ shown[loc] = edi
          \/ screen[loc] = CharOf(mem[shown[loc]])

\* The character chosen is that of the node's state, but for races.
CharInv ==
  /\ pc \in {"add_link", "add_publish", "add_head"} => mem[esi].status = 1
  /\ pc \in {"add_next", "poke_add"} /\ esi \notin raced => mem[esi].status = 1
  /\ pc = "poke_add" => cl = mem[esi].on_char
  /\ pc = "poke_sync" /\ edi \notin raced => cl = CharOf(mem[edi])

SameLengths(m, n) == m.on_length = n.on_length /\ m.off_length = n.off_length
SameTiming(m, n) == m.status = n.status /\ m.countdown = n.countdown /\ SameLengths(m, n)

\* A pair in step has equal lengths too, and how far SYNC has come.
PairInv ==
  /\ pair \subseteq Listed
  /\ \A m, n \in pair : SameTiming(mem[m], mem[n])
  /\ pc \in {"sync_lengths", "sync_countdown", "sync_status"} => edi \notin pair
  /\ pc \in {"sync_countdown", "sync_status"} => SameLengths(mem[esi], mem[edi])
  /\ pc = "sync_status" /\ ~ticked => mem[esi].countdown = mem[edi].countdown

IInv == CellInv /\ ListInv /\ RegInv /\ ShowInv /\ CharInv /\ PairInv

-----------------------------------------------------------------------------
(* How a step changes the list and the nodes.                                *)

LEMMA ListedNodes ==
  ASSUME ListInv
  PROVE  Listed \subseteq Nodes /\ (mp1_list_head \in Nodes => mp1_list_head \in Listed)
<1>1. Range(List) \subseteq Nodes
  BY ChainElements DEF ListInv
<1>2. mp1_list_head \in Nodes => List # <<>> /\ List[1] = mp1_list_head /\ 1 \in DOMAIN List
  <2>1. List # <<>> <=> mp1_list_head \in Nodes
    BY ChainElements DEF ListInv
  <2>2. Len(List) \in Nat /\ DOMAIN List = 1 .. Len(List) /\ (List # <<>> => Len(List) # 0)
    BY ChainElements DEF ListInv
  <2>3. List # <<>> => List[1] = mp1_list_head
    BY DEF ListInv, Chain
  <2> QED BY <2>1, <2>2, <2>3
<1> QED BY <1>1, <1>2 DEF Listed, Range

\* A chain of the next state is its list.
LEMMA NewList ==
  ASSUME NEW t, Chain(t, mp1_list_head', Nx')
  PROVE  List' = t /\ Listed' = Range(t) /\ Chain(List, mp1_list_head, Nx)'
BY ChainListNext DEF Listed

\* What is not in the list does not change it.
LEMMA SameList ==
  ASSUME ListInv, mp1_list_head' = mp1_list_head, \A n \in Listed : mem'[n].next = mem[n].next
  PROVE  List' = List /\ Listed' = Listed /\ Chain(List, mp1_list_head, Nx)'
<1>1. \A n \in Range(List) : n \in Nodes
  BY ChainElements DEF ListInv
<1>2. \A n \in Range(List) : Nx'[n] = Nx[n]
  BY <1>1 DEF Nx, Listed
<1>3. Chain(List, mp1_list_head, Nx')
  BY <1>2, SameChain DEF ListInv
<1> QED BY <1>3, NewList DEF Listed

LEMMA SameMemory ==
  ASSUME ListInv, UNCHANGED <<mp1_list_head, mem>>
  PROVE  List' = List /\ Listed' = Listed /\ Chain(List, mp1_list_head, Nx)'
BY SameList

\* The fields that only the copy from the user writes.
SameLook(m, n) == /\ m.location = n.location /\ m.on_char = n.on_char
                  /\ m.off_char = n.off_char

LEMMA NextSet ==
  ASSUME CellInv, NEW n \in Nodes, NEW a \in Address, mem' = [mem EXCEPT ![n].next = a]
  PROVE  /\ DOMAIN mem' = Nodes /\ \A k \in Nodes : Cell(mem'[k])
         /\ mem'[n].next = a /\ \A k \in Nodes : k # n => mem'[k].next = mem[k].next
         /\ \A k \in Nodes : SameLook(mem'[k], mem[k]) /\ SameTiming(mem'[k], mem[k])
<1>1. /\ DOMAIN mem = Nodes /\ \A k \in Nodes : Cell(mem[k])
  BY DEF CellInv
<1>2. /\ DOMAIN mem' = Nodes /\ \A k \in Nodes : k # n => mem'[k] = mem[k]
      /\ mem'[n] = [mem[n] EXCEPT !.next = a]
  BY <1>1
<1> DEFINE m == mem[n]
           u == [m EXCEPT !.next = a]
<1>3. DOMAIN m = Fields
  BY <1>1 DEF Cell
<1>4. DOMAIN u = Fields /\ u.next = a /\ SameLook(u, m) /\ SameTiming(u, m)
  BY <1>3 DEF Fields, SameLook, SameTiming, SameLengths
<1>5. Cell(u)
  <2> HIDE DEF u
  <2> QED BY <1>1, <1>4 DEF Cell, SameLook, SameTiming, SameLengths
<1>6. mem'[n] = u
  BY <1>2
<1>7. \A k \in Nodes : k = n \/ mem'[k] = mem[k]
  BY <1>2
<1> HIDE DEF u
<1> QED BY <1>1, <1>2, <1>4, <1>5, <1>6, <1>7 DEF SameLook, SameTiming, SameLengths

\* Two nodes of which the step changes neither location, characters nor next.
Steady(m, n) == SameLook(m, n) /\ m.next = n.next

LEMMA TimingSet ==
  ASSUME CellInv, NEW n \in Nodes, NEW u,
         mem' = [mem EXCEPT ![n] = u], Cell(u), Steady(u, mem[n])
  PROVE  /\ DOMAIN mem' = Nodes /\ \A k \in Nodes : Cell(mem'[k]) /\ Steady(mem'[k], mem[k])
         /\ mem'[n] = u /\ \A k \in Nodes : k # n => mem'[k] = mem[k]
<1>1. /\ DOMAIN mem = Nodes /\ \A k \in Nodes : Cell(mem[k])
  BY DEF CellInv
<1>2. /\ DOMAIN mem' = Nodes /\ mem'[n] = u
      /\ \A k \in Nodes : k = n \/ mem'[k] = mem[k]
  BY <1>1
<1> QED BY <1>1, <1>2 DEF Steady, SameLook

\* The node after its countdown.
LEMMA AfterCell ==
  ASSUME NEW m, Cell(m)
  PROVE  /\ Cell(After(m)) /\ Steady(After(m), m) /\ SameLengths(After(m), m)
         /\ ~Toggles(m) => After(m).status = m.status
<1> DEFINE c == (m.countdown - 1) % WORD
<1>1. c \in 0 .. WORD - 1
  BY BlinkAssumption DEF Cell
<1>2. DOMAIN m = Fields
  BY DEF Cell
<1>3. CASE ~Toggles(m)
  <2> DEFINE u == [m EXCEPT !.countdown = c]
  <2>1. After(m) = u
    BY <1>3 DEF After
  <2>2. /\ DOMAIN u = Fields /\ u.countdown = c /\ u.status = m.status
        /\ Steady(u, m) /\ SameLengths(u, m)
    BY <1>2 DEF Fields, Steady, SameLook, SameLengths
  <2> HIDE DEF u, c
  <2>3. Cell(u)
    BY <1>1, <2>2 DEF Cell, Steady, SameLook, SameLengths
  <2> QED BY <2>1, <2>2, <2>3
<1>4. CASE Toggles(m)
  <2>1. PICK b \in {0, 1}, l \in {m.on_length, m.off_length} :
          After(m) = [m EXCEPT !.status = b, !.countdown = l]
    BY <1>4 DEF After
  <2> DEFINE u == [m EXCEPT !.status = b, !.countdown = l]
  <2>2. /\ DOMAIN u = Fields /\ u.countdown = l /\ u.status = b
        /\ Steady(u, m) /\ SameLengths(u, m)
    BY <1>2 DEF Fields, Steady, SameLook, SameLengths
  <2>0. After(m) = u
    BY <2>1
  <2> HIDE DEF u
  <2>3. Cell(u)
    BY <2>1, <2>2 DEF Cell, Steady, SameLook, SameLengths
  <2> QED BY <1>4, <2>0, <2>2, <2>3
<1> QED BY <1>3, <1>4

\* Nodes in step stay in step.
LEMMA AfterSame ==
  ASSUME NEW m, NEW n, Cell(m), Cell(n), SameTiming(m, n)
  PROVE  SameTiming(After(m), After(n))
<1>1. Toggles(m) <=> Toggles(n)
  BY DEF Toggles, SameTiming
<1>2. DOMAIN m = Fields /\ DOMAIN n = Fields
  BY DEF Cell
<1>3. SameLengths(After(m), m) /\ SameLengths(After(n), n)
  BY AfterCell
<1>4. After(m).status = After(n).status /\ After(m).countdown = After(n).countdown
  BY <1>1, <1>2 DEF After, SameTiming, SameLengths, Fields
<1> QED BY <1>3, <1>4 DEF SameTiming, SameLengths

-----------------------------------------------------------------------------
(* ADD                                                                       *)

LEMMA IInvInit == Init => IInv
<1> SUFFICES ASSUME Init PROVE IInv
  OBVIOUS
<1> DEFINE a == CHOOSE x \in Args : TRUE
           m == [a EXCEPT !.status = 0]
<1>1. a \in Args
  BY BlinkAssumption
<1>2. Cell(m)
  <2> HIDE DEF a
  <2>1. DOMAIN m = Fields /\ m.status = 0 /\ m.location = a.location
        /\ m.on_length = a.on_length /\ m.off_length = a.off_length
        /\ m.countdown = a.countdown /\ m.next = a.next
    BY <1>1, BlinkAssumption DEF Fields
  <2> HIDE DEF m
  <2> QED BY <1>1, <2>1, BlinkAssumption DEF Cell, Address, Locations
<1>3. CellInv
  BY <1>2 DEF Init, CellInv
<1>4. Chain(<<>>, mp1_list_head, Nx)
  BY NoNodes DEF Init, Chain
<1>5. List = <<>> /\ Listed = {}
  BY <1>4, ChainList DEF Listed, Range
<1>6. ListInv /\ PairInv
  BY <1>4, <1>5 DEF Init, ListInv, PairInv
<1>7. RegInv
  BY <1>5 DEF Init, RegInv, Fresh, InList, Syncing
<1>8. ShowInv /\ CharInv
  BY DEF Init, ShowInv, CharInv
<1> QED BY <1>3, <1>6, <1>7, <1>8 DEF IInv

LEMMA AddMalloc == IInv /\ add_malloc => IInv'
<1> SUFFICES ASSUME IInv, add_malloc PROVE IInv'
  OBVIOUS
<1> USE DEF IInv
<1>1. UNCHANGED <<mp1_list_head, mem>>
  BY DEF add_malloc
<1>2. List' = List /\ Listed' = Listed /\ Chain(List, mp1_list_head, Nx)'
  BY <1>1, SameMemory
<1>3. CellInv'
  BY <1>1 DEF CellInv
<1>4. pc = "idle"
  BY DEF add_malloc, Begin, Refused
<1>5. CASE UNCHANGED <<ioctl, used>>
  BY <1>1, <1>2, <1>3, <1>5 DEF add_malloc, ListInv, RegInv, ShowInv, CharInv, PairInv, ioctl, hist
<1>6. ASSUME NEW n \in Nodes \ used, used' = used \cup {n}, esi' = n, edi' = edi,
             pc' = "add_check", wild' = wild, UNCHANGED <<screen, hist>>
      PROVE  IInv'
  <2>1. ListInv'
    BY <1>1, <1>2, <1>4, <1>6 DEF ListInv, hist
  <2>2. RegInv'
    BY <1>2, <1>4, <1>6 DEF ListInv, RegInv, Fresh, InList, Syncing, hist
  <2>3. ShowInv' /\ CharInv' /\ PairInv'
    BY <1>1, <1>2, <1>4, <1>6 DEF ShowInv, CharInv, PairInv, hist
  <2> QED BY <1>3, <2>1, <2>2, <2>3
<1>7. CASE Begin("add_check")
  <2>1. (CHOOSE n \in Nodes \ used : TRUE) \in Nodes \ used
    BY <1>7 DEF add_malloc, Begin, Refused, ioctl, ListInv
  <2> QED BY <1>6, <1>7, <2>1 DEF add_malloc, Begin, Refused, ioctl
<1> QED BY <1>5, <1>7 DEF add_malloc, Refused

LEMMA AddCheck == IInv /\ add_check => IInv'
<1> SUFFICES ASSUME IInv, add_check PROVE IInv'
  OBVIOUS
<1> USE DEF IInv
<1>1. /\ UNCHANGED <<mp1_list_head, mem, used, screen, wild, shown, raced, ticked, pair>>
      /\ pc = "add_check"
  BY DEF add_check, At
<1>2. List' = List /\ Listed' = Listed /\ Chain(List, mp1_list_head, Nx)'
  BY <1>1, SameMemory
<1>3. CellInv'
  BY <1>1 DEF CellInv
<1>4. /\ \/ pc' = "add_copy" /\ esi' = esi /\ edi' = edi /\ leaked' = leaked
         \/ pc' = "idle" /\ esi' = NULL /\ edi' = NULL /\ leaked' = leaked \cup {esi}
      /\ esi \in used \ (Listed \cup leaked) /\ edi = NULL
  BY <1>1 DEF add_check, Go, Return, RegInv, Fresh, Syncing
<1>5. ListInv'
  BY <1>1, <1>2, <1>4 DEF ListInv
<1>6. RegInv'
  BY <1>1, <1>2, <1>4 DEF RegInv, Fresh, InList, Syncing
<1>7. ShowInv' /\ CharInv' /\ PairInv'
  BY <1>1, <1>2, <1>4 DEF ShowInv, CharInv, PairInv
<1> QED BY <1>3, <1>5, <1>6, <1>7

LEMMA AddCopy == IInv /\ add_copy => IInv'
<1> SUFFICES ASSUME IInv, add_copy PROVE IInv'
  OBVIOUS
<1> USE DEF IInv
<1>1. /\ UNCHANGED <<mp1_list_head, screen, wild, hist>> /\ pc = "add_copy"
      /\ esi \in used \ (Listed \cup leaked) /\ edi = NULL /\ esi \in Nodes
  BY DEF add_copy, At, RegInv, ListInv, Fresh, Syncing
<1>2. CASE mem' = mem /\ Return /\ used' = used \ {esi}
  <2>1. List' = List /\ Listed' = Listed /\ Chain(List, mp1_list_head, Nx)'
    BY <1>1, <1>2, SameMemory
  <2>2. CellInv' /\ ListInv'
    BY <1>1, <1>2, <2>1 DEF CellInv, ListInv, Return, Go, hist
  <2>3. RegInv'
    BY <1>1, <1>2, <2>1 DEF RegInv, Fresh, InList, Syncing, Return, Go, hist
  <2>4. ShowInv' /\ CharInv' /\ PairInv'
    BY <1>1, <1>2, <2>1 DEF ShowInv, CharInv, PairInv, Return, Go, hist
  <2> QED BY <2>2, <2>3, <2>4
<1>3. CASE /\ \E a \in Args :
                mem' = [mem EXCEPT ![esi] = [a EXCEPT !.countdown = a.on_length, !.status = 1]]
           /\ Go(IF mp1_list_head = NULL THEN "add_head" ELSE "add_link")
           /\ UNCHANGED <<used, esi, edi, cl>>
  <2> PICK a \in Args :
        mem' = [mem EXCEPT ![esi] = [a EXCEPT !.countdown = a.on_length, !.status = 1]]
    BY <1>3
  <2> DEFINE m == [a EXCEPT !.countdown = a.on_length, !.status = 1]
  <2>1. /\ DOMAIN m = Fields /\ m.status = 1 /\ m.location = a.location
        /\ m.on_length = a.on_length /\ m.off_length = a.off_length
        /\ m.countdown = a.on_length /\ m.next = a.next
    BY BlinkAssumption DEF Fields
  <2>2. mem' = [mem EXCEPT ![esi] = m]
    OBVIOUS
  <2> HIDE DEF m
  <2>3. Cell(m) /\ m.next \notin Nodes
    BY <2>1, BlinkAssumption, NoNodes DEF Cell, Address, Locations
  <2>4. /\ DOMAIN mem' = Nodes /\ mem'[esi] = m
        /\ \A k \in Nodes : k # esi => mem'[k] = mem[k]
    BY <1>1, <2>2 DEF CellInv
  <2>5. Listed \subseteq Nodes /\ esi \notin Listed
    BY <1>1, ListedNodes
  <2>6. List' = List /\ Listed' = Listed /\ Chain(List, mp1_list_head, Nx)'
    BY <1>1, <2>4, <2>5, SameList
  <2>7. /\ UNCHANGED <<used, esi, edi, cl, leaked>>
        /\ pc' = (IF mp1_list_head = NULL THEN "add_head" ELSE "add_link")
    BY <1>1, <1>3 DEF Go, hist
  <2>8. CellInv'
    BY <1>1, <2>3, <2>4 DEF CellInv
  <2>9. ListInv'
    BY <1>1, <2>4, <2>5, <2>6, <2>7 DEF ListInv
  <2>10. RegInv'
    BY <1>1, <2>3, <2>4, <2>6, <2>7 DEF RegInv, Fresh, InList, Syncing
  <2>11. ShowInv'
    BY <1>1, <2>4, <2>5, <2>6, <2>7, NoNodes DEF ShowInv, hist
  <2>12. CharInv' /\ PairInv'
    BY <1>1, <2>1, <2>4, <2>5, <2>6, <2>7 DEF CharInv, PairInv, hist
  <2> QED BY <2>8, <2>9, <2>10, <2>11, <2>12
<1> QED BY <1>2, <1>3 DEF add_copy

\* What is shown does not see a step that writes neither the screen nor what
\* makes the characters of the listed nodes.
LEMMA ShowKept ==
  ASSUME ShowInv, UNCHANGED <<screen, shown, raced>>, Listed' = Listed,
         pc \notin {"remove_free", "sync_char", "poke_sync"},
         \A k \in Listed : SameLook(mem'[k], mem[k]) /\ mem'[k].status = mem[k].status
  PROVE  ShowInv'
<1> SUFFICES ASSUME NEW loc \in Locations, shown[loc] # NULL
             PROVE  /\ shown[loc] \in Listed /\ mem'[shown[loc]].location = loc
                    /\ shown[loc] \in raced \/ screen[loc] = CharOf(mem'[shown[loc]])
  BY DEF ShowInv
<1> DEFINE n == shown[loc]
<1>1. /\ n \in Listed /\ mem[n].location = loc
      /\ n \in raced \/ screen[loc] = CharOf(mem[n])
  BY DEF ShowInv
<1>2. SameLook(mem'[n], mem[n]) /\ mem'[n].status = mem[n].status
  BY <1>1
<1>3. mem'[n].location = mem[n].location /\ CharOf(mem'[n]) = CharOf(mem[n])
  BY <1>2 DEF SameLook, CharOf
<1> QED BY <1>1, <1>3

LEMMA AddLink == IInv /\ add_link => IInv'
<1> SUFFICES ASSUME IInv, add_link PROVE IInv'
  OBVIOUS
<1> USE DEF IInv
<1>1. /\ UNCHANGED <<mp1_list_head, used, screen, esi, edi, cl, wild, hist>>
      /\ pc = "add_link" /\ pc' = "add_publish"
      /\ esi \in used \ (Listed \cup leaked) /\ edi = NULL /\ esi \in Nodes
      /\ mp1_list_head \in Address
  BY DEF add_link, At, Go, RegInv, ListInv, CellInv, Address, Fresh, Syncing
<1>2. /\ DOMAIN mem' = Nodes /\ \A k \in Nodes : Cell(mem'[k])
      /\ mem'[esi].next = mp1_list_head
      /\ \A k \in Nodes : k # esi => mem'[k].next = mem[k].next
      /\ \A k \in Nodes : SameLook(mem'[k], mem[k]) /\ SameTiming(mem'[k], mem[k])
  BY <1>1, NextSet DEF add_link
<1>3. Listed \subseteq Nodes /\ esi \notin Listed
  BY <1>1, ListedNodes
<1>4. List' = List /\ Listed' = Listed /\ Chain(List, mp1_list_head, Nx)'
  BY <1>1, <1>2, <1>3, SameList
<1>5. CellInv'
  BY <1>1, <1>2 DEF CellInv
<1>6. ListInv'
  BY <1>1, <1>2, <1>3, <1>4 DEF ListInv, hist
<1>7. RegInv'
  BY <1>1, <1>2, <1>4 DEF RegInv, Fresh, InList, Syncing, hist
<1>8. ShowInv'
  BY <1>1, <1>2, <1>3, <1>4, ShowKept DEF hist, SameTiming
<1>9. CharInv' /\ PairInv'
  BY <1>1, <1>2, <1>3, <1>4 DEF CharInv, PairInv, hist, SameLook, SameTiming, SameLengths
<1> QED BY <1>5, <1>6, <1>7, <1>8, <1>9

LEMMA AddPublish == IInv /\ add_publish => IInv'
<1> SUFFICES ASSUME IInv, add_publish PROVE IInv'
  OBVIOUS
<1> USE DEF IInv
<1>1. /\ UNCHANGED <<mem, used, screen, esi, edi, wild, hist>>
      /\ pc = "add_publish" /\ pc' = "poke_add" /\ mp1_list_head' = esi
      /\ cl' = mem[esi].on_char
      /\ esi \in used \ (Listed \cup leaked) /\ edi = NULL /\ esi \in Nodes
      /\ mem[esi].next = mp1_list_head
  BY DEF add_publish, At, Go, RegInv, ListInv, Fresh, Syncing
<1>2. esi \notin Range(List) /\ Nx[esi] = mp1_list_head /\ Nx' = Nx
  BY <1>1 DEF Nx, Listed
<1>3. List = <<>> => mp1_list_head \notin Nodes
  BY DEF ListInv, Chain
<1>4. PICK t : Chain(t, esi, Nx) /\ Range(t) = Range(List) \cup {esi}
  BY <1>1, <1>2, <1>3, ChainInsert DEF ListInv
<1>5. Listed' = Listed \cup {esi} /\ Chain(List, mp1_list_head, Nx)'
  BY <1>1, <1>2, <1>4, NewList DEF Listed
<1>6. CellInv'
  BY <1>1 DEF CellInv
<1>7. ListInv'
  <2>1. mem[esi].next # WILD
    BY <1>1, NoNodes DEF CellInv
  <2> QED BY <1>1, <1>5, <2>1 DEF ListInv, hist
<1>8. RegInv'
  BY <1>1, <1>5 DEF RegInv, Fresh, InList, Syncing, hist
<1>9. ShowInv' /\ CharInv' /\ PairInv'
  BY <1>1, <1>5 DEF ShowInv, CharInv, PairInv, hist
<1> QED BY <1>6, <1>7, <1>8, <1>9

LEMMA AddHead == IInv /\ add_head => IInv'
<1> SUFFICES ASSUME IInv, add_head PROVE IInv'
  OBVIOUS
<1> USE DEF IInv
<1>1. /\ UNCHANGED <<mem, used, screen, esi, edi, cl, wild, hist>>
      /\ pc = "add_head" /\ pc' = "add_next" /\ mp1_list_head' = esi
      /\ esi \in used \ (Listed \cup leaked) /\ edi = NULL /\ esi \in Nodes
      /\ mem[esi].next \notin Nodes /\ mp1_list_head = NULL
  BY DEF add_head, At, Go, RegInv, ListInv, Fresh, Syncing
<1>2. esi \notin Range(List) /\ Nx[esi] \notin Nodes /\ Nx' = Nx
  BY <1>1 DEF Nx, Listed
<1>3. List = <<>>
  BY <1>1, NoNodes, ChainElements DEF ListInv
<1>4. PICK t : Chain(t, esi, Nx) /\ Range(t) = Range(List) \cup {esi}
  BY <1>1, <1>2, <1>3, ChainInsert DEF ListInv
<1>5. Listed = {} /\ Listed' = {esi} /\ Chain(List, mp1_list_head, Nx)'
  <2>1. Range(List) = {}
    BY <1>3 DEF Range
  <2> QED BY <1>1, <1>2, <1>4, <2>1, NewList DEF Listed
<1>6. CellInv'
  BY <1>1 DEF CellInv
<1>7. ListInv'
  BY <1>1, <1>5 DEF ListInv, hist
<1>8. RegInv'
  BY <1>1, <1>5 DEF RegInv, Fresh, InList, Syncing, hist
<1>9. ShowInv' /\ CharInv' /\ PairInv'
  BY <1>1, <1>5 DEF ShowInv, CharInv, PairInv, hist
<1> QED BY <1>6, <1>7, <1>8, <1>9

LEMMA AddNext == IInv /\ add_next => IInv'
<1> SUFFICES ASSUME IInv, add_next PROVE IInv'
  OBVIOUS
<1> USE DEF IInv
<1>1. /\ UNCHANGED <<mp1_list_head, used, screen, esi, edi, wild, hist>>
      /\ pc = "add_next" /\ pc' = "poke_add" /\ ~wild
      /\ cl' = mem[esi].on_char
      /\ Listed = {esi} /\ edi = NULL /\ esi \in Nodes /\ NULL \in Address
  BY ListedNodes DEF add_next, At, Go, RegInv, Address, Fresh, InList, Syncing
<1>2. /\ DOMAIN mem' = Nodes /\ \A k \in Nodes : Cell(mem'[k])
      /\ mem'[esi].next = NULL
      /\ \A k \in Nodes : k # esi => mem'[k].next = mem[k].next
      /\ \A k \in Nodes : SameLook(mem'[k], mem[k]) /\ SameTiming(mem'[k], mem[k])
  BY <1>1, NextSet DEF add_next
<1>3. Chain(List, mp1_list_head, Nx')
  <2>1. /\ Len(List) \in Nat /\ DOMAIN List = 1 .. Len(List)
        /\ \A i \in 1 .. Len(List) : List[i] = esi
        /\ List # <<>> /\ (List # <<>> => Len(List) # 0)
    <3>1. /\ Range(List) = {esi} /\ Range(List) = {List[i] : i \in 1 .. Len(List)}
          /\ Len(List) \in Nat /\ DOMAIN List = 1 .. Len(List)
          /\ (List # <<>> => Len(List) # 0) /\ (List = <<>> <=> Range(List) = {})
      BY <1>1, ChainElements DEF ListInv, Listed
    <3> QED BY <3>1
  <2>2. Len(List) = 1
    <3>1. \A i, j \in 1 .. Len(List) : i = j
      BY <2>1 DEF ListInv, Chain
    <3>2. 1 \in 1 .. Len(List) /\ Len(List) \in 1 .. Len(List)
      BY <2>1
    <3> QED BY <3>1, <3>2
  <2>3. Nx'[List[Len(List)]] \notin Nodes
    BY <1>1, <1>2, <2>1, <2>2, NoNodes DEF Nx
  <2> QED BY <2>1, <2>2, <2>3 DEF ListInv, Chain
<1>4. List' = List /\ Listed' = Listed /\ Chain(List, mp1_list_head, Nx)'
  BY <1>1, <1>3, NewList DEF Listed
<1>5. CellInv'
  BY <1>1, <1>2 DEF CellInv
<1>6. ListInv'
  BY <1>1, <1>2, <1>4, NoNodes DEF ListInv, hist
<1>7. RegInv'
  BY <1>1, <1>2, <1>4 DEF RegInv, Fresh, InList, Syncing, hist
<1>8. ShowInv'
  BY <1>1, <1>2, <1>4, ShowKept DEF hist, SameTiming
<1>9. CharInv' /\ PairInv'
  BY <1>1, <1>2, <1>4 DEF CharInv, PairInv, hist, SameLook, SameTiming, SameLengths
<1> QED BY <1>5, <1>6, <1>7, <1>8, <1>9

LEMMA Poke ==
  ASSUME IInv, NEW n \in Listed, n \notin raced => cl = CharOf(mem[n]),
         pc = "poke_add" \/ (pc = "poke_sync" /\ edi = n), mp1_poke(n)
  PROVE  IInv'
<1> USE DEF IInv
<1>1. /\ UNCHANGED <<mp1_list_head, mem, used, wild, leaked, raced, pair>>
      /\ screen' = [screen EXCEPT ![mem[n].location] = cl]
      /\ shown' = [shown EXCEPT ![mem[n].location] = n]
      /\ pc' = "idle" /\ esi' = NULL /\ edi' = NULL
  BY DEF mp1_poke, Return, Go
<1>2. List' = List /\ Listed' = Listed /\ Chain(List, mp1_list_head, Nx)'
  BY <1>1, SameMemory
<1>3. CellInv' /\ ListInv'
  BY <1>1, <1>2 DEF CellInv, ListInv
<1>4. RegInv'
  BY <1>1, <1>2 DEF RegInv, Fresh, InList, Syncing
<1>5. ShowInv'
  <2>1. DOMAIN screen' = Locations /\ DOMAIN shown' = Locations
    BY <1>1 DEF ShowInv
  <2>2. ASSUME NEW loc \in Locations, shown'[loc] # NULL
        PROVE  /\ shown'[loc] \in Listed /\ mem[shown'[loc]].location = loc
               /\ shown'[loc] \in raced \/ screen'[loc] = CharOf(mem[shown'[loc]])
    <3>1. CASE loc = mem[n].location
      <4>1. shown'[loc] = n /\ screen'[loc] = cl
        BY <1>1, <3>1 DEF ShowInv
      <4> QED BY <3>1, <4>1
    <3>2. CASE loc # mem[n].location
      <4>1. shown'[loc] = shown[loc] /\ screen'[loc] = screen[loc]
        BY <1>1, <3>2 DEF ShowInv
      <4>2. /\ shown[loc] \in Listed /\ mem[shown[loc]].location = loc
            /\ \/ shown[loc] \in raced
               \/ pc \in {"sync_char", "poke_sync"} /\ shown[loc] = edi
               \/ screen[loc] = CharOf(mem[shown[loc]])
        BY <2>2, <4>1 DEF ShowInv
      <4> QED BY <3>2, <4>1, <4>2
    <3> QED BY <3>1, <3>2
  <2> QED BY <1>1, <1>2, <2>1, <2>2 DEF ShowInv
<1>6. CharInv' /\ PairInv'
  BY <1>1, <1>2 DEF CharInv, PairInv
<1> QED BY <1>3, <1>4, <1>5, <1>6

LEMMA AddPoke == IInv /\ add_poke => IInv'
<1> SUFFICES ASSUME IInv, add_poke PROVE IInv'
  OBVIOUS
<1>1. pc = "poke_add" /\ esi \in Listed
  BY DEF IInv, add_poke, At, RegInv, InList
<1>2. esi \notin raced => cl = CharOf(mem[esi])
  BY <1>1 DEF IInv, CharInv, CharOf
<1> QED BY <1>1, <1>2, Poke DEF add_poke

LEMMA SyncPoke == IInv /\ sync_poke => IInv'
<1> SUFFICES ASSUME IInv, sync_poke PROVE IInv'
  OBVIOUS
<1>1. pc = "poke_sync" /\ edi \in Listed
  BY DEF IInv, sync_poke, At, RegInv, InList, Syncing
<1>2. edi \notin raced => cl = CharOf(mem[edi])
  BY <1>1 DEF IInv, CharInv, CharOf
<1> QED BY <1>1, <1>2, Poke DEF sync_poke

-----------------------------------------------------------------------------
(* REMOVE and FIND                                                           *)

\* The search finds a listed node at that location.
LEMMA SearchFinds ==
  ASSUME ListInv, NEW loc, Has(loc)
  PROVE  mp1_search(loc) \in Listed /\ mem[mp1_search(loc)].location = loc
<1> DEFINE T == {i \in DOMAIN List : mem[List[i]].location = loc}
           P(i) == /\ mem[List[i]].location = loc
                   /\ \A j \in 1 .. i - 1 : mem[List[j]].location # loc
<1>1. Len(List) \in Nat /\ DOMAIN List = 1 .. Len(List)
  BY ChainElements DEF ListInv
<1>2. T \subseteq Nat /\ T # {} /\ T \subseteq 1 .. Len(List)
  BY <1>1 DEF Has
<1>3. PICK i \in T : \A j \in T : i <= j
  <2> HIDE DEF T
  <2> QED BY <1>2, LeastElement
<1>4. \A j \in 1 .. i - 1 : mem[List[j]].location # loc
  <2> SUFFICES ASSUME NEW j \in 1 .. i - 1, mem[List[j]].location = loc PROVE FALSE
    OBVIOUS
  <2>1. j \in T
    BY <1>1, <1>2
  <2> HIDE DEF T
  <2> QED BY <1>2, <1>3, <2>1
<1>5. i \in DOMAIN List /\ P(i)
  BY <1>3, <1>4
<1> DEFINE c == CHOOSE k \in DOMAIN List : P(k)
<1>6. c \in DOMAIN List /\ P(c)
  <2> HIDE DEF P
  <2> QED BY <1>5
<1>7. mp1_search(loc) = List[c]
  BY DEF mp1_search
<1> HIDE DEF c
<1> QED BY <1>6, <1>7 DEF Listed, Range

LEMMA RemoveSearch == IInv /\ remove_search => IInv'
<1> SUFFICES ASSUME IInv, remove_search PROVE IInv'
  OBVIOUS
<1> USE DEF IInv
<1>1. UNCHANGED <<mp1_list_head, mem, used, screen, wild, hist>> /\ pc = "idle" /\ edi' = edi
  BY DEF remove_search, Begin, Refused, ioctl
<1>2. List' = List /\ Listed' = Listed /\ Chain(List, mp1_list_head, Nx)'
  BY <1>1, SameMemory
<1>3. (pc' = "idle" /\ esi' = esi) \/ (pc' = "remove_unlink" /\ esi' \in Listed)
  BY <1>1, SearchFinds DEF remove_search, Begin, Refused, ioctl
<1>4. CellInv' /\ ListInv'
  BY <1>1, <1>2, <1>3 DEF CellInv, ListInv, hist
<1>5. RegInv'
  BY <1>1, <1>2, <1>3 DEF RegInv, Fresh, InList, Syncing, hist
<1>6. ShowInv' /\ CharInv' /\ PairInv'
  BY <1>1, <1>2, <1>3 DEF ShowInv, CharInv, PairInv, hist
<1> QED BY <1>4, <1>5, <1>6

LEMMA Find == IInv /\ mp1_ioctl_find => IInv'
<1> SUFFICES ASSUME IInv, mp1_ioctl_find PROVE IInv'
  OBVIOUS
<1> USE DEF IInv
<1>1. UNCHANGED <<mp1_list_head, mem, used, screen, wild, hist, ioctl>>
  BY DEF mp1_ioctl_find, Refused
<1>2. List' = List /\ Listed' = Listed /\ Chain(List, mp1_list_head, Nx)'
  BY <1>1, SameMemory
<1> QED BY <1>1, <1>2
        DEF CellInv, ListInv, RegInv, ShowInv, CharInv, PairInv, hist, ioctl

LEMMA RemoveUnlink == IInv /\ remove_unlink => IInv'
<1> SUFFICES ASSUME IInv, remove_unlink PROVE IInv'
  OBVIOUS
<1> USE DEF IInv
<1>1. /\ UNCHANGED <<used, screen, esi, edi, cl, wild, leaked, shown, raced, ticked>>
      /\ pc = "remove_unlink" /\ pc' = "remove_free"
      /\ pair' = (IF esi \in pair THEN {} ELSE pair)
      /\ esi \in Listed /\ edi = NULL /\ ~wild
  BY DEF remove_unlink, At, Go, RegInv, InList, Syncing
<1>2. Listed \subseteq Nodes /\ \A n \in Listed : mem[n].next \in Nodes \cup {NULL}
  BY <1>1, ListedNodes DEF ListInv, CellInv, Cell, Address
<1>3. /\ CellInv' /\ Chain(List, mp1_list_head, Nx)' /\ Listed' = Listed \ {esi}
      /\ \A k \in Nodes : SameLook(mem'[k], mem[k]) /\ SameTiming(mem'[k], mem[k])
      /\ \A k \in Listed : mem'[k].next \in Nodes \cup {NULL}
  <2>1. CASE mp1_list_head = esi
    <3>1. mp1_list_head' = mem[esi].next /\ mem' = mem
      BY <2>1 DEF remove_unlink
    <3>2. Nx' = Nx /\ Nx[esi] = mp1_list_head' /\ esi \in Range(List)
      BY <1>1, <1>2, <3>1 DEF Nx, Listed
    <3>3. PICK t : Chain(t, mp1_list_head', Nx') /\ Range(t) = Range(List) \ {esi}
      BY <2>1, <3>2, ChainTail DEF ListInv
    <3>4. Chain(List, mp1_list_head, Nx)' /\ Listed' = Listed \ {esi}
      BY <3>3, NewList DEF Listed
    <3> QED BY <1>1, <1>2, <3>1, <3>4 DEF CellInv, SameLook, SameTiming, SameLengths
  <2>2. CASE mp1_list_head # esi
    <3> DEFINE p == Previous(esi)
    <3>1. \E q \in Listed : mem[q].next = esi
      <4>1. PICK q \in Range(List) : Nx[q] = esi
        BY <1>1, <2>2, ChainPrevious DEF ListInv, Listed
      <4> QED BY <1>2, <4>1 DEF Nx, Listed
    <3>2. p \in Listed /\ mem[p].next = esi
      BY <3>1 DEF Previous
    <3>3. mem' = [mem EXCEPT ![p].next = mem[esi].next] /\ mp1_list_head' = mp1_list_head
      BY <2>2 DEF remove_unlink
    <3> HIDE DEF p
    <3>4. p \in Nodes /\ mem[esi].next \in Address
      BY <1>1, <1>2, <3>2 DEF Address
    <3>5. /\ DOMAIN mem' = Nodes /\ \A k \in Nodes : Cell(mem'[k])
          /\ mem'[p].next = mem[esi].next
          /\ \A k \in Nodes : k # p => mem'[k].next = mem[k].next
          /\ \A k \in Nodes : SameLook(mem'[k], mem[k]) /\ SameTiming(mem'[k], mem[k])
      BY <3>3, <3>4, NextSet
    <3>6. /\ esi \in Range(List) /\ p \in Range(List) /\ Nx[p] = esi /\ Nx'[p] = Nx[esi]
          /\ \A m \in Range(List) \ {p} : Nx'[m] = Nx[m]
      BY <1>1, <1>2, <3>2, <3>4, <3>5 DEF Nx, Listed
    <3>7. PICK t : Chain(t, mp1_list_head', Nx') /\ Range(t) = Range(List) \ {esi}
      BY <2>2, <3>3, <3>6, ChainCut DEF ListInv
    <3>8. Chain(List, mp1_list_head, Nx)' /\ Listed' = Listed \ {esi}
      BY <3>7, NewList DEF Listed
    <3>9. \A k \in Listed : mem'[k].next \in Nodes \cup {NULL}
      BY <1>1, <1>2, <3>5
    <3> QED BY <3>3, <3>5, <3>8, <3>9 DEF CellInv
  <2> QED BY <2>1, <2>2
<1>4. ListInv'
  BY <1>1, <1>3, NoNodes DEF ListInv
<1>5. RegInv'
  BY <1>1, <1>3 DEF RegInv, Fresh, InList, Syncing, ListInv
<1>6. ShowInv'
  <2> SUFFICES ASSUME NEW loc \in Locations, shown[loc] # NULL
               PROVE  /\ shown[loc] \in Listed /\ mem'[shown[loc]].location = loc
                      /\ shown[loc] \in raced \/ screen[loc] = CharOf(mem'[shown[loc]])
    BY <1>1, <1>3 DEF ShowInv
  <2> DEFINE n == shown[loc]
  <2>1. /\ n \in Listed /\ mem[n].location = loc
        /\ n \in raced \/ screen[loc] = CharOf(mem[n])
    BY <1>1 DEF ShowInv
  <2>2. SameLook(mem'[n], mem[n]) /\ SameTiming(mem'[n], mem[n])
    BY <1>2, <1>3, <2>1
  <2>3. mem'[n].location = mem[n].location /\ CharOf(mem'[n]) = CharOf(mem[n])
    BY <2>2 DEF SameLook, SameTiming, CharOf
  <2> QED BY <2>1, <2>3
<1>7. CharInv'
  BY <1>1 DEF CharInv
<1>8. PairInv'
  <2>1. pair' \subseteq Listed' /\ pair' \subseteq pair /\ pair \subseteq Nodes
    BY <1>1, <1>2, <1>3 DEF PairInv
  <2>2. ASSUME NEW m \in pair', NEW n \in pair' PROVE SameTiming(mem'[m], mem'[n])
    <3>1. SameTiming(mem[m], mem[n]) /\ m \in Nodes /\ n \in Nodes
      BY <2>1 DEF PairInv
    <3>2. SameTiming(mem'[m], mem[m]) /\ SameTiming(mem'[n], mem[n])
      BY <1>3, <3>1
    <3> QED BY <3>1, <3>2 DEF SameTiming, SameLengths
  <2> QED BY <1>1, <2>1, <2>2 DEF PairInv
<1> QED BY <1>3, <1>4, <1>5, <1>6, <1>7, <1>8

LEMMA RemoveFree == IInv /\ remove_free => IInv'
<1> SUFFICES ASSUME IInv, remove_free PROVE IInv'
  OBVIOUS
<1> USE DEF IInv
<1>1. /\ UNCHANGED <<mp1_list_head, mem, screen, wild, leaked, pair>>
      /\ pc = "remove_free" /\ pc' = "idle" /\ esi' = NULL /\ edi' = NULL
      /\ used' = used \ {esi} /\ raced' = raced \ {esi}
      /\ shown' = [loc \in Locations |-> IF shown[loc] = esi THEN NULL ELSE shown[loc]]
      /\ esi \in used \ (Listed \cup leaked) /\ edi = NULL
  BY DEF remove_free, At, Return, Go, RegInv, Fresh, Syncing
<1>2. List' = List /\ Listed' = Listed /\ Chain(List, mp1_list_head, Nx)'
  BY <1>1, SameMemory
<1>3. CellInv' /\ ListInv'
  BY <1>1, <1>2 DEF CellInv, ListInv
<1>4. RegInv'
  BY <1>1, <1>2 DEF RegInv, Fresh, InList, Syncing
<1>5. ShowInv' /\ CharInv' /\ PairInv'
  BY <1>1, <1>2 DEF ShowInv, CharInv, PairInv
<1> QED BY <1>3, <1>4, <1>5

-----------------------------------------------------------------------------
(* SYNC                                                                      *)

LEMMA SyncSearch == IInv /\ sync_search => IInv'
<1> SUFFICES ASSUME IInv, sync_search PROVE IInv'
  OBVIOUS
<1> USE DEF IInv
<1>1. /\ UNCHANGED <<mp1_list_head, mem, used, screen, wild, leaked, shown, raced, ticked>>
      /\ pc = "idle"
  BY DEF sync_search, Begin, Refused, ioctl
<1>2. List' = List /\ Listed' = Listed /\ Chain(List, mp1_list_head, Nx)'
  BY <1>1, SameMemory
<1>3. \/ pc' = "idle" /\ esi' = esi /\ edi' = edi /\ pair' = pair
      \/ /\ pc' = "sync_lengths" /\ esi' \in Listed /\ edi' \in Listed
         /\ pair' = (IF edi' \in pair THEN {} ELSE pair)
  BY <1>1, SearchFinds DEF sync_search, Begin, Refused, ioctl
<1>4. CellInv' /\ ListInv'
  BY <1>1, <1>2, <1>3 DEF CellInv, ListInv
<1>5. RegInv'
  BY <1>1, <1>2, <1>3 DEF RegInv, Fresh, InList, Syncing
<1>6. ShowInv' /\ CharInv'
  BY <1>1, <1>2, <1>3 DEF ShowInv, CharInv
<1>7. PairInv'
  BY <1>1, <1>2, <1>3 DEF PairInv
<1> QED BY <1>4, <1>5, <1>6, <1>7

\* A step that writes only the timing of EDI.
LEMMA Timed ==
  ASSUME IInv, NEW u, mem' = [mem EXCEPT ![edi] = u], Cell(u), Steady(u, mem[edi]),
         pc \in Syncing, pc' \in Syncing,
         UNCHANGED <<mp1_list_head, used, esi, edi, wild, leaked, screen, shown, raced, ticked>>
  PROVE  /\ CellInv' /\ ListInv' /\ RegInv' /\ Listed' = Listed
         /\ Listed \subseteq Nodes /\ esi \in Listed /\ edi \in Listed
         /\ mem'[edi] = u /\ \A k \in Nodes : k # edi => mem'[k] = mem[k]
         /\ u.status = mem[edi].status /\ pc \notin {"sync_char", "poke_sync"} => ShowInv'
<1> USE DEF IInv
<1>1. esi \in Listed /\ edi \in Listed /\ Listed \subseteq Nodes
  BY ListedNodes DEF RegInv, InList
<1>2. /\ DOMAIN mem' = Nodes /\ \A k \in Nodes : Cell(mem'[k]) /\ Steady(mem'[k], mem[k])
      /\ mem'[edi] = u /\ \A k \in Nodes : k # edi => mem'[k] = mem[k]
  BY <1>1, TimingSet
<1>3. \A k \in Nodes : mem'[k].next = mem[k].next
  BY <1>2 DEF Steady
<1>4. List' = List /\ Listed' = Listed /\ Chain(List, mp1_list_head, Nx)'
  BY <1>1, <1>3, SameList
<1>5. CellInv'
  BY <1>2 DEF CellInv
<1>6. ListInv'
  BY <1>1, <1>3, <1>4 DEF ListInv, Syncing
<1>7. RegInv'
  BY <1>4 DEF RegInv, Fresh, InList, Syncing
<1>8. ASSUME u.status = mem[edi].status, pc \notin {"sync_char", "poke_sync"} PROVE ShowInv'
  <2>1. \A k \in Listed : SameLook(mem'[k], mem[k]) /\ mem'[k].status = mem[k].status
    BY <1>1, <1>2, <1>8 DEF Steady
  <2> QED BY <1>4, <1>8, <2>1, ShowKept DEF Syncing
<1> QED BY <1>1, <1>2, <1>4, <1>5, <1>6, <1>7, <1>8

\* The members of the pair are not written.
LEMMA PairKept ==
  ASSUME PairInv, Listed \subseteq Nodes, Listed' = Listed, pair' = pair, edi \notin pair,
         \A k \in Nodes : k # edi => mem'[k] = mem[k]
  PROVE  pair' \subseteq Listed' /\ \A m, n \in pair' : SameTiming(mem'[m], mem'[n])
<1>1. \A k \in pair : mem'[k] = mem[k]
  BY DEF PairInv
<1> QED BY <1>1 DEF PairInv

LEMMA SyncLengths == IInv /\ sync_lengths => IInv'
<1> SUFFICES ASSUME IInv, sync_lengths PROVE IInv'
  OBVIOUS
<1> DEFINE m == mem[edi]
           u == [m EXCEPT !.on_length = mem[esi].on_length, !.off_length = mem[esi].off_length]
<1>1. /\ UNCHANGED <<mp1_list_head, used, screen, esi, edi, cl, wild, hist>>
      /\ pc = "sync_lengths" /\ pc' = "sync_countdown"
      /\ esi \in Nodes /\ edi \in Nodes /\ DOMAIN mem = Nodes
      /\ edi \notin pair
      /\ Cell(m) /\ Cell(mem[esi])
  BY ListedNodes
  DEF sync_lengths, At, Go, IInv, RegInv, InList, Syncing, CellInv, PairInv
<1>2. mem' = [mem EXCEPT ![edi] = u]
  BY <1>1 DEF sync_lengths
<1>3. DOMAIN m = Fields
  BY <1>1 DEF Cell
<1>4. /\ DOMAIN u = Fields /\ u.on_length = mem[esi].on_length
      /\ u.off_length = mem[esi].off_length
      /\ u.status = m.status /\ u.countdown = m.countdown /\ Steady(u, m)
  BY <1>3 DEF Fields, Steady, SameLook
<1> HIDE DEF u, m
<1>5. Cell(u)
  BY <1>1, <1>4 DEF Cell, Steady, SameLook
<1>6. /\ CellInv' /\ ListInv' /\ RegInv' /\ ShowInv' /\ Listed' = Listed
      /\ Listed \subseteq Nodes
      /\ mem'[edi] = u /\ \A k \in Nodes : k # edi => mem'[k] = mem[k]
  <2> USE DEF m
  <2>1. UNCHANGED <<mp1_list_head, used, esi, edi, wild, leaked, screen, shown, raced, ticked>>
    BY <1>1 DEF hist
  <2> QED BY <1>1, <1>2, <1>4, <1>5, <2>1, Timed DEF Syncing
<1>7. CharInv'
  BY <1>1 DEF CharInv
<1>8. PairInv'
  <2>1. pair' \subseteq Listed' /\ \A k, n \in pair' : SameTiming(mem'[k], mem'[n])
    BY <1>1, <1>6, PairKept DEF IInv, hist
  <2>2. SameLengths(mem'[esi], mem'[edi])
    BY <1>1, <1>4, <1>6 DEF SameLengths
  <2> QED BY <1>1, <2>1, <2>2 DEF PairInv, hist
<1> QED BY <1>6, <1>7, <1>8 DEF IInv

LEMMA SyncCountdown == IInv /\ sync_countdown => IInv'
<1> SUFFICES ASSUME IInv, sync_countdown PROVE IInv'
  OBVIOUS
<1> DEFINE m == mem[edi]
           u == [m EXCEPT !.countdown = mem[esi].countdown]
<1>1. /\ UNCHANGED <<mp1_list_head, used, screen, esi, edi, cl, wild, hist>>
      /\ pc = "sync_countdown" /\ pc' = "sync_status"
      /\ esi \in Nodes /\ edi \in Nodes /\ DOMAIN mem = Nodes
      /\ edi \notin pair /\ SameLengths(mem[esi], m)
      /\ Cell(m) /\ Cell(mem[esi])
  BY ListedNodes
  DEF sync_countdown, At, Go, IInv, RegInv, InList, Syncing, CellInv, PairInv
<1>2. mem' = [mem EXCEPT ![edi] = u]
  BY <1>1 DEF sync_countdown
<1>3. DOMAIN m = Fields
  BY <1>1 DEF Cell
<1>4. /\ DOMAIN u = Fields /\ u.countdown = mem[esi].countdown /\ u.status = m.status
      /\ SameLengths(u, m) /\ Steady(u, m)
  BY <1>3 DEF Fields, Steady, SameLook, SameLengths
<1> HIDE DEF u, m
<1>5. Cell(u)
  BY <1>1, <1>4 DEF Cell, Steady, SameLook, SameLengths
<1>6. /\ CellInv' /\ ListInv' /\ RegInv' /\ ShowInv' /\ Listed' = Listed
      /\ Listed \subseteq Nodes
      /\ mem'[edi] = u /\ \A k \in Nodes : k # edi => mem'[k] = mem[k]
  <2> USE DEF m
  <2>1. UNCHANGED <<mp1_list_head, used, esi, edi, wild, leaked, screen, shown, raced, ticked>>
    BY <1>1 DEF hist
  <2> QED BY <1>1, <1>2, <1>4, <1>5, <2>1, Timed DEF Syncing
<1>7. CharInv'
  BY <1>1 DEF CharInv
<1>8. PairInv'
  <2>1. pair' \subseteq Listed' /\ \A k, n \in pair' : SameTiming(mem'[k], mem'[n])
    BY <1>1, <1>6, PairKept DEF IInv, hist
  <2>2. SameLengths(mem'[esi], mem'[edi]) /\ mem'[esi].countdown = mem'[edi].countdown
    BY <1>1, <1>4, <1>6 DEF SameLengths, m
  <2> QED BY <1>1, <2>1, <2>2 DEF PairInv, hist
<1> QED BY <1>6, <1>7, <1>8 DEF IInv

LEMMA SyncStatus == IInv /\ sync_status => IInv'
<1> SUFFICES ASSUME IInv, sync_status PROVE IInv'
  OBVIOUS
<1> DEFINE m == mem[edi]
           u == [m EXCEPT !.status = mem[esi].status]
<1>1. /\ UNCHANGED <<mp1_list_head, used, screen, esi, edi, cl, wild, leaked, shown, raced, ticked>>
      /\ pc = "sync_status" /\ pc' = "sync_char"
      /\ esi \in Nodes /\ edi \in Nodes /\ DOMAIN mem = Nodes
      /\ pair' = (IF ticked \/ esi = edi THEN pair ELSE {esi, edi})
      /\ edi \notin pair /\ SameLengths(mem[esi], m) /\ esi \in Listed /\ edi \in Listed
      /\ ~ticked => mem[esi].countdown = m.countdown
      /\ Cell(m) /\ Cell(mem[esi])
  BY ListedNodes
  DEF sync_status, At, Go, IInv, RegInv, InList, Syncing, CellInv, PairInv
<1>2. mem' = [mem EXCEPT ![edi] = u]
  BY <1>1 DEF sync_status
<1>3. DOMAIN m = Fields
  BY <1>1 DEF Cell
<1>4. /\ DOMAIN u = Fields /\ u.countdown = m.countdown /\ u.status = mem[esi].status
      /\ SameLengths(u, m) /\ Steady(u, m)
  BY <1>3 DEF Fields, Steady, SameLook, SameLengths
<1> HIDE DEF u, m
<1>5. Cell(u)
  BY <1>1, <1>4 DEF Cell, Steady, SameLook, SameLengths
<1>6. /\ CellInv' /\ ListInv' /\ RegInv' /\ Listed' = Listed
      /\ Listed \subseteq Nodes
      /\ mem'[edi] = u /\ \A k \in Nodes : k # edi => mem'[k] = mem[k]
  <2> USE DEF m
  <2> QED BY <1>1, <1>2, <1>4, <1>5, Timed DEF Syncing
<1>7. ShowInv'
  <2>1. \A loc \in Locations : shown[loc] # NULL =>
          /\ shown[loc] \in Listed /\ mem[shown[loc]].location = loc
          /\ shown[loc] \in raced \/ screen[loc] = CharOf(mem[shown[loc]])
    BY <1>1 DEF IInv, ShowInv
  <2>2. \A loc \in Locations : shown[loc] # NULL =>
          /\ shown[loc] \in Listed /\ mem'[shown[loc]].location = loc
          /\ \/ shown[loc] \in raced
             \/ shown[loc] = edi
             \/ screen[loc] = CharOf(mem'[shown[loc]])
    <3> SUFFICES ASSUME NEW loc \in Locations, shown[loc] # NULL
                 PROVE  /\ shown[loc] \in Listed /\ mem'[shown[loc]].location = loc
                        /\ \/ shown[loc] \in raced
                           \/ shown[loc] = edi
                           \/ screen[loc] = CharOf(mem'[shown[loc]])
      OBVIOUS
    <3>1. mem'[edi].location = mem[edi].location
      BY <1>4, <1>6 DEF Steady, SameLook, m
    <3>2. shown[loc] # edi => mem'[shown[loc]] = mem[shown[loc]]
      BY <1>6, <2>1
    <3> QED BY <2>1, <3>1, <3>2
  <2> QED BY <1>1, <1>6, <2>2 DEF IInv, ShowInv
<1>8. CharInv'
  BY <1>1 DEF CharInv
<1>9. PairInv'
  <2>1. CASE ticked \/ esi = edi
    BY <1>1, <1>6, <2>1, PairKept DEF IInv, PairInv
  <2>2. CASE ~(ticked \/ esi = edi)
    <3>1. mem'[esi] = mem[esi] /\ mem'[edi] = u /\ pair' = {esi, edi}
      BY <1>1, <1>6, <2>2
    <3>2. SameTiming(mem[esi], u) /\ SameTiming(u, mem[esi])
      BY <1>1, <1>4, <2>2 DEF SameTiming, SameLengths
    <3>3. SameTiming(u, u) /\ SameTiming(mem[esi], mem[esi])
      BY DEF SameTiming, SameLengths
    <3>4. \A k, n \in pair' : SameTiming(mem'[k], mem'[n])
      BY <3>1, <3>2, <3>3
    <3> QED BY <1>1, <1>6, <3>1, <3>4 DEF PairInv
  <2> QED BY <2>1, <2>2
<1> QED BY <1>6, <1>7, <1>8, <1>9 DEF IInv

LEMMA SyncChar == IInv /\ sync_char => IInv'
<1> SUFFICES ASSUME IInv, sync_char PROVE IInv'
  OBVIOUS
<1> USE DEF IInv
<1>1. /\ UNCHANGED <<mp1_list_head, mem, used, screen, esi, edi, wild, hist>>
      /\ pc = "sync_char" /\ pc' = "poke_sync" /\ cl' = CharOf(mem[edi])
  BY DEF sync_char, At, Go
<1>2. List' = List /\ Listed' = Listed /\ Chain(List, mp1_list_head, Nx)'
  BY <1>1, SameMemory
<1>3. CellInv' /\ ListInv'
  BY <1>1, <1>2 DEF CellInv, ListInv, hist
<1>4. RegInv'
  BY <1>1, <1>2 DEF RegInv, Fresh, InList, Syncing, hist
<1>5. ShowInv' /\ CharInv' /\ PairInv'
  BY <1>1, <1>2 DEF ShowInv, CharInv, PairInv, hist, CharOf
<1> QED BY <1>3, <1>4, <1>5

-----------------------------------------------------------------------------
(* The tasklet                                                               *)

LEMMA GreatestElement ==
  ASSUME NEW n \in Nat, NEW S, S \subseteq 1 .. n, S # {}
  PROVE  \E i \in S : \A j \in S : j <= i
<1> DEFINE T == {n - i : i \in S}
<1>0. \A i \in S : n - i \in Nat
  OBVIOUS
<1>1. T \subseteq Nat /\ T # {}
  BY <1>0
<1>2. PICK x \in T : \A y \in T : x <= y
  <2> HIDE DEF T
  <2> QED BY <1>1, LeastElement
<1>3. PICK i \in S : x = n - i
  BY <1>2
<1>4. \A j \in S : n - i <= n - j
  BY <1>2, <1>3
<1> QED BY <1>4

LEMMA Tasklet == IInv /\ mp1_rtc_tasklet => IInv'
<1> SUFFICES ASSUME IInv, mp1_rtc_tasklet PROVE IInv'
  OBVIOUS
<1> USE DEF IInv
<1> DEFINE changing == {n \in Listed : Toggles(mem[n])}
           at(loc) == {i \in 1 .. Len(List) : /\ List[i] \in changing
                                              /\ mem[List[i]].location = loc}
           lastAt(loc) == IF at(loc) = {} THEN NULL
                          ELSE List[CHOOSE i \in at(loc) : \A j \in at(loc) : j <= i]
<1>1. /\ mp1_list_head # NULL /\ ~wild
      /\ mem' = [n \in Nodes |-> IF n \in Listed THEN After(mem[n]) ELSE mem[n]]
      /\ screen' = [loc \in Locations |->
                      IF lastAt(loc) = NULL THEN screen[loc] ELSE CharOf(mem'[lastAt(loc)])]
      /\ wild' = (mem[Last(List)].next = WILD)
      /\ shown' = [loc \in Locations |-> IF lastAt(loc) = NULL THEN shown[loc] ELSE lastAt(loc)]
      /\ raced' = {n \in Nodes : IF n \in changing THEN Pending(n) ELSE n \in raced}
      /\ ticked' = (edi # NULL)
      /\ UNCHANGED <<mp1_list_head, used, ioctl, leaked, pair>>
  BY DEF mp1_rtc_tasklet, Listed
<1>2. /\ Listed \subseteq Nodes /\ Len(List) \in Nat /\ Listed = {List[i] : i \in 1 .. Len(List)}
      /\ DOMAIN mem = Nodes /\ \A n \in Nodes : Cell(mem[n])
  <2> HIDE DEF changing, at, lastAt
  <2>1. Len(List) \in Nat /\ Listed = {List[i] : i \in 1 .. Len(List)}
    BY ChainElements, Zenon DEF ListInv, Listed
  <2>2. DOMAIN mem = Nodes /\ \A n \in Nodes : Cell(mem[n])
    BY SMTT(30) DEF CellInv
  <2> QED BY <2>1, <2>2, ListedNodes
<1>3. \A loc : IF lastAt(loc) = NULL THEN \A n \in changing : mem[n].location # loc
               ELSE lastAt(loc) \in changing /\ mem[lastAt(loc)].location = loc
  <2> SUFFICES ASSUME NEW loc
               PROVE  IF lastAt(loc) = NULL THEN \A n \in changing : mem[n].location # loc
                      ELSE lastAt(loc) \in changing /\ mem[lastAt(loc)].location = loc
    OBVIOUS
  <2>1. CASE at(loc) = {}
    <3>1. ASSUME NEW n \in changing, mem[n].location = loc PROVE FALSE
      <4>1. PICK i \in 1 .. Len(List) : n = List[i]
        BY <1>2
      <4> QED BY <2>1, <3>1, <4>1
    <3> QED BY <2>1, <3>1
  <2>2. CASE at(loc) # {}
    <3> DEFINE c == CHOOSE i \in at(loc) : \A j \in at(loc) : j <= i
    <3>1. \E i \in at(loc) : \A j \in at(loc) : j <= i
      <4>1. at(loc) \subseteq 1 .. Len(List)
        OBVIOUS
      <4> HIDE DEF at
      <4> QED BY <1>2, <2>2, <4>1, GreatestElement
    <3>2. c \in at(loc)
      <4> HIDE DEF at
      <4> QED BY <3>1
    <3>3. lastAt(loc) = List[c]
      BY <2>2
    <3> HIDE DEF c, lastAt
    <3>4. List[c] \in changing /\ mem[List[c]].location = loc
      BY <3>2
    <3>5. List[c] # NULL
      BY <1>2, <3>4, NoNodes
    <3> QED BY <3>3, <3>4, <3>5
  <2> QED BY <2>1, <2>2
<1> HIDE DEF at, lastAt
<1>4. \A n \in Nodes : /\ n \in Listed => mem'[n] = After(mem[n])
                       /\ n \notin Listed => mem'[n] = mem[n]
  BY <1>1
<1>5. \A n \in Nodes : /\ Cell(mem'[n]) /\ Steady(mem'[n], mem[n])
                       /\ SameLengths(mem'[n], mem[n])
                       /\ n \notin changing => mem'[n].status = mem[n].status
  <2> SUFFICES ASSUME NEW n \in Nodes
               PROVE  /\ Cell(mem'[n]) /\ Steady(mem'[n], mem[n])
                      /\ SameLengths(mem'[n], mem[n])
                      /\ n \notin changing => mem'[n].status = mem[n].status
    OBVIOUS
  <2>1. CASE n \in Listed
    <3>1. mem'[n] = After(mem[n]) /\ Cell(mem[n]) /\ (n \notin changing => ~Toggles(mem[n]))
      BY <1>2, <1>4, <2>1
    <3> QED BY <3>1, AfterCell
  <2>2. CASE n \notin Listed
    BY <1>2, <1>4, <2>2 DEF Steady, SameLook, SameLengths
  <2> QED BY <2>1, <2>2
<1>6. List' = List /\ Listed' = Listed /\ Chain(List, mp1_list_head, Nx)'
  BY <1>1, <1>2, <1>5, SameList DEF Steady
<1>7. CellInv'
  BY <1>1, <1>5 DEF CellInv
<1>8. ListInv'
  BY <1>1, <1>2, <1>5, <1>6 DEF ListInv, Steady, ioctl
<1>9. RegInv'
  <2>1. Last(List) \in Listed
    <3>1. mp1_list_head \in Nodes
      BY <1>1 DEF CellInv
    <3>2. Len(List) # 0
      BY <3>1, ChainElements DEF ListInv
    <3> QED BY <1>2, <3>2 DEF Last
  <2>2. pc # "add_next" => ~wild'
    BY <1>1, <2>1 DEF ListInv
  <2>3. wild' \in BOOLEAN
    BY <1>1
  <2>4. esi \in Nodes => mem'[esi].next = mem[esi].next
    BY <1>5 DEF Steady
  <2>5. pc \in Fresh => esi \in Nodes
    BY DEF RegInv, ListInv
  <2> QED BY <1>1, <1>6, <2>2, <2>3, <2>4, <2>5 DEF RegInv, ioctl, Fresh, InList, Syncing
<1> DEFINE Right(n, loc) ==
             /\ n \in Listed \cup (IF pc = "remove_free" THEN {esi} ELSE {})
             /\ mem'[n].location = loc
             /\ \/ n \in raced'
                \/ pc \in {"sync_char", "poke_sync"} /\ n = edi
                \/ screen'[loc] = CharOf(mem'[n])
<1>10. ASSUME NEW loc \in Locations, shown'[loc] # NULL PROVE Right(shown'[loc], loc)
  <2>1. CASE lastAt(loc) # NULL
    <3>1. shown'[loc] = lastAt(loc) /\ screen'[loc] = CharOf(mem'[lastAt(loc)])
      BY <1>1, <2>1
    <3>2. lastAt(loc) \in Listed /\ mem[lastAt(loc)].location = loc
      BY <1>3, <2>1
    <3>3. mem'[lastAt(loc)].location = loc
      BY <1>2, <1>5, <3>2 DEF Steady, SameLook
    <3> QED BY <3>1, <3>2, <3>3
  <2>2. CASE lastAt(loc) = NULL
    <3> DEFINE n == shown[loc]
    <3>1. shown'[loc] = n /\ screen'[loc] = screen[loc] /\ n # NULL
      BY <1>1, <1>10, <2>2
    <3>2. /\ n \in Listed \cup (IF pc = "remove_free" THEN {esi} ELSE {})
          /\ mem[n].location = loc
          /\ \/ n \in raced
             \/ pc \in {"sync_char", "poke_sync"} /\ n = edi
             \/ screen[loc] = CharOf(mem[n])
      BY <3>1 DEF ShowInv
    <3>3. n \in Nodes
      BY <1>2, <3>2 DEF RegInv, ListInv, Fresh
    <3>4. n \notin changing
      BY <1>3, <2>2, <3>2
    <3> HIDE DEF n, changing
    <3>5. /\ mem'[n].location = mem[n].location /\ CharOf(mem'[n]) = CharOf(mem[n])
          /\ n \in raced => n \in raced'
      BY <1>1, <1>5, <3>3, <3>4 DEF Steady, SameLook, CharOf
    <3> QED BY <3>1, <3>2, <3>5
  <2> QED BY <2>1, <2>2
<1>11. ShowInv'
  BY <1>1, <1>6, <1>10 DEF ShowInv, ioctl
<1>12. ASSUME NEW n \in Listed, n \notin raced', Pending(n)
       PROVE  n \notin raced /\ mem'[n].status = mem[n].status /\ CharOf(mem'[n]) = CharOf(mem[n])
  <2>1. n \in Nodes /\ n \notin changing
    BY <1>1, <1>2, <1>12
  <2> HIDE DEF changing
  <2> QED BY <1>1, <1>5, <1>12, <2>1 DEF Steady, SameLook, CharOf
<1>13. CharInv'
  <2> HIDE DEF changing
  <2>1. pc \in {"add_link", "add_publish", "add_head"} => mem'[esi] = mem[esi]
    BY <1>4 DEF RegInv, ListInv, Fresh
  <2>2. pc \in {"add_next", "poke_add"} => esi \in Listed /\ Pending(esi)
    BY DEF RegInv, InList, Pending
  <2>3. pc = "poke_sync" => edi \in Listed /\ Pending(edi)
    BY DEF RegInv, Syncing, Pending
  <2>4. pc = "poke_add" => mem'[esi].on_char = mem[esi].on_char
    BY <1>2, <1>5, <2>2 DEF Steady, SameLook
  <2>5. pc' = pc /\ esi' = esi /\ edi' = edi /\ cl' = cl
    BY <1>1 DEF ioctl
  <2>6. pc \in {"add_next", "poke_add"} /\ esi \notin raced' => mem'[esi].status = 1
    BY <1>12, <2>2 DEF CharInv
  <2>7. pc = "poke_sync" /\ edi \notin raced' => cl = CharOf(mem'[edi])
    BY <1>12, <2>3 DEF CharInv
  <2> QED BY <2>1, <2>4, <2>5, <2>6, <2>7 DEF CharInv
<1>14. PairInv'
  <2> HIDE DEF changing
  <2>1. ASSUME NEW m \in pair, NEW n \in pair PROVE SameTiming(mem'[m], mem'[n])
    <3>1. /\ SameTiming(mem[m], mem[n]) /\ m \in Nodes /\ n \in Nodes
          /\ mem'[m] = After(mem[m]) /\ mem'[n] = After(mem[n])
      BY <1>2, <1>4 DEF PairInv
    <3> QED BY <1>2, <3>1, AfterSame
  <2>2. ASSUME pc \in {"sync_countdown", "sync_status"}
        PROVE  SameLengths(mem'[esi], mem'[edi])
    <3>1. esi \in Nodes /\ edi \in Nodes
      BY <1>2, <2>2 DEF RegInv, InList, Syncing
    <3>2. SameLengths(mem'[esi], mem[esi]) /\ SameLengths(mem'[edi], mem[edi])
      BY <1>5, <3>1
    <3> QED BY <2>2, <3>2 DEF PairInv, SameLengths
  <2>3. pc = "sync_status" => ticked'
    BY <1>1, <1>2, NoNodes DEF RegInv, Syncing
  <2> QED BY <1>1, <1>6, <2>1, <2>2, <2>3 DEF PairInv, ioctl
<1> QED BY <1>7, <1>8, <1>9, <1>11, <1>13, <1>14

-----------------------------------------------------------------------------
(* The theorems.                                                             *)

LEMMA IInvNext == IInv /\ [Next]_vars => IInv'
<1> SUFFICES ASSUME IInv, [Next]_vars PROVE IInv'
  OBVIOUS
<1>1. CASE mp1_rtc_tasklet
  BY <1>1, Tasklet
<1>2. CASE mp1_ioctl_add
  BY <1>2, AddMalloc, AddCheck, AddCopy, AddLink, AddPublish, AddHead, AddNext, AddPoke
  DEF mp1_ioctl_add
<1>3. CASE mp1_ioctl_remove
  BY <1>3, RemoveSearch, RemoveUnlink, RemoveFree DEF mp1_ioctl_remove
<1>4. CASE mp1_ioctl_find
  BY <1>4, Find
<1>5. CASE mp1_ioctl_sync
  BY <1>5, SyncSearch, SyncLengths, SyncCountdown, SyncStatus, SyncChar, SyncPoke
  DEF mp1_ioctl_sync
<1>6. CASE UNCHANGED vars
  <2>1. UNCHANGED <<mp1_list_head, mem>>
    BY <1>6 DEF vars
  <2>2. List' = List /\ Listed' = Listed /\ Chain(List, mp1_list_head, Nx)'
    BY <2>1, SameMemory DEF IInv
  <2> QED BY <1>6, <2>2
          DEF vars, ioctl, hist, IInv, CellInv, ListInv, RegInv, ShowInv, CharInv, PairInv
<1> QED BY <1>1, <1>2, <1>3, <1>4, <1>5, <1>6 DEF Next

LEMMA IInvAlways == Spec => []IInv
BY IInvInit, IInvNext, PTL DEF Spec

\* Between any two instructions of an ioctl the list the tasklet walks ends, has
\* no node twice and only allocated nodes; nothing allocated is lost; and the
\* walk leaves the list only in the window of insert_into_empty.
THEOREM ListIsKept == Spec => []ListKept
<1>1. IInv => ListKept
  <2> SUFFICES ASSUME IInv PROVE ListKept
    OBVIOUS
  <2> USE DEF IInv
  <2>1. Listed \subseteq Nodes /\ (mp1_list_head # NULL => Last(List) \in Listed)
    <3>1. /\ Listed \subseteq Nodes /\ Len(List) \in Nat
          /\ Listed = {List[i] : i \in 1 .. Len(List)}
          /\ mp1_list_head \in Nodes => Len(List) # 0
      BY ListedNodes, ChainElements DEF ListInv, Listed
    <3> QED BY <3>1 DEF CellInv, Last
  <2>2. mp1_list_head # NULL => mem[Last(List)].next \notin Nodes
    <3>1. List # <<>> => Nx[Last(List)] \notin Nodes
      BY DEF ListInv, Chain, Last
    <3>2. mp1_list_head # NULL => List # <<>>
      BY ChainElements DEF ListInv, CellInv
    <3> QED BY <2>1, <3>1, <3>2 DEF Nx
  <2>3. esi \in Nodes \cup {NULL} /\ edi \in Nodes \cup {NULL}
    BY <2>1 DEF RegInv, ListInv, InList
  <2>4. \A n \in Nodes :
          /\ DOMAIN mem[n] = Fields /\ mem[n].location \in Locations
          /\ {mem[n].on_length, mem[n].off_length, mem[n].countdown} \subseteq 0 .. WORD - 1
          /\ mem[n].status \in 0 .. 1 /\ mem[n].next \in Nodes \cup {NULL, WILD}
    BY DEF CellInv, Cell, Address
  <2>5. TypeOK
    BY <2>3, <2>4 DEF TypeOK, CellInv, ListInv, RegInv
  <2>6. ListSound
    BY <2>1, <2>2 DEF ListSound, ListInv, RegInv, Fresh
  <2>7. NoneLost
    BY DEF NoneLost, RegInv, Fresh
  <2>8. WildOnlyEmpty
    BY <2>1, <2>2 DEF WildOnlyEmpty, ListInv, RegInv, CellInv, Cell, Address
  <2> QED BY <2>5, <2>6, <2>7, <2>8 DEF ListKept
<1> QED BY <1>1, IInvAlways, PTL

\* Between calls the screen shows the state of the node that wrote a location
\* last, unless a tick came between the choice of its character and the write.
THEOREM ScreenFollowsAlways == Spec => []ScreenFollows
<1>1. IInv => ScreenFollows
  BY DEF IInv, ScreenFollows, ShowInv
<1> QED BY <1>1, IInvAlways, PTL

\* Two nodes that SYNC put in step between two ticks stay in step.
THEOREM InStepAlways == Spec => []InStep
<1>1. IInv => InStep
  BY DEF IInv, InStep, PairInv, SameTiming
<1> QED BY <1>1, IInvAlways, PTL

=============================================================================
