--------------------------- MODULE StrategyProofs ---------------------------
(***************************************************************************)
(* What holds of StrategyExit for any number of strategies, shares,        *)
(* requests, exits, failures and crashes.                                  *)
(***************************************************************************)
EXTENDS StrategyExit, SequenceTheorems, WellFoundedInduction, TLAPS

-----------------------------------------------------------------------------
(* Sums of sequences of numbers.  Induction goes over the length of the     *)
(* partial sums; what Total computes is used through the lemmas that follow. *)

(* Induction over a set of numbers: the library states it for a predicate. *)
Below == {p \in Nat \X Nat : p[1] < p[2]}

LEMMA AllNumbers ==
  ASSUME NEW S, 0 \in S, \A n \in Nat : n \in S => n + 1 \in S
  PROVE  Nat \subseteq S
<1> DEFINE B == {n \in Nat : n \notin S}
<1> SUFFICES ASSUME B # {} PROVE FALSE
  OBVIOUS
<1>1. IsWellFoundedOn(Below, Nat)
  BY NatLessThanWellFounded, Zenon DEF Below, OpToRel
<1>2. \A x, y \in Nat : <<x, y>> \in Below <=> x < y
  BY DEF Below
<1>3. PICK x \in B : \A y \in B : ~ (<<y, x>> \in Below)
  <2> HIDE DEF Below
  <2>1. B \subseteq Nat
    OBVIOUS
  <2> HIDE DEF B
  <2> QED
    BY <1>1, <2>1, WFMin
<1> HIDE DEF Below
<1>4. x - 1 \in Nat /\ x - 1 < x /\ x = (x - 1) + 1
  BY <1>3
<1>5. x - 1 \in S
  BY <1>2, <1>3, <1>4
<1> QED
  BY <1>3, <1>4, <1>5

(* v can be added up to its element m. *)
SumsUpTo(v, m) == \E f \in [0 .. m -> Nat] : f[0] = 0 /\ \A i \in 1 .. m : f[i] = f[i - 1] + v[i]

(* f holds the partial sums of v. *)
Sums(f, v) ==
  /\ f \in [0 .. Len(v) -> Nat]
  /\ f[0] = 0
  /\ \A i \in 1 .. Len(v) : f[i] = f[i - 1] + v[i]

LEMMA TotalSums ==
  ASSUME NEW v \in Seq(Nat)
  PROVE  \E f : Sums(f, v) /\ Total(v) = f[Len(v)]
<1> DEFINE n == Len(v)
           Is(f) == f = [i \in 0 .. n |-> IF i = 0 THEN 0 ELSE f[i - 1] + v[i]]
           c == CHOOSE f : Is(f)
           S == {m \in Nat : m <= n => SumsUpTo(v, m)}
<1>0. n \in Nat /\ \A i \in 1 .. n : v[i] \in Nat
  OBVIOUS
<1>1. Total(v) = c[n]
  BY DEF Total
<1>2. 0 \in S
  <2> DEFINE g == [i \in 0 .. 0 |-> 0]
  <2>1. g \in [0 .. 0 -> Nat] /\ g[0] = 0 /\ \A i \in 1 .. 0 : g[i] = g[i - 1] + v[i]
    OBVIOUS
  <2>2. SumsUpTo(v, 0)
    BY <2>1 DEF SumsUpTo
  <2> QED
    BY <2>2
<1>3. ASSUME NEW m \in Nat, m \in S PROVE m + 1 \in S
  <2> SUFFICES ASSUME m + 1 <= n PROVE SumsUpTo(v, m + 1)
    OBVIOUS
  <2>0. SumsUpTo(v, m)
    BY <1>0, <1>3
  <2>1. PICK f \in [0 .. m -> Nat] : f[0] = 0 /\ \A i \in 1 .. m : f[i] = f[i - 1] + v[i]
    BY <2>0 DEF SumsUpTo
  <2> DEFINE g == [i \in 0 .. m + 1 |-> IF i <= m THEN f[i] ELSE f[m] + v[m + 1]]
  <2>2. v[m + 1] \in Nat /\ f[m] \in Nat
    BY <1>0
  <2>3. g \in [0 .. m + 1 -> Nat] /\ g[0] = 0
    BY <2>1, <2>2
  <2>4. ASSUME NEW i \in 1 .. m + 1 PROVE g[i] = g[i - 1] + v[i]
    <3>1. CASE i <= m
      BY <2>1, <3>1
    <3>2. CASE i = m + 1
      BY <2>2, <3>2
    <3> QED
      BY <3>1, <3>2
  <2> HIDE DEF g
  <2> QED
    BY <2>3, <2>4 DEF SumsUpTo
<1>4. SumsUpTo(v, n)
  <2>1. Nat \subseteq S
    <3> HIDE DEF S
    <3> QED
      BY <1>2, <1>3, AllNumbers
  <2>2. n \in S /\ n <= n
    BY <1>0, <2>1
  <2> QED
    BY <2>2
<1>5. PICK f \in [0 .. n -> Nat] : f[0] = 0 /\ \A i \in 1 .. n : f[i] = f[i - 1] + v[i]
  BY <1>4 DEF SumsUpTo
<1>6. Is(f)
  <2> DEFINE g == [i \in 0 .. n |-> IF i = 0 THEN 0 ELSE f[i - 1] + v[i]]
  <2>1. \A i \in 0 .. n : f[i] = g[i]
    BY <1>0, <1>5
  <2>2. f = [i \in 0 .. n |-> f[i]] /\ g = [i \in 0 .. n |-> g[i]]
    OBVIOUS
  <2> QED
    BY <2>1, <2>2
<1>7. Is(c)
  BY <1>6
<1> HIDE DEF c
<1>8. c = [i \in 0 .. n |-> c[i]] /\ c[0] = 0 /\ \A i \in 1 .. n : c[i] = c[i - 1] + v[i]
  <2>1. c = [i \in 0 .. n |-> IF i = 0 THEN 0 ELSE c[i - 1] + v[i]]
    BY <1>7
  <2>2. \A i \in 0 .. n : c[i] = IF i = 0 THEN 0 ELSE c[i - 1] + v[i]
    BY <2>1
  <2>3. c = [i \in 0 .. n |-> c[i]]
    BY <2>1
  <2>4. 0 \in 0 .. n /\ \A i \in 1 .. n : i \in 0 .. n /\ i # 0
    BY <1>0
  <2> QED
    BY <2>2, <2>3, <2>4
<1> DEFINE T == {m \in Nat : m <= n => c[m] \in Nat}
<1>9. Nat \subseteq T
  <2>1. 0 \in T
    BY <1>8
  <2>2. ASSUME NEW m \in Nat, m \in T PROVE m + 1 \in T
    <3> SUFFICES ASSUME m + 1 <= n PROVE c[m + 1] \in Nat
      OBVIOUS
    <3>1. c[m] \in Nat /\ m + 1 \in 1 .. n /\ (m + 1) - 1 = m
      BY <1>0, <2>2
    <3>2. c[m + 1] = c[m] + v[m + 1] /\ v[m + 1] \in Nat
      <4>1. c[m + 1] = c[(m + 1) - 1] + v[m + 1]
        BY <1>8, <3>1
      <4> QED
        BY <1>0, <3>1, <4>1
    <3> QED
      BY <3>1, <3>2
  <2> HIDE DEF T
  <2> QED
    BY <2>1, <2>2, AllNumbers
<1>10. c \in [0 .. n -> Nat]
  <2>1. \A i \in 0 .. n : c[i] \in Nat
    BY <1>0, <1>9
  <2> QED
    BY <1>8, <2>1
<1> QED
  BY <1>1, <1>8, <1>10 DEF Sums

(* The partial sums of smaller numbers are smaller.                       *)
LEMMA SumsAtMost ==
  ASSUME NEW v \in Seq(Nat), NEW w \in Seq(Nat), NEW f, NEW g, Sums(f, v), Sums(g, w),
         NEW n \in Nat, n <= Len(v), n <= Len(w), \A i \in 1 .. n : v[i] <= w[i]
  PROVE  f[n] <= g[n]
<1> DEFINE S == {m \in Nat : m <= n => f[m] <= g[m]}
<1>1. 0 \in S
  BY DEF Sums
<1>2. ASSUME NEW m \in Nat, m \in S PROVE m + 1 \in S
  <2> SUFFICES ASSUME m + 1 <= n PROVE f[m + 1] <= g[m + 1]
    OBVIOUS
  <2>1. m + 1 \in 1 .. Len(v) /\ m + 1 \in 1 .. Len(w) /\ (m + 1) - 1 = m /\ m \in 0 .. Len(v) /\ m \in 0 .. Len(w)
    OBVIOUS
  <2>2. f[m + 1] = f[m] + v[m + 1] /\ g[m + 1] = g[m] + w[m + 1]
    <3>1. f[m + 1] = f[(m + 1) - 1] + v[m + 1]
      BY <2>1 DEF Sums
    <3>2. g[m + 1] = g[(m + 1) - 1] + w[m + 1]
      BY <2>1 DEF Sums
    <3> QED
      BY <2>1, <3>1, <3>2
  <2>3. f[m] \in Nat /\ g[m] \in Nat /\ v[m + 1] \in Nat /\ w[m + 1] \in Nat
    <3>1. f[m] \in Nat
      BY <2>1 DEF Sums
    <3>2. g[m] \in Nat
      BY <2>1 DEF Sums
    <3>3. v[m + 1] \in Nat /\ w[m + 1] \in Nat
      BY <2>1, ElementOfSeq
    <3> QED
      BY <3>1, <3>2, <3>3
  <2>4. f[m] <= g[m] /\ v[m + 1] <= w[m + 1]
    BY <1>2
  <2> QED
    <3>1. \A a, b, c, d \in Nat : a <= b /\ c <= d => a + c <= b + d
      OBVIOUS
    <3>2. f[m] + v[m + 1] <= g[m] + w[m + 1]
      BY <2>3, <2>4, <3>1
    <3> QED
      BY <2>2, <3>2
<1> HIDE DEF S
<1>3. Nat \subseteq S
  BY <1>1, <1>2, AllNumbers
<1> QED
  BY <1>3 DEF S

LEMMA TotalNat ==
  ASSUME NEW v \in Seq(Nat) PROVE Total(v) \in Nat
<1>1. PICK f : Sums(f, v) /\ Total(v) = f[Len(v)]
  BY TotalSums
<1>2. Len(v) \in 0 .. Len(v)
  OBVIOUS
<1> QED
  BY <1>1, <1>2 DEF Sums

LEMMA TotalEmpty == Total(<< >>) = 0
<1>1. << >> \in Seq(Nat) /\ Len(<< >>) = 0
  OBVIOUS
<1>2. PICK f : Sums(f, << >>) /\ Total(<< >>) = f[0]
  BY <1>1, TotalSums
<1> QED
  BY <1>2 DEF Sums

LEMMA TotalAtMost ==
  ASSUME NEW v \in Seq(Nat), NEW w \in Seq(Nat), Len(v) = Len(w),
         \A i \in 1 .. Len(v) : v[i] <= w[i]
  PROVE  Total(v) <= Total(w)
<1>1. PICK f : Sums(f, v) /\ Total(v) = f[Len(v)]
  BY TotalSums
<1>2. PICK g : Sums(g, w) /\ Total(w) = g[Len(w)]
  BY TotalSums
<1>3. Len(v) \in Nat /\ Len(v) <= Len(v)
  OBVIOUS
<1>4. f[Len(v)] <= g[Len(v)]
  BY <1>1, <1>2, <1>3, SumsAtMost
<1> QED
  BY <1>1, <1>2, <1>4

LEMMA TotalAppend ==
  ASSUME NEW v \in Seq(Nat), NEW k \in Nat
  PROVE  Total(Append(v, k)) = Total(v) + k
<1> DEFINE w == Append(v, k)
           n == Len(v)
<1>1. /\ w \in Seq(Nat) /\ Len(w) = n + 1 /\ n \in Nat
      /\ w[n + 1] = k /\ \A i \in 1 .. n : w[i] = v[i] /\ v[i] \in Nat
  BY AppendProperties
<1> HIDE DEF w
<1>2. PICK f : Sums(f, v) /\ Total(v) = f[n]
  BY TotalSums
<1>3. PICK g : Sums(g, w) /\ Total(w) = g[n + 1]
  BY <1>1, TotalSums
<1>4. f[n] \in Nat /\ g[n] \in Nat /\ g[n + 1] = g[n] + k
  <2>1. n \in 0 .. Len(v) /\ n \in 0 .. Len(w) /\ n + 1 \in 1 .. Len(w) /\ (n + 1) - 1 = n
    BY <1>1
  <2>2. f[n] \in Nat /\ g[n] \in Nat
    BY <1>2, <1>3, <2>1 DEF Sums
  <2>3. g[n + 1] = g[(n + 1) - 1] + w[n + 1]
    BY <1>3, <2>1 DEF Sums
  <2> QED
    BY <1>1, <2>1, <2>2, <2>3
<1>5. f[n] <= g[n]
  <2>1. n <= Len(v) /\ n <= Len(w) /\ \A i \in 1 .. n : v[i] <= w[i]
    BY <1>1
  <2> HIDE DEF n
  <2> QED
    BY <1>1, <1>2, <1>3, <2>1, SumsAtMost
<1>6. g[n] <= f[n]
  <2>1. n <= Len(v) /\ n <= Len(w) /\ \A i \in 1 .. n : w[i] <= v[i]
    BY <1>1
  <2> HIDE DEF n
  <2> QED
    BY <1>1, <1>2, <1>3, <2>1, SumsAtMost
<1> QED
  BY <1>2, <1>3, <1>4, <1>5, <1>6 DEF w
-----------------------------------------------------------------------------
(* The inductive invariant. *)

Typed ==
  /\ entry \in [Strategies -> Entry]
  /\ target \in [Strategies -> Shares \cup {NoTarget}]
  /\ enabled \in [Strategies -> BOOLEAN]
  /\ asked \in [Strategies -> 0 .. MaxRequests]
  /\ exits \in [Strategies -> Seq(Exit)]
  /\ \A s \in Strategies : Len(exits[s]) <= MaxExits
  /\ phase \in Phases
  /\ wake \in BOOLEAN /\ failed \in BOOLEAN
  /\ pump \in [at : {"wait", "coordinate", "effects"}, cancels : SUBSET Strategies, claims : SUBSET Strategies]
  /\ failures \in 0 .. MaxFailures /\ crashes \in 0 .. MaxCrashes
  /\ phase = "STOPPING" => crashes < MaxCrashes

(* A pass has claims to send only between its transaction and its end, and *)
(* each is the last exit of its strategy and nothing was done with it yet:  *)
(* sending it may release its shares and never takes more.                 *)
PumpHolds ==
  /\ pump.at # "effects" \/ phase = "DOWN" => pump.claims = {}
  /\ \A s \in pump.claims : exits[s] # << >> /\ exits[s][Len(exits[s])].stage = "CLAIMED"

(* An exit has no more fills than it keeps, and none before it is sent.    *)
Accounted(x) == x.filled <= Kept(x) /\ (x.stage = "CLAIMED" => x.filled = 0)

(* Without a target nothing was ever claimed: the first target of a strategy *)
(* is measured against what it holds alone.                                *)
Sold(s) ==
  /\ target[s] = NoTarget => exits[s] = << >>
  /\ \A i \in DOMAIN exits[s] : Backed(exits[s][i]) /\ Accounted(exits[s][i])
  /\ target[s] # NoTarget => Committed(s) + target[s] <= entry[s].filled

SInv == Typed /\ PumpHolds /\ (\A s \in Strategies : Sold(s)) /\ ClaimIsOwned

KeptOf(q) == [i \in DOMAIN q |-> Kept(q[i])]
FilledOf(q) == [i \in DOMAIN q |-> q[i].filled]

LEMMA KeptIsNumber ==
  ASSUME NEW x \in Exit PROVE Kept(x) \in Nat /\ x.filled \in Nat
BY StrategyAssumption DEF Exit, Kept, Shares

LEMMA OfTyped ==
  ASSUME NEW q \in Seq(Exit)
  PROVE  /\ KeptOf(q) \in Seq(Nat) /\ Len(KeptOf(q)) = Len(q)
         /\ FilledOf(q) \in Seq(Nat) /\ Len(FilledOf(q)) = Len(q)
         /\ \A i \in 1 .. Len(q) : KeptOf(q)[i] = Kept(q[i]) /\ FilledOf(q)[i] = q[i].filled
<1>1. \A i \in 1 .. Len(q) : q[i] \in Exit
  OBVIOUS
<1>2. DOMAIN q = 1 .. Len(q) /\ Len(q) \in Nat
  OBVIOUS
<1>3. \A i \in 1 .. Len(q) : Kept(q[i]) \in Nat /\ q[i].filled \in Nat
  BY <1>1, KeptIsNumber
<1> QED
  BY <1>2, <1>3 DEF KeptOf, FilledOf

LEMMA CommittedIsNumber ==
  ASSUME NEW s \in Strategies, exits[s] \in Seq(Exit)
  PROVE  /\ Committed(s) = Total(KeptOf(exits[s])) /\ Committed(s) \in Nat
         /\ Exited(s) = Total(FilledOf(exits[s])) /\ Exited(s) \in Nat
BY OfTyped, TotalNat DEF Committed, Exited, KeptOf, FilledOf

LEMMA NothingCommitted ==
  ASSUME NEW s \in Strategies, exits[s] = << >> PROVE Committed(s) = 0
<1>1. KeptOf(<< >>) = << >>
  BY DEF KeptOf
<1> QED
  BY <1>1, TotalEmpty DEF Committed, KeptOf

(* The numbers an exit was claimed with stay; its shares may be released.  *)
Stays(x, y) ==
  /\ y.quantity = x.quantity /\ y.entered = x.entered /\ y.target = x.target /\ y.committed = x.committed
  /\ Kept(y) <= Kept(x) /\ Accounted(y)

LEMMA SoldKeeps ==
  ASSUME Typed, NEW s \in Strategies, Sold(s), target'[s] = target[s],
         entry'[s].filled \in Nat, entry[s].filled <= entry'[s].filled,
         exits'[s] \in Seq(Exit), Len(exits'[s]) = Len(exits[s]),
         \A i \in DOMAIN exits[s] : Stays(exits[s][i], exits'[s][i])
  PROVE  Sold(s)'
<1>1. exits[s] \in Seq(Exit) /\ DOMAIN exits[s] = 1 .. Len(exits[s]) /\ DOMAIN exits'[s] = DOMAIN exits[s]
  BY DEF Typed
<1>2. target[s] = NoTarget => exits'[s] = << >>
  BY <1>1, EmptySeq DEF Sold
<1>3. ASSUME NEW i \in DOMAIN exits'[s] PROVE Backed(exits'[s][i]) /\ Accounted(exits'[s][i])
  BY <1>1, <1>3 DEF Sold, Stays, Backed
<1>4. Committed(s)' \in Nat /\ Committed(s) \in Nat /\ Committed(s)' <= Committed(s)
  <2>1. /\ Committed(s)' = Total(KeptOf(exits'[s])) /\ Committed(s) = Total(KeptOf(exits[s]))
        /\ Committed(s) \in Nat
    BY <1>1, CommittedIsNumber DEF Committed, KeptOf
  <2>2. /\ KeptOf(exits[s]) \in Seq(Nat) /\ Len(KeptOf(exits[s])) = Len(exits[s])
        /\ \A i \in 1 .. Len(exits[s]) : KeptOf(exits[s])[i] = Kept(exits[s][i])
    BY <1>1, OfTyped
  <2>3. /\ KeptOf(exits'[s]) \in Seq(Nat) /\ Len(KeptOf(exits'[s])) = Len(exits[s])
        /\ \A i \in 1 .. Len(exits[s]) : KeptOf(exits'[s])[i] = Kept(exits'[s][i])
    BY <1>1, OfTyped
  <2>4. \A i \in 1 .. Len(exits[s]) : KeptOf(exits'[s])[i] <= KeptOf(exits[s])[i]
    BY <1>1, <2>2, <2>3 DEF Stays
  <2>5. Total(KeptOf(exits'[s])) <= Total(KeptOf(exits[s])) /\ Total(KeptOf(exits'[s])) \in Nat
    BY <2>2, <2>3, <2>4, TotalAtMost, TotalNat
  <2> QED
    BY <2>1, <2>5
<1>5. target[s] # NoTarget => target[s] \in Nat /\ entry[s].filled \in Nat
  BY StrategyAssumption DEF Typed, Shares, Entry
<1>6. target[s] # NoTarget => Committed(s)' + target[s] <= entry'[s].filled
  BY <1>4, <1>5 DEF Sold
<1> QED
  BY <1>2, <1>3, <1>6 DEF Sold

(* A step that leaves the exits alone and lets the entry only fill.        *)
LEMMA SoldRests ==
  ASSUME SInv, exits' = exits, target' = target, entry' \in [Strategies -> Entry],
         \A s \in Strategies : entry[s].filled <= entry'[s].filled
  PROVE  \A s \in Strategies : Sold(s)'
<1> SUFFICES ASSUME NEW s \in Strategies PROVE Sold(s)'
  OBVIOUS
<1>1. exits[s] \in Seq(Exit) /\ entry'[s].filled \in Nat
  BY StrategyAssumption DEF SInv, Typed, Entry, Shares
<1>2. \A i \in DOMAIN exits[s] : exits[s][i] \in Exit /\ Stays(exits[s][i], exits[s][i])
  BY <1>1, KeptIsNumber DEF SInv, Sold, Stays
<1> QED
  BY <1>1, <1>2, SoldKeeps DEF SInv

LEMMA SInvInit == Init => SInv
<1> SUFFICES ASSUME Init PROVE SInv
  OBVIOUS
<1>1. exits \in [Strategies -> Seq(Exit)] /\ \A s \in Strategies : Len(exits[s]) = 0 /\ exits[s] = << >>
  BY DEF Init
<1>2. Typed
  <2>1. entry \in [Strategies -> Entry] /\ asked \in [Strategies -> 0 .. MaxRequests]
    BY StrategyAssumption DEF Init, Entry, Shares
  <2>2. pump \in [at : {"wait", "coordinate", "effects"}, cancels : SUBSET Strategies, claims : SUBSET Strategies]
    BY DEF Init, Waiting
  <2>3. \A s \in Strategies : Len(exits[s]) <= MaxExits
    BY <1>1, StrategyAssumption
  <2>4. /\ target \in [Strategies -> Shares \cup {NoTarget}] /\ enabled \in [Strategies -> BOOLEAN]
        /\ phase \in Phases /\ phase # "STOPPING" /\ wake \in BOOLEAN /\ failed \in BOOLEAN
    BY DEF Init, Phases
  <2>5. failures \in 0 .. MaxFailures /\ crashes \in 0 .. MaxCrashes
    <3>1. MaxFailures \in Nat /\ MaxCrashes \in Nat
      BY StrategyAssumption
    <3> QED
      BY <3>1 DEF Init
  <2> QED
    BY <1>1, <2>1, <2>2, <2>3, <2>4, <2>5 DEF Typed
<1>3. PumpHolds /\ \A s \in Strategies : Sold(s)
  BY DEF Init, Waiting, PumpHolds, Sold
<1>4. ClaimIsOwned
  BY DEF Init, ClaimIsOwned
<1> QED
  BY <1>2, <1>3, <1>4 DEF SInv

(* While the exits, the pump and the phase rest, so do the pump's claims.  *)
LEMMA OwnersRest ==
  SInv /\ UNCHANGED <<exits, pump, phase, failures>> => PumpHolds' /\ ClaimIsOwned'
BY DEF SInv, PumpHolds, ClaimIsOwned, Up

(* The numbers in a request. *)
LEMMA Numbers ==
  ASSUME SInv, NEW s \in Strategies
  PROVE  /\ exits[s] \in Seq(Exit) /\ Committed(s) \in Nat /\ Exited(s) \in Nat
         /\ entry[s] \in Entry /\ entry[s].filled \in Nat /\ entry[s].filled <= Quantity
         /\ target[s] # NoTarget => target[s] \in Nat
         /\ target[s] = NoTarget => Committed(s) = 0
<1>1. exits[s] \in Seq(Exit)
  BY DEF SInv, Typed
<1>2. Committed(s) \in Nat /\ Exited(s) \in Nat
  BY <1>1, CommittedIsNumber
<1>3. /\ entry[s] \in Entry /\ entry[s].filled \in Nat /\ entry[s].filled <= Quantity
      /\ target[s] # NoTarget => target[s] \in Nat
  BY StrategyAssumption DEF SInv, Typed, Entry, Shares
<1>4. target[s] = NoTarget => Committed(s) = 0
  BY NothingCommitted DEF SInv, Sold
<1> QED
  BY <1>1, <1>2, <1>3, <1>4

-----------------------------------------------------------------------------
(* Requests: a new target leaves what is claimed already above it.         *)
LEMMA TargetKeeps ==
  ASSUME SInv, NEW s \in Strategies, NEW t \in Shares, Targeted(s, t), Committed(s) + t <= entry[s].filled
  PROVE  SInv'
<1>1. /\ UNCHANGED <<entry, enabled, exits, phase, pump, failed, failures, crashes>>
      /\ wake' = TRUE /\ target' = [target EXCEPT ![s] = t]
      /\ asked[s] < MaxRequests /\ asked' = [asked EXCEPT ![s] = @ + 1]
  BY DEF Targeted, Recorded
<1>2. Typed'
  <2>1. target' \in [Strategies -> Shares \cup {NoTarget}]
    BY <1>1 DEF SInv, Typed
  <2>2. asked' \in [Strategies -> 0 .. MaxRequests]
    BY <1>1, StrategyAssumption DEF SInv, Typed
  <2> QED
    BY <1>1, <2>1, <2>2 DEF SInv, Typed
<1>3. PumpHolds' /\ ClaimIsOwned'
  BY <1>1, OwnersRest
<1>4. ASSUME NEW r \in Strategies PROVE Sold(r)'
  <2>0. Committed(r)' = Committed(r)
    BY <1>1 DEF Committed
  <2>1. CASE r = s
    <3>1. target'[s] = t /\ t # NoTarget
      BY <1>1, StrategyAssumption DEF SInv, Typed, Shares
    <3> QED
      BY <1>1, <2>0, <2>1, <3>1 DEF SInv, Sold
  <2>2. CASE r # s
    <3>1. target'[r] = target[r]
      BY <1>1, <2>2 DEF SInv, Typed
    <3> QED
      BY <1>1, <2>0, <3>1 DEF SInv, Sold
  <2> QED
    BY <2>1, <2>2
<1> QED
  BY <1>2, <1>3, <1>4 DEF SInv

LEMMA RequestKeeps == SInv /\ Requests => SInv'
<1> SUFFICES ASSUME SInv, NEW s \in Strategies, Revise(s) \/ ExitAll(s) \/ Reduce(s) \/ PriceTrigger(s)
             PROVE  SInv'
  BY DEF Requests
<1>1. /\ Committed(s) \in Nat /\ Exited(s) \in Nat /\ entry[s].filled \in Nat /\ entry[s].filled <= Quantity
      /\ target[s] # NoTarget => target[s] \in Nat /\ Committed(s) + target[s] <= entry[s].filled
      /\ target[s] = NoTarget => Committed(s) = 0
  BY Numbers DEF SInv, Sold
<1>2. Quantity \in Nat
  BY StrategyAssumption
<1>3. CASE Revise(s)
  <2>1. /\ UNCHANGED <<entry, target, exits, phase, pump, failed, failures, crashes>> /\ wake' = TRUE
        /\ asked[s] < MaxRequests /\ asked' = [asked EXCEPT ![s] = @ + 1]
        /\ \E b \in BOOLEAN : enabled' = [enabled EXCEPT ![s] = b]
    BY <1>3 DEF Revise, Recorded
  <2>2. Typed'
    <3>1. enabled' \in [Strategies -> BOOLEAN]
      BY <2>1 DEF SInv, Typed
    <3>2. asked' \in [Strategies -> 0 .. MaxRequests]
      BY <2>1, StrategyAssumption DEF SInv, Typed
    <3> QED
      BY <2>1, <3>1, <3>2 DEF SInv, Typed
  <2>3. PumpHolds' /\ ClaimIsOwned'
    BY <2>1, OwnersRest
  <2>4. \A r \in Strategies : Sold(r)'
    BY <2>1 DEF SInv, Sold, Committed
  <2> QED
    BY <2>2, <2>3, <2>4 DEF SInv
<1>4. CASE ExitAll(s)
  <2>1. 0 \in Shares /\ Committed(s) + 0 <= entry[s].filled
    BY <1>1, <1>2 DEF Shares
  <2> QED
    BY <1>4, <2>1, TargetKeeps DEF ExitAll
<1>5. CASE Reduce(s)
  <2>1. PICK t \in 1 .. Quantity : Reducible(s, t) /\ Targeted(s, t)
    BY <1>5 DEF Reduce
  <2>2. t \in Shares /\ Committed(s) + t <= entry[s].filled
    BY <1>1, <1>2, <2>1 DEF Shares, Reducible, Effective, Reserved
  <2> QED
    BY <2>1, <2>2, TargetKeeps
<1>6. CASE PriceTrigger(s)
  <2>1. PICK t \in PriceTargets(s) : t < entry[s].filled /\ Triggers(s, t) /\ Targeted(s, t)
    BY <1>6 DEF PriceTrigger
  <2>2. t \in Nat
    BY <1>1, <2>1 DEF PriceTargets
  <2>3. t \in Shares /\ Committed(s) + t <= entry[s].filled
    BY <1>1, <1>2, <2>1, <2>2 DEF Shares, Triggers, Lower
  <2> QED
    BY <2>1, <2>3, TargetKeeps
<1> QED
  BY <1>3, <1>4, <1>5, <1>6

-----------------------------------------------------------------------------
(* One exit is replaced by another: only the last is ever in hand. *)
LEMMA Replaced ==
  ASSUME exits \in [Strategies -> Seq(Exit)], NEW s \in Strategies, NEW i \in DOMAIN exits[s], NEW x \in Exit,
         exits' = [exits EXCEPT ![s] = [exits[s] EXCEPT ![i] = x]]
  PROVE  /\ exits' \in [Strategies -> Seq(Exit)]
         /\ \A r \in Strategies : Len(exits'[r]) = Len(exits[r]) /\ DOMAIN exits'[r] = DOMAIN exits[r]
         /\ \A r \in Strategies : exits[r] # << >> => exits'[r] # << >>
         /\ exits'[s][i] = x
         /\ \A r \in Strategies : \A j \in DOMAIN exits[r] : r # s \/ j # i => exits'[r][j] = exits[r][j]
<1>1. exits[s] \in Seq(Exit)
  OBVIOUS
<1>2. i \in 1 .. Len(exits[s])
  BY <1>1
<1> DEFINE q == [exits[s] EXCEPT ![i] = x]
<1>3. q \in Seq(Exit) /\ Len(q) = Len(exits[s]) /\ DOMAIN q = DOMAIN exits[s]
  BY <1>1, <1>2
<1>4. q[i] = x /\ \A j \in DOMAIN exits[s] : j # i => q[j] = exits[s][j]
  BY <1>1, <1>2
<1> HIDE DEF q
<1>5. exits' = [exits EXCEPT ![s] = q]
  BY DEF q
<1>6. exits' \in [Strategies -> Seq(Exit)]
  BY <1>3, <1>5
<1>7. \A r \in Strategies : Len(exits'[r]) = Len(exits[r]) /\ DOMAIN exits'[r] = DOMAIN exits[r]
  BY <1>3, <1>5
<1>8. \A r \in Strategies : exits[r] # << >> => exits'[r] # << >>
  <2> SUFFICES ASSUME NEW r \in Strategies, exits[r] # << >> PROVE exits'[r] # << >>
    OBVIOUS
  <2>1. exits[r] \in Seq(Exit) /\ exits'[r] \in Seq(Exit) /\ Len(exits'[r]) = Len(exits[r])
    BY <1>6, <1>7
  <2> QED
    BY <2>1, EmptySeq
<1> QED
  BY <1>4, <1>5, <1>6, <1>7, <1>8

(* What was sold stays sold when one exit changes. *)
LEMMA OneExitKeeps ==
  ASSUME SInv, NEW s \in Strategies, NEW i \in DOMAIN exits[s], NEW x \in Exit, Stays(exits[s][i], x),
         exits' = [exits EXCEPT ![s] = [exits[s] EXCEPT ![i] = x]],
         UNCHANGED <<entry, target, enabled, asked, phase, failed, failures, crashes>>, wake' \in BOOLEAN,
         pump' \in [at : {"wait", "coordinate", "effects"}, cancels : SUBSET Strategies, claims : SUBSET Strategies]
  PROVE  Typed' /\ \A r \in Strategies : Sold(r)'
<1>0. exits \in [Strategies -> Seq(Exit)]
  BY DEF SInv, Typed
<1>1. /\ exits' \in [Strategies -> Seq(Exit)]
      /\ \A r \in Strategies : Len(exits'[r]) = Len(exits[r]) /\ DOMAIN exits'[r] = DOMAIN exits[r]
      /\ exits'[s][i] = x
      /\ \A r \in Strategies : \A j \in DOMAIN exits[r] : r # s \/ j # i => exits'[r][j] = exits[r][j]
  BY <1>0, Replaced
<1>2. Typed'
  BY <1>1 DEF SInv, Typed
<1>3. ASSUME NEW r \in Strategies PROVE Sold(r)'
  <2>1. /\ Typed /\ Sold(r) /\ target'[r] = target[r]
        /\ entry'[r].filled \in Nat /\ entry[r].filled <= entry'[r].filled
    BY Numbers DEF SInv
  <2>2. exits'[r] \in Seq(Exit) /\ Len(exits'[r]) = Len(exits[r])
    BY <1>1
  <2>3. ASSUME NEW j \in DOMAIN exits[r] PROVE Stays(exits[r][j], exits'[r][j])
    <3>1. CASE r = s /\ j = i
      BY <1>1, <3>1
    <3>2. CASE ~(r = s /\ j = i)
      <4>1. exits'[r][j] = exits[r][j] /\ exits[r][j] \in Exit
        BY <1>0, <1>1, <3>2
      <4> QED
        BY <4>1, <2>1, KeptIsNumber DEF Sold, Stays
    <3> QED
      BY <3>1, <3>2
  <2> QED
    BY <2>1, <2>2, <2>3, SoldKeeps
<1> QED
  BY <1>2, <1>3

(* The broker's reports touch no exit that is still claimed.               *)
LEMMA ReportKeeps ==
  SInv /\ (\E s \in Strategies : \E i \in DOMAIN exits[s] : ExitFill(s, i) \/ ExitReported(s, i)) => SInv'
<1> SUFFICES ASSUME SInv, NEW s \in Strategies, NEW i \in DOMAIN exits[s],
                    ExitFill(s, i) \/ ExitReported(s, i)
             PROVE  SInv'
  OBVIOUS
<1>0. /\ UNCHANGED <<entry, target, enabled, asked, phase, pump, failed, failures, crashes>> /\ wake' = TRUE
      /\ exits[s][i].stage \in {"RETURNED", "UNKNOWN", "ENDED"}
  BY DEF ExitFill, ExitReported, BrokerSays
<1>1. exits \in [Strategies -> Seq(Exit)] /\ exits[s][i] \in Exit /\ Accounted(exits[s][i])
  BY DEF SInv, Typed, Sold
<1>2. Kept(exits[s][i]) = exits[s][i].quantity /\ Quantity \in Nat
  BY <1>0, StrategyAssumption DEF Kept
<1> DEFINE Becomes(x) == /\ x \in Exit /\ x.stage # "CLAIMED" /\ Stays(exits[s][i], x)
                         /\ exits' = [exits EXCEPT ![s] = [exits[s] EXCEPT ![i] = x]]
<1>3. \E x : Becomes(x)
  <2>1. CASE ExitFill(s, i)
    <3> DEFINE n == exits[s][i].filled + 1
               x == [exits[s][i] EXCEPT !.filled = n]
    <3>0. /\ exits[s][i].filled \in Shares /\ exits[s][i].quantity \in 1 .. Quantity
          /\ exits[s][i].filled < exits[s][i].quantity
      BY <1>1, <2>1 DEF ExitFill, Exit
    <3>1. n \in Shares /\ n <= exits[s][i].quantity
      BY <1>2, <3>0 DEF Shares
    <3>2. /\ x \in Exit /\ x.stage = exits[s][i].stage /\ x.filled = n /\ x.quantity = exits[s][i].quantity
          /\ x.entered = exits[s][i].entered /\ x.target = exits[s][i].target /\ x.committed = exits[s][i].committed
      BY <1>1, <3>1 DEF Exit
    <3>3. exits' = [exits EXCEPT ![s] = [exits[s] EXCEPT ![i] = x]]
      BY <2>1, <1>1 DEF ExitFill
    <3> HIDE DEF x, n
    <3>4. Kept(x) = Kept(exits[s][i]) /\ Kept(x) \in Nat
      BY <3>2, <1>0, KeptIsNumber DEF Kept
    <3>5. Stays(exits[s][i], x) /\ x.stage # "CLAIMED"
      BY <1>0, <1>2, <3>1, <3>2, <3>4 DEF Stays, Accounted
    <3> QED
      BY <3>2, <3>3, <3>5
  <2>2. ASSUME NEW stage \in {"RETURNED", "ENDED"}, exits' = [exits EXCEPT ![s][i].stage = stage]
        PROVE  \E x : Becomes(x)
    <3> DEFINE x == [exits[s][i] EXCEPT !.stage = stage]
    <3>1. /\ x \in Exit /\ x.stage = stage /\ x.filled = exits[s][i].filled /\ x.quantity = exits[s][i].quantity
          /\ x.entered = exits[s][i].entered /\ x.target = exits[s][i].target /\ x.committed = exits[s][i].committed
      BY <1>1 DEF Exit, ExitStages
    <3>2. exits' = [exits EXCEPT ![s] = [exits[s] EXCEPT ![i] = x]]
      BY <2>2, <1>1
    <3> HIDE DEF x
    <3>3. Kept(x) = Kept(exits[s][i]) /\ Kept(x) \in Nat
      BY <3>1, <1>2, KeptIsNumber DEF Kept
    <3>4. Stays(exits[s][i], x) /\ x.stage # "CLAIMED"
      BY <1>1, <3>1, <3>3 DEF Stays, Accounted
    <3> QED
      BY <3>1, <3>2, <3>4
  <2> HIDE DEF Becomes
  <2> QED
    BY <2>1, <2>2 DEF ExitReported
<1>4. PICK x : Becomes(x)
  BY <1>3
<1>5. Typed' /\ \A r \in Strategies : Sold(r)'
  <2>1. /\ pump' \in [at : {"wait", "coordinate", "effects"}, cancels : SUBSET Strategies, claims : SUBSET Strategies]
        /\ wake' \in BOOLEAN
    BY <1>0 DEF SInv, Typed
  <2> QED
    BY <1>0, <1>4, <2>1, OneExitKeeps
<1>6. /\ \A r \in Strategies : Len(exits'[r]) = Len(exits[r]) /\ DOMAIN exits'[r] = DOMAIN exits[r]
      /\ \A r \in Strategies : exits[r] # << >> => exits'[r] # << >>
      /\ exits'[s][i] = x
      /\ \A r \in Strategies : \A j \in DOMAIN exits[r] : r # s \/ j # i => exits'[r][j] = exits[r][j]
  BY <1>1, <1>4, Replaced
<1>7. ASSUME NEW r \in pump.claims PROVE exits'[r] # << >> /\ exits'[r][Len(exits'[r])].stage = "CLAIMED"
  <2>1. r \in Strategies /\ exits[r] # << >> /\ exits[r][Len(exits[r])].stage = "CLAIMED" /\ exits[r] \in Seq(Exit)
    BY DEF SInv, Typed, PumpHolds
  <2>2. Len(exits[r]) \in DOMAIN exits[r]
    BY <2>1, EmptySeq
  <2>3. r # s \/ Len(exits[r]) # i
    BY <1>0, <2>1
  <2> QED
    BY <1>6, <2>1, <2>2, <2>3
<1>8. PumpHolds'
  BY <1>0, <1>7 DEF SInv, PumpHolds
<1>9. ClaimIsOwned'
  BY <1>0, <1>4, <1>6 DEF SInv, ClaimIsOwned, Up
<1> QED
  BY <1>5, <1>8, <1>9 DEF SInv

(* What becomes known of the entry: it only fills. *)
LEMMA EntryKeeps ==
  SInv /\ (\E s \in Strategies : EntryBound(s) \/ EntryFill(s) \/ EntryEnds(s)) => SInv'
<1> SUFFICES ASSUME SInv, NEW s \in Strategies, EntryBound(s) \/ EntryFill(s) \/ EntryEnds(s) PROVE SInv'
  OBVIOUS
<1>1. /\ UNCHANGED <<exits, target, enabled, asked, phase, pump, failed, failures, crashes>>
      /\ wake' = wake \/ wake' = TRUE
  BY DEF EntryBound, EntryFill, EntryEnds, BrokerSays, process
<1>2. \E e \in Entry : entry' = [entry EXCEPT ![s] = e] /\ entry[s].filled <= e.filled
  <2>1. entry \in [Strategies -> Entry] /\ entry[s] \in Entry /\ entry[s].filled \in 0 .. Quantity /\ Quantity \in Nat
    BY StrategyAssumption DEF SInv, Typed, Entry, Shares
  <2>2. CASE EntryBound(s)
    <3> DEFINE e == [entry[s] EXCEPT !.bound = TRUE]
    <3>1. e \in Entry /\ e.filled = entry[s].filled /\ entry' = [entry EXCEPT ![s] = e]
      BY <2>1, <2>2 DEF EntryBound, Entry
    <3>2. entry[s].filled <= e.filled
      BY <2>1, <3>1
    <3> QED
      BY <3>1, <3>2
  <2>3. CASE EntryFill(s)
    <3> DEFINE n == entry[s].filled + 1
               e == [entry[s] EXCEPT !.filled = n, !.ended = entry[s].ended \/ n = Quantity]
    <3>1. n \in Shares /\ entry[s].filled <= n
      BY <2>1, <2>3 DEF EntryFill, Shares
    <3>2. (entry[s].ended \/ n = Quantity) \in BOOLEAN
      OBVIOUS
    <3>3. e \in Entry /\ e.filled = n
      BY <2>1, <3>1, <3>2 DEF Entry
    <3>4. entry' = [entry EXCEPT ![s] = e]
      BY <2>1, <2>3 DEF EntryFill, Entry
    <3> HIDE DEF e
    <3> QED
      BY <3>1, <3>3, <3>4
  <2>4. CASE EntryEnds(s)
    <3> DEFINE e == [entry[s] EXCEPT !.ended = TRUE]
    <3>1. e \in Entry /\ e.filled = entry[s].filled /\ entry' = [entry EXCEPT ![s] = e]
      BY <2>1, <2>4 DEF EntryEnds, Entry
    <3>2. entry[s].filled <= e.filled
      BY <2>1, <3>1
    <3> QED
      BY <3>1, <3>2
  <2> QED
    BY <2>2, <2>3, <2>4
<1>3. PICK e \in Entry : entry' = [entry EXCEPT ![s] = e] /\ entry[s].filled <= e.filled
  BY <1>2
<1>4. entry' \in [Strategies -> Entry]
  BY <1>3 DEF SInv, Typed
<1>5. \A r \in Strategies : entry[r].filled <= entry'[r].filled
  <2> SUFFICES ASSUME NEW r \in Strategies PROVE entry[r].filled <= entry'[r].filled
    OBVIOUS
  <2>1. entry[r].filled \in Nat
    BY Numbers
  <2> QED
    BY <1>3, <2>1 DEF SInv, Typed
<1>6. \A r \in Strategies : Sold(r)'
  BY <1>1, <1>4, <1>5, SoldRests
<1>7. Typed'
  BY <1>1, <1>4 DEF SInv, Typed
<1>8. PumpHolds' /\ ClaimIsOwned'
  BY <1>1, OwnersRest
<1> QED
  BY <1>6, <1>7, <1>8 DEF SInv

-----------------------------------------------------------------------------
(* The pump. *)

(* What is available fits between the target and what is claimed already.  *)
LEMMA Affordable ==
  ASSUME SInv, NEW s \in Strategies, NEW n \in Nat \ {0}, n <= Available(s), target[s] # NoTarget
  PROVE  Committed(s) + n + target[s] <= entry[s].filled
<1>1. Committed(s) \in Nat /\ Exited(s) \in Nat /\ entry[s].filled \in Nat /\ target[s] \in Nat
  BY Numbers
<1>2. Available(s) = Effective(s) - Reserved(s) - target[s]
  BY DEF Available
<1> QED
  BY <1>1, <1>2 DEF Effective, Reserved

LEMMA KeptAppend ==
  ASSUME NEW q \in Seq(Exit), NEW x \in Exit
  PROVE  Total(KeptOf(Append(q, x))) = Total(KeptOf(q)) + Kept(x)
<1> DEFINE p == Append(q, x)
<1>1. /\ p \in Seq(Exit) /\ Len(p) = Len(q) + 1 /\ p[Len(q) + 1] = x
      /\ \A i \in 1 .. Len(q) : p[i] = q[i]
  BY AppendProperties
<1> HIDE DEF p
<1>2. /\ KeptOf(q) \in Seq(Nat) /\ Len(KeptOf(q)) = Len(q) /\ \A i \in 1 .. Len(q) : KeptOf(q)[i] = Kept(q[i])
      /\ KeptOf(p) \in Seq(Nat) /\ Len(KeptOf(p)) = Len(q) + 1
      /\ \A i \in 1 .. Len(q) + 1 : KeptOf(p)[i] = Kept(p[i])
  BY <1>1, OfTyped
<1>3. Kept(x) \in Nat /\ Len(q) \in Nat
  BY KeptIsNumber
<1> DEFINE w == Append(KeptOf(q), Kept(x))
<1>4. /\ w \in Seq(Nat) /\ Len(w) = Len(q) + 1 /\ w[Len(q) + 1] = Kept(x)
      /\ \A i \in 1 .. Len(q) : w[i] = KeptOf(q)[i]
  BY <1>2, <1>3, AppendProperties
<1> HIDE DEF w
<1>5. \A i \in 1 .. Len(q) + 1 : KeptOf(p)[i] = w[i]
  <2> SUFFICES ASSUME NEW i \in 1 .. Len(q) + 1 PROVE KeptOf(p)[i] = w[i]
    OBVIOUS
  <2>1. i \in 1 .. Len(q) \/ i = Len(q) + 1
    BY <1>3
  <2> QED
    BY <1>1, <1>2, <1>4, <2>1
<1>6. KeptOf(p) = w
  BY <1>2, <1>3, <1>4, <1>5
<1> QED
  BY <1>2, <1>3, <1>6, TotalAppend DEF p, w

LEMMA CoordinateKeeps == SInv /\ Coordinate => SInv'
<1> SUFFICES ASSUME SInv, Coordinate PROVE SInv'
  OBVIOUS
<1>1. PICK plan \in ClaimPlans :
        /\ exits' = [s \in Strategies |->
                       IF s \in Claimed(plan) THEN Append(exits[s], Claim(s, plan[s])) ELSE exits[s]]
        /\ pump' = [at |-> "effects", cancels |-> {s \in Strategies : CancelsEntry(s)},
                    claims |-> Claimed(plan)]
  BY DEF Coordinate
<1>2. UNCHANGED <<entry, target, enabled, asked, phase, wake, failed, failures, crashes>> /\ pump.claims = {}
  BY DEF Coordinate, SInv, PumpHolds
<1>3. Quantity \in Nat /\ exits \in [Strategies -> Seq(Exit)]
  BY StrategyAssumption DEF SInv, Typed
<1>4. ASSUME NEW s \in Strategies, s \in Claimed(plan)
      PROVE  /\ plan[s] \in Nat \ {0} /\ target[s] # NoTarget /\ target[s] \in Nat
             /\ Committed(s) \in Nat /\ entry[s].filled \in Nat
             /\ Committed(s) + plan[s] + target[s] <= entry[s].filled
             /\ Len(exits[s]) # MaxExits
  <2>1. plan[s] \in Nat \ {0} /\ plan[s] <= Available(s)
    BY <1>3, <1>4 DEF ClaimPlans, Claimed, Shares
  <2>2. Coordinated(s) /\ Len(exits[s]) # MaxExits
    BY <1>4, <2>1 DEF ClaimPlans
  <2>3. target[s] # NoTarget
    BY <2>2 DEF Coordinated
  <2>4. Committed(s) \in Nat /\ entry[s].filled \in Nat /\ target[s] \in Nat
    BY <2>3, Numbers
  <2>5. Committed(s) + plan[s] + target[s] <= entry[s].filled
    BY <2>1, <2>3, Affordable
  <2> QED
    BY <2>1, <2>2, <2>3, <2>4, <2>5
<1>5. ASSUME NEW s \in Strategies, s \in Claimed(plan)
      PROVE  /\ Claim(s, plan[s]) \in Exit /\ Claim(s, plan[s]).stage = "CLAIMED"
             /\ Kept(Claim(s, plan[s])) = plan[s]
             /\ Backed(Claim(s, plan[s])) /\ Accounted(Claim(s, plan[s]))
  <2>1. entry[s].filled <= Quantity
    BY Numbers
  <2>2. /\ plan[s] \in 1 .. Quantity /\ 0 \in Shares /\ Committed(s) \in Shares
        /\ target[s] \in Shares /\ entry[s].filled \in Shares
    BY <1>3, <1>4, <1>5, <2>1 DEF Shares
  <2>3. asked[s] \in 0 .. MaxRequests /\ 0 \in 0 .. MaxRequests
    BY StrategyAssumption DEF SInv, Typed
  <2>4. Claim(s, plan[s]) \in Exit
    BY <2>2, <2>3 DEF Claim, Exit, ExitStages
  <2>5. Backed(Claim(s, plan[s]))
    BY <1>4, <1>5 DEF Claim, Backed
  <2>6. Claim(s, plan[s]).stage = "CLAIMED" /\ Kept(Claim(s, plan[s])) = plan[s] /\ Claim(s, plan[s]).filled = 0
    BY DEF Claim, Kept
  <2> QED
    BY <1>4, <1>5, <2>4, <2>5, <2>6 DEF Accounted
<1>6. \A s \in Strategies :
        /\ exits'[s] \in Seq(Exit)
        /\ \/ s \notin Claimed(plan) /\ exits'[s] = exits[s]
           \/ /\ s \in Claimed(plan) /\ exits'[s] = Append(exits[s], Claim(s, plan[s]))
              /\ Len(exits'[s]) = Len(exits[s]) + 1 /\ exits'[s][Len(exits[s]) + 1] = Claim(s, plan[s])
              /\ \A i \in 1 .. Len(exits[s]) : exits'[s][i] = exits[s][i]
  <2> SUFFICES ASSUME NEW s \in Strategies
               PROVE  /\ exits'[s] \in Seq(Exit)
                      /\ \/ s \notin Claimed(plan) /\ exits'[s] = exits[s]
                         \/ /\ s \in Claimed(plan) /\ exits'[s] = Append(exits[s], Claim(s, plan[s]))
                            /\ Len(exits'[s]) = Len(exits[s]) + 1
                            /\ exits'[s][Len(exits[s]) + 1] = Claim(s, plan[s])
                            /\ \A i \in 1 .. Len(exits[s]) : exits'[s][i] = exits[s][i]
    OBVIOUS
  <2>1. exits[s] \in Seq(Exit) /\ (s \in Claimed(plan) => Claim(s, plan[s]) \in Exit)
    BY <1>3, <1>5
  <2>2. exits'[s] = IF s \in Claimed(plan) THEN Append(exits[s], Claim(s, plan[s])) ELSE exits[s]
    BY <1>1
  <2>3. CASE s \in Claimed(plan)
    BY <2>1, <2>2, <2>3, AppendProperties
  <2>4. CASE s \notin Claimed(plan)
    BY <2>1, <2>2, <2>4
  <2> QED
    BY <2>3, <2>4
<1>7. exits' \in [Strategies -> Seq(Exit)]
  BY <1>1, <1>6
<1>8. \A s \in Strategies : Len(exits'[s]) <= MaxExits
  <2> SUFFICES ASSUME NEW s \in Strategies PROVE Len(exits'[s]) <= MaxExits
    OBVIOUS
  <2>1. Len(exits[s]) \in Nat /\ Len(exits[s]) <= MaxExits /\ MaxExits \in Nat
    BY <1>3, StrategyAssumption DEF SInv, Typed
  <2> QED
    BY <1>4, <1>6, <2>1
<1>9. Typed'
  <2>1. pump' \in [at : {"wait", "coordinate", "effects"}, cancels : SUBSET Strategies, claims : SUBSET Strategies]
    BY <1>1 DEF Claimed
  <2> QED
    BY <1>2, <1>7, <1>8, <2>1 DEF SInv, Typed
<1>10. PumpHolds'
  <2>1. pump'.at = "effects" /\ pump'.claims = Claimed(plan) /\ Claimed(plan) \subseteq Strategies
    BY <1>1 DEF Claimed
  <2>2. ASSUME NEW s \in Claimed(plan) PROVE exits'[s] # << >> /\ exits'[s][Len(exits'[s])].stage = "CLAIMED"
    <3>1. s \in Strategies /\ exits[s] \in Seq(Exit)
      BY <1>3, <2>1
    <3>2. Len(exits'[s]) = Len(exits[s]) + 1 /\ Len(exits[s]) \in Nat
      BY <1>6, <3>1
    <3>3. exits'[s][Len(exits'[s])] = Claim(s, plan[s])
      BY <1>6, <3>1
    <3> QED
      BY <1>5, <3>1, <3>2, <3>3
  <2>3. phase' # "DOWN"
    BY <1>2 DEF Coordinate
  <2> QED
    BY <2>1, <2>2, <2>3 DEF PumpHolds
<1>11. ASSUME NEW s \in Strategies PROVE Sold(s)'
  <2>0. exits[s] \in Seq(Exit) /\ DOMAIN exits[s] = 1 .. Len(exits[s]) /\ Len(exits[s]) \in Nat
        /\ exits'[s] \in Seq(Exit) /\ DOMAIN exits'[s] = 1 .. Len(exits'[s])
    BY <1>3, <1>7
  <2>1. CASE s \notin Claimed(plan)
    <3>1. exits'[s] = exits[s] /\ target'[s] = target[s] /\ entry'[s] = entry[s]
      BY <1>2, <1>6, <2>1
    <3> QED
      BY <3>1 DEF SInv, Sold, Committed
  <2>2. CASE s \in Claimed(plan)
    <3>1. target'[s] = target[s] /\ entry'[s] = entry[s] /\ target[s] # NoTarget
      BY <1>2, <1>4, <2>2
    <3>2. ASSUME NEW i \in DOMAIN exits'[s] PROVE Backed(exits'[s][i]) /\ Accounted(exits'[s][i])
      <4>1. CASE i \in 1 .. Len(exits[s])
        <5>1. exits'[s][i] = exits[s][i]
          BY <1>6, <2>2, <4>1
        <5> QED
          BY <2>0, <4>1, <5>1 DEF SInv, Sold
      <4>2. CASE i = Len(exits[s]) + 1
        BY <1>5, <1>6, <2>2, <4>2
      <4> QED
        BY <1>6, <2>0, <2>2, <4>1, <4>2
    <3>3. Committed(s)' = Committed(s) + plan[s]
      <4>1. Committed(s)' = Total(KeptOf(exits'[s])) /\ Committed(s) = Total(KeptOf(exits[s]))
        BY DEF Committed, KeptOf
      <4>2. exits'[s] = Append(exits[s], Claim(s, plan[s])) /\ Claim(s, plan[s]) \in Exit
            /\ Kept(Claim(s, plan[s])) = plan[s]
        BY <1>5, <1>6, <2>2
      <4>3. Total(KeptOf(exits'[s])) = Total(KeptOf(exits[s])) + plan[s]
        BY <2>0, <4>2, KeptAppend
      <4> QED
        BY <4>1, <4>3
    <3>4. Committed(s)' + target'[s] <= entry'[s].filled
      BY <1>4, <2>2, <3>1, <3>3
    <3> QED
      BY <3>1, <3>2, <3>4 DEF Sold
  <2> QED
    BY <2>1, <2>2
<1>12. ClaimIsOwned'
  <2> SUFFICES ASSUME failures = 0, Up, NEW s \in Strategies, NEW i \in DOMAIN exits'[s],
                      exits'[s][i].stage = "CLAIMED"
               PROVE  i = Len(exits'[s]) /\ s \in Claimed(plan)
    BY <1>1, <1>2 DEF ClaimIsOwned, Up
  <2>1. \A j \in DOMAIN exits[s] : exits[s][j].stage # "CLAIMED"
    BY <1>2 DEF SInv, ClaimIsOwned
  <2>2. DOMAIN exits[s] = 1 .. Len(exits[s]) /\ DOMAIN exits'[s] = 1 .. Len(exits'[s]) /\ Len(exits[s]) \in Nat
    BY <1>3, <1>7
  <2> QED
    BY <1>6, <2>1, <2>2
<1> QED
  BY <1>9, <1>10, <1>11, <1>12 DEF SInv

LEMMA DispatchKeeps == SInv /\ (\E s \in Strategies : Dispatch(s)) => SInv'
<1> SUFFICES ASSUME SInv, NEW s \in Strategies, Dispatch(s) PROVE SInv'
  OBVIOUS
<1>1. PICK outcome \in Outcomes(s) : exits' = [exits EXCEPT ![s] = Dispatched(s, outcome)]
  BY DEF Dispatch
<1>2. /\ UNCHANGED <<entry, target, enabled, asked, phase, wake, failed, failures, crashes>>
      /\ pump.at = "effects" /\ s \in pump.claims /\ pump' = [pump EXCEPT !.claims = @ \ {s}]
  BY DEF Dispatch
<1> DEFINE i == Len(exits[s])
           resume == IF outcome = "NOT_SENT" THEN asked[s] ELSE 0
           x == [exits[s][i] EXCEPT !.stage = outcome, !.resume = resume]
<1>3. exits \in [Strategies -> Seq(Exit)] /\ exits[s] \in Seq(Exit) /\ exits[s] # << >> /\ exits[s][i].stage = "CLAIMED"
  BY <1>2 DEF SInv, Typed, PumpHolds
<1>4. i \in DOMAIN exits[s] /\ exits[s][i] \in Exit /\ DOMAIN exits[s] = 1 .. i
  BY <1>3, EmptySeq
<1>5. outcome \in ExitStages /\ outcome # "CLAIMED"
  BY DEF Outcomes, ExitStages
<1>6. resume \in 0 .. MaxRequests
  BY StrategyAssumption DEF SInv, Typed
<1>7. /\ x \in Exit /\ x.stage = outcome /\ x.filled = exits[s][i].filled /\ x.quantity = exits[s][i].quantity
      /\ x.entered = exits[s][i].entered /\ x.target = exits[s][i].target /\ x.committed = exits[s][i].committed
  <2> HIDE DEF resume
  <2> QED
    BY <1>4, <1>5, <1>6 DEF Exit
<1>8. exits' = [exits EXCEPT ![s] = [exits[s] EXCEPT ![i] = x]]
  BY <1>1, <1>3, <1>4 DEF Dispatched
<1> HIDE DEF resume, x
<1>9. Stays(exits[s][i], x)
  <2>1. exits[s][i].filled = 0 /\ Kept(exits[s][i]) = exits[s][i].quantity /\ exits[s][i].quantity \in Nat
    <3>1. exits[s][i].filled = 0
      BY <1>3, <1>4 DEF SInv, Sold, Accounted
    <3>2. exits[s][i].quantity \in Nat
      BY <1>4, StrategyAssumption DEF Exit
    <3> QED
      BY <1>3, <3>1, <3>2 DEF Kept
  <2>2. Kept(x) \in {0, exits[s][i].quantity}
    BY <1>7 DEF Kept
  <2> QED
    BY <1>5, <1>7, <2>1, <2>2 DEF Stays, Accounted
<1> HIDE DEF i
<1>10. /\ \A r \in Strategies : Len(exits'[r]) = Len(exits[r]) /\ DOMAIN exits'[r] = DOMAIN exits[r]
       /\ \A r \in Strategies : exits[r] # << >> => exits'[r] # << >>
       /\ exits'[s][i] = x
       /\ \A r \in Strategies : \A j \in DOMAIN exits[r] : r # s \/ j # i => exits'[r][j] = exits[r][j]
  BY <1>3, <1>4, <1>7, <1>8, Replaced
<1>11. /\ pump'.at = pump.at /\ pump'.claims = pump.claims \ {s}
       /\ pump' \in [at : {"wait", "coordinate", "effects"}, cancels : SUBSET Strategies, claims : SUBSET Strategies]
  BY <1>2 DEF SInv, Typed
<1>12. Typed' /\ \A r \in Strategies : Sold(r)'
  <2>1. wake' \in BOOLEAN
    BY <1>2 DEF SInv, Typed
  <2> QED
    BY <1>2, <1>4, <1>7, <1>8, <1>9, <1>11, <2>1, OneExitKeeps
<1>13. PumpHolds'
  <2>1. ASSUME NEW r \in pump.claims, r # s
        PROVE  exits'[r] # << >> /\ exits'[r][Len(exits'[r])].stage = "CLAIMED"
    <3>1. r \in Strategies /\ exits[r] # << >> /\ exits[r][Len(exits[r])].stage = "CLAIMED" /\ exits[r] \in Seq(Exit)
      BY DEF SInv, Typed, PumpHolds
    <3>2. Len(exits[r]) \in DOMAIN exits[r]
      BY <3>1, EmptySeq
    <3> QED
      BY <1>10, <2>1, <3>1, <3>2
  <2> QED
    BY <1>2, <1>11, <2>1 DEF SInv, PumpHolds
<1>14. ClaimIsOwned'
  <2> SUFFICES ASSUME failures = 0, Up, NEW r \in Strategies, NEW j \in DOMAIN exits[r],
                      exits'[r][j].stage = "CLAIMED"
               PROVE  j = Len(exits[r]) /\ r \in pump.claims /\ r # s
    BY <1>2, <1>10, <1>11 DEF ClaimIsOwned, Up
  <2>1. r # s \/ j # i
    BY <1>5, <1>7, <1>10
  <2>2. exits[r][j].stage = "CLAIMED"
    BY <1>10, <2>1
  <2>3. j = Len(exits[r]) /\ r \in pump.claims
    BY <2>2 DEF SInv, ClaimIsOwned
  <2> QED
    BY <2>1, <2>3 DEF i
<1> QED
  BY <1>12, <1>13, <1>14 DEF SInv

(* The rest of a pass, and a pass that raises, after which nobody owns what *)
(* was left.                                                               *)
LEMMA PumpKeeps ==
  SInv /\ (PumpTakesWake \/ CoordinateOffline \/ PassEnds \/ PassRaises) => SInv'
<1> SUFFICES ASSUME SInv, PumpTakesWake \/ CoordinateOffline \/ PassEnds \/ PassRaises PROVE SInv'
  OBVIOUS
<1>0. /\ UNCHANGED <<journal, phase, crashes>>
      /\ pump.at # "effects" => pump.claims = {}
      /\ pump \in [at : {"wait", "coordinate", "effects"}, cancels : SUBSET Strategies, claims : SUBSET Strategies]
      /\ failures \in Nat
  BY StrategyAssumption DEF SInv, Typed, PumpHolds, PumpTakesWake, CoordinateOffline, PassEnds, PassRaises
<1>1. \A s \in Strategies : Sold(s)'
  BY <1>0 DEF SInv, Sold, Committed, journal
<1>2. pump'.claims = {} /\ (failures = 0 /\ failures' = 0 => pump.claims = {})
  BY <1>0 DEF PumpTakesWake, CoordinateOffline, PassEnds, PassRaises, Waiting
<1>3. Typed'
  <2>1. pump' \in [at : {"wait", "coordinate", "effects"}, cancels : SUBSET Strategies, claims : SUBSET Strategies]
    BY <1>0 DEF PumpTakesWake, CoordinateOffline, PassEnds, PassRaises, Waiting
  <2>2. failures' \in 0 .. MaxFailures
    BY StrategyAssumption DEF SInv, Typed, PumpTakesWake, CoordinateOffline, PassEnds, PassRaises
  <2>3. wake' \in BOOLEAN /\ failed' \in BOOLEAN
    BY DEF SInv, Typed, PumpTakesWake, CoordinateOffline, PassEnds, PassRaises
  <2> QED
    BY <1>0, <2>1, <2>2, <2>3 DEF SInv, Typed, journal
<1>4. PumpHolds'
  BY <1>2 DEF PumpHolds
<1>5. failures' = 0 => failures = 0
  BY <1>0 DEF PumpTakesWake, CoordinateOffline, PassEnds, PassRaises
<1>6. ClaimIsOwned'
  BY <1>0, <1>2, <1>5 DEF SInv, ClaimIsOwned, Up, journal
<1> QED
  BY <1>1, <1>3, <1>4, <1>6 DEF SInv

LEMMA CancelKeeps == SInv /\ (\E s \in Strategies : CancelEntry(s)) => SInv'
<1> SUFFICES ASSUME SInv, NEW s \in Strategies, CancelEntry(s) PROVE SInv'
  OBVIOUS
<1>1. /\ UNCHANGED <<target, enabled, asked, exits, phase, wake, failed, failures, crashes>>
      /\ pump'.at = pump.at /\ pump'.claims = pump.claims
      /\ pump' \in [at : {"wait", "coordinate", "effects"}, cancels : SUBSET Strategies, claims : SUBSET Strategies]
  BY DEF CancelEntry, SInv, Typed
<1>2. entry \in [Strategies -> Entry] /\ entry[s] \in Entry
  BY DEF SInv, Typed
<1> DEFINE b == entry[s].cancelClaimed \/ ~entry[s].ended
           e == [entry[s] EXCEPT !.cancelClaimed = b]
<1>3. b \in BOOLEAN
  OBVIOUS
<1>4. entry' = [entry EXCEPT ![s] = e]
  BY <1>2 DEF CancelEntry, Entry
<1> HIDE DEF b
<1>5. e \in Entry /\ e.filled = entry[s].filled
  BY <1>2, <1>3 DEF Entry
<1> HIDE DEF e
<1>6. entry' \in [Strategies -> Entry] /\ \A r \in Strategies : entry'[r].filled = entry[r].filled
  BY <1>2, <1>4, <1>5
<1>7. \A r \in Strategies : entry[r].filled <= entry'[r].filled
  <2> SUFFICES ASSUME NEW r \in Strategies PROVE entry[r].filled <= entry'[r].filled
    OBVIOUS
  <2>1. entry[r].filled \in Nat
    BY Numbers
  <2> QED
    BY <1>6, <2>1
<1>8. \A r \in Strategies : Sold(r)'
  BY <1>1, <1>6, <1>7, SoldRests
<1>9. Typed'
  BY <1>1, <1>6 DEF SInv, Typed
<1>10. PumpHolds' /\ ClaimIsOwned'
  BY <1>1 DEF SInv, PumpHolds, ClaimIsOwned, Up
<1> QED
  BY <1>8, <1>9, <1>10 DEF SInv

-----------------------------------------------------------------------------
(* The process: what it owned is gone with it, and its successor puts every *)
(* claim it finds in doubt.                                                *)
LEMMA DownKeeps == SInv /\ (Stop \/ Crash) => SInv'
<1> SUFFICES ASSUME SInv, Down, Stop \/ Crash PROVE SInv'
  BY DEF Stop, Crash
<1>1. UNCHANGED <<journal, failures>> /\ phase' = "DOWN" /\ pump' = Waiting /\ wake' = FALSE /\ failed' = FALSE
  BY DEF Down
<1>2. crashes' \in 0 .. MaxCrashes
  <2>1. CASE Crash
    BY <2>1, StrategyAssumption DEF Crash, Down, SInv, Typed
  <2>2. CASE Stop
    BY <2>2, StrategyAssumption DEF Stop, Down, SInv, Typed
  <2> QED
    BY <2>1, <2>2
<1>3. pump' \in [at : {"wait", "coordinate", "effects"}, cancels : SUBSET Strategies, claims : SUBSET Strategies]
  BY <1>1 DEF Waiting
<1>4. Typed'
  BY <1>1, <1>2, <1>3 DEF SInv, Typed, Phases, journal
<1>5. PumpHolds'
  BY <1>1 DEF PumpHolds, Waiting
<1>6. \A s \in Strategies : Sold(s)'
  BY <1>1 DEF SInv, Sold, Committed, journal
<1>7. ClaimIsOwned'
  BY <1>1 DEF ClaimIsOwned, Up
<1> QED
  BY <1>4, <1>5, <1>6, <1>7 DEF SInv

LEMMA RestartKeeps == SInv /\ Restart => SInv'
<1> SUFFICES ASSUME SInv, Restart PROVE SInv'
  OBVIOUS
<1>1. /\ exits' = [s \in Strategies |-> [i \in DOMAIN exits[s] |-> AfterStartup(exits[s][i])]]
      /\ UNCHANGED <<entry, target, enabled, asked, pump, failed, failures, crashes>>
      /\ phase = "DOWN" /\ phase' = "ONLINE" /\ wake' = TRUE
  BY DEF Restart
<1>2. ASSUME NEW x \in Exit
      PROVE  /\ AfterStartup(x) \in Exit /\ AfterStartup(x).stage # "CLAIMED"
             /\ Accounted(x) => Stays(x, AfterStartup(x))
  <2>1. Kept(x) \in Nat /\ x.filled \in Nat
    BY KeptIsNumber
  <2>2. CASE x.stage = "CLAIMED"
    <3>1. AfterStartup(x) = [x EXCEPT !.stage = "UNKNOWN"]
      BY <2>2 DEF AfterStartup
    <3> DEFINE y == [x EXCEPT !.stage = "UNKNOWN"]
    <3>2. /\ y \in Exit /\ y.stage = "UNKNOWN" /\ y.filled = x.filled /\ y.quantity = x.quantity
          /\ y.entered = x.entered /\ y.target = x.target /\ y.committed = x.committed
      BY DEF Exit, ExitStages
    <3> HIDE DEF y
    <3>3. Kept(y) = Kept(x)
      BY <2>2, <3>2 DEF Kept
    <3>4. Accounted(x) => Stays(x, y)
      BY <2>1, <3>2, <3>3 DEF Stays, Accounted
    <3> QED
      BY <3>1, <3>2, <3>4 DEF y
  <2>3. CASE x.stage # "CLAIMED"
    BY <2>1, <2>3 DEF AfterStartup, Stays
  <2> QED
    BY <2>2, <2>3
<1>3. ASSUME NEW s \in Strategies
      PROVE  /\ exits'[s] \in Seq(Exit) /\ Len(exits'[s]) = Len(exits[s])
             /\ \A i \in DOMAIN exits'[s] : exits'[s][i].stage # "CLAIMED"
             /\ \A i \in DOMAIN exits[s] : Stays(exits[s][i], exits'[s][i])
  <2>1. exits[s] \in Seq(Exit) /\ DOMAIN exits[s] = 1 .. Len(exits[s])
    BY DEF SInv, Typed
  <2>2. exits'[s] = [i \in 1 .. Len(exits[s]) |-> AfterStartup(exits[s][i])]
    BY <1>1, <2>1
  <2>3. \A i \in 1 .. Len(exits[s]) :
          /\ AfterStartup(exits[s][i]) \in Exit /\ AfterStartup(exits[s][i]).stage # "CLAIMED"
          /\ Stays(exits[s][i], AfterStartup(exits[s][i]))
    <3> SUFFICES ASSUME NEW i \in 1 .. Len(exits[s])
                 PROVE  /\ AfterStartup(exits[s][i]) \in Exit /\ AfterStartup(exits[s][i]).stage # "CLAIMED"
                        /\ Stays(exits[s][i], AfterStartup(exits[s][i]))
      OBVIOUS
    <3>1. exits[s][i] \in Exit /\ Accounted(exits[s][i])
      BY <2>1 DEF SInv, Sold
    <3> QED
      BY <1>2, <3>1
  <2>4. exits'[s] \in Seq(Exit) /\ Len(exits'[s]) = Len(exits[s])
    BY <2>1, <2>2, <2>3
  <2> QED
    BY <2>1, <2>2, <2>3, <2>4
<1>4. exits' \in [Strategies -> Seq(Exit)]
  BY <1>1, <1>3
<1>5. Typed'
  BY <1>1, <1>3, <1>4 DEF SInv, Typed, Phases
<1>6. ASSUME NEW s \in Strategies PROVE Sold(s)'
  <2>1. /\ Typed /\ Sold(s) /\ target'[s] = target[s]
        /\ entry'[s].filled \in Nat /\ entry[s].filled <= entry'[s].filled
    BY <1>1, Numbers DEF SInv
  <2> QED
    BY <1>3, <2>1, SoldKeeps
<1>7. PumpHolds'
  BY <1>1 DEF SInv, PumpHolds
<1>8. ClaimIsOwned'
  BY <1>3 DEF ClaimIsOwned
<1> QED
  BY <1>5, <1>6, <1>7, <1>8 DEF SInv

-----------------------------------------------------------------------------
LEMMA SInvStep == SInv /\ [Next]_vars => SInv'
<1> SUFFICES ASSUME SInv, [Next]_vars PROVE SInv'
  OBVIOUS
<1>1. ASSUME UNCHANGED <<journal, phase, pump, failed, failures, crashes>>, wake' \in BOOLEAN PROVE SInv'
  <2>1. Typed' /\ \A s \in Strategies : Sold(s)'
    BY <1>1 DEF SInv, Typed, Sold, Committed, journal
  <2>2. PumpHolds' /\ ClaimIsOwned'
    BY <1>1, OwnersRest DEF journal
  <2> QED
    BY <2>1, <2>2 DEF SInv
<1>2. CASE Requests
  BY <1>2, RequestKeeps
<1>3. CASE Broker
  <2>1. CASE Query
    BY <1>1, <2>1 DEF Query
  <2> QED
    BY <1>3, <2>1, EntryKeeps, ReportKeeps DEF Broker
<1>4. CASE Pump
  BY <1>4, CoordinateKeeps, DispatchKeeps, PumpKeeps, CancelKeeps DEF Pump
<1>5. CASE RequestOffline
  <2>1. /\ UNCHANGED <<journal, pump, failed, failures, crashes>> /\ crashes < MaxCrashes
        /\ phase = "ONLINE" /\ phase' = "STOPPING" /\ wake' = TRUE
    BY <1>5 DEF RequestOffline
  <2>2. Typed' /\ \A s \in Strategies : Sold(s)'
    BY <2>1 DEF SInv, Typed, Phases, Sold, Committed, journal
  <2>3. PumpHolds' /\ ClaimIsOwned'
    BY <2>1 DEF SInv, PumpHolds, ClaimIsOwned, Up, journal
  <2> QED
    BY <2>2, <2>3 DEF SInv
<1>6. CASE PassRaises \/ Stop \/ Crash \/ Restart
  BY <1>6, PumpKeeps, DownKeeps, RestartKeeps
<1>7. CASE UNCHANGED vars
  <2>1. wake' \in BOOLEAN
    BY <1>7 DEF vars, process, SInv, Typed
  <2> QED
    BY <1>1, <1>7, <2>1 DEF vars, process
<1> QED
  BY <1>2, <1>3, <1>4, <1>5, <1>6, <1>7 DEF Next

LEMMA SInvAlways == Spec => []SInv
BY SInvInit, SInvStep, PTL DEF Spec

-----------------------------------------------------------------------------
(* Every variable of the exit strategies keeps its type, for any number of *)
(* strategies, shares, requests, exits, failures and crashes; in           *)
(* particular no claim is for nothing, and none for more than the entry    *)
(* order's quantity (runtime.py, strategy.py).                             *)
THEOREM StrategyTypeCorrect == Spec => []TypeOK
<1>1. SInv => TypeOK
  BY DEF SInv, Typed, TypeOK
<1> QED
  BY <1>1, SInvAlways, PTL

(* The shares the operator asked to keep are never put up for sale: what    *)
(* is claimed lies above the target, however requests, prices, fills,       *)
(* failures and restarts interleave with the claims (runtime.py,           *)
(* _strategy_request, _native_price, _coordinate_strategies).              *)
THEOREM TargetIsKept == Spec => []KeepsTarget
<1>1. SInv => KeepsTarget
  BY DEF SInv, Sold, KeepsTarget
<1> QED
  BY <1>1, SInvAlways, PTL

(* Startup accepts every journal the runtime can have written: each claim   *)
(* is backed by the fills recorded before it (runtime.py,                   *)
(* _verify_strategies), so no crash leaves a process that cannot start.    *)
THEOREM JournalsReplay == Spec => []ReplaysCleanly
<1>1. SInv => ReplaysCleanly
  BY DEF SInv, Sold, ReplaysCleanly, Verified
<1> QED
  BY <1>1, SInvAlways, PTL

(* While no pass has raised, nobody forgets a claim: one that was not sent  *)
(* is the last of its strategy and in the hands of the pass that made it,  *)
(* whatever stops, crashes, restarts and wakes come between, with as many  *)
(* strategies and exits as there are (runtime.py, _coordinate_strategies).  *)
THEOREM ClaimsHaveOwners == Spec => []ClaimIsOwned
<1>1. SInv => ClaimIsOwned
  BY DEF SInv
<1> QED
  BY <1>1, SInvAlways, PTL

(* The requirement of strategy.py, quantities: the exits never show more    *)
(* fills than they keep claimed, nor keep more than the entry has filled,  *)
(* so STRATEGY_QUANTITY_CONFLICT is never raised.                          *)
QuantitiesAgree ==
  \A s \in Strategies : 0 <= Exited(s) /\ Exited(s) <= Committed(s) /\ Committed(s) <= entry[s].filled

THEOREM NoQuantityConflict == Spec => []QuantitiesAgree
<1>1. SInv => QuantitiesAgree
  <2> SUFFICES ASSUME SInv, NEW s \in Strategies
               PROVE  0 <= Exited(s) /\ Exited(s) <= Committed(s) /\ Committed(s) <= entry[s].filled
    BY DEF QuantitiesAgree
  <2>1. /\ exits[s] \in Seq(Exit) /\ Committed(s) \in Nat /\ Exited(s) \in Nat /\ entry[s].filled \in Nat
        /\ target[s] # NoTarget => target[s] \in Nat
        /\ target[s] = NoTarget => Committed(s) = 0
    BY Numbers
  <2>2. Committed(s) <= entry[s].filled
    BY <2>1 DEF SInv, Sold
  <2>3. Exited(s) <= Committed(s)
    <3>1. /\ KeptOf(exits[s]) \in Seq(Nat) /\ Len(KeptOf(exits[s])) = Len(exits[s])
          /\ FilledOf(exits[s]) \in Seq(Nat) /\ Len(FilledOf(exits[s])) = Len(exits[s])
          /\ \A i \in 1 .. Len(exits[s]) : /\ KeptOf(exits[s])[i] = Kept(exits[s][i])
                                           /\ FilledOf(exits[s])[i] = exits[s][i].filled
      BY <2>1, OfTyped
    <3>2. \A i \in 1 .. Len(exits[s]) : FilledOf(exits[s])[i] <= KeptOf(exits[s])[i]
      BY <2>1, <3>1 DEF SInv, Sold, Accounted
    <3>3. Total(FilledOf(exits[s])) <= Total(KeptOf(exits[s]))
      BY <3>1, <3>2, TotalAtMost
    <3> QED
      BY <2>1, <3>3, CommittedIsNumber
  <2> QED
    BY <2>1, <2>2, <2>3
<1> QED
  BY <1>1, SInvAlways, PTL
=============================================================================
