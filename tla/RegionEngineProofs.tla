------------------------- MODULE RegionEngineProofs -------------------------
(***************************************************************************)
(* Lemmas about sequences and about the operators of RegionEngine, which   *)
(* the theorems about TransitionCore and ManagedChildren rest on.          *)
(***************************************************************************)
EXTENDS RegionEngine, FiniteSetTheorems, WellFoundedInduction, TLAPS

-----------------------------------------------------------------------------
(* Numbers and sequences.                                                  *)

\* A non-empty set of natural numbers has a least element.
LEMMA NatMin ==
  ASSUME NEW T, T \subseteq Nat, T # {}
  PROVE  \E x \in T : \A y \in T : x <= y
<1> DEFINE R == OpToRel(<, Nat)
<1>1. \A x, y \in Nat : y < x => <<y, x>> \in R
  BY DEF OpToRel
<1>2. IsWellFoundedOn(R, Nat)
  BY NatLessThanWellFounded
<1> HIDE DEF R
<1>3. PICK x \in T : \A y \in T : ~ (<<y, x>> \in R)
  BY <1>2, WFMin
<1>4. ASSUME NEW y \in T PROVE x <= y
  <2>1. x \in Nat /\ y \in Nat
    OBVIOUS
  <2>2. ~ (y < x)
    BY <1>1, <1>3, <2>1
  <2>3. QED
    BY <2>1, <2>2
<1>5. QED
  BY <1>4

\* A non-empty set of indices has a greatest element.
LEMMA MaxExists ==
  ASSUME NEW n \in Nat, NEW S, S \subseteq 1..n, S # {}
  PROVE  \E x \in S : \A y \in S : y <= x
<1> DEFINE T == {n - i : i \in S}
<1>1. T \subseteq Nat
  <2>1. \A i \in S : n - i \in Nat
    OBVIOUS
  <2>2. QED
    BY <2>1
<1>2. T # {}
  OBVIOUS
<1>3. PICK m \in T : \A y \in T : m <= y
  <2> HIDE DEF T
  <2>1. QED
    BY <1>1, <1>2, NatMin
<1>4. PICK x \in S : m = n - x
  OBVIOUS
<1>5. ASSUME NEW y \in S PROVE y <= x
  <2>1. n - x <= n - y
    BY <1>3, <1>4
  <2>2. x \in Int /\ y \in Int
    OBVIOUS
  <2>3. QED
    BY <2>1, <2>2
<1>6. QED
  BY <1>5

\* What IsSeq says of a sequence's domain.
LEMMA SeqDomain ==
  ASSUME NEW s, IsSeq(s)
  PROVE  Len(s) \in Nat /\ DOMAIN s = 1..Len(s)
BY DEF IsSeq

\* A sequence over any set is one over its own elements.
LEMMA SeqIsSeq ==
  ASSUME NEW S, NEW s \in Seq(S)
  PROVE  IsSeq(s)
<1>1. Len(s) \in Nat /\ DOMAIN s = 1..Len(s) /\ s \in [1..Len(s) -> S]
  OBVIOUS
<1>2. s \in [1..Len(s) -> {s[i] : i \in DOMAIN s}]
  BY <1>1
<1>3. QED
  BY <1>1, <1>2 DEF IsSeq

\* A function on 1..n is a sequence of length n.
LEMMA FunctionIsSeq ==
  ASSUME NEW n \in Nat, NEW S, NEW s \in [1..n -> S]
  PROVE  IsSeq(s) /\ Len(s) = n
<1>1. s \in Seq(S) /\ Len(s) = n
  OBVIOUS
<1>2. QED
  BY <1>1, SeqIsSeq

\* Concatenation over one set.
LEMMA ConcatInSeq ==
  ASSUME NEW S, NEW s \in Seq(S), NEW t \in Seq(S)
  PROVE  s \o t \in Seq(S) /\ Len(s \o t) = Len(s) + Len(t)
OBVIOUS

\* Concatenation keeps sequences, adds their lengths and keeps both parts.
LEMMA ConcatIsSeq ==
  ASSUME NEW s, NEW t, IsSeq(s), IsSeq(t)
  PROVE  /\ IsSeq(s \o t)
         /\ Len(s \o t) = Len(s) + Len(t)
         /\ \A i \in 1..Len(s) : (s \o t)[i] = s[i]
         /\ \A i \in 1..Len(t) : (s \o t)[Len(s) + i] = t[i]
<1> DEFINE S == {s[i] : i \in DOMAIN s} \union {t[i] : i \in DOMAIN t}
<1>1. s \in Seq(S) /\ t \in Seq(S)
  BY SeqDomain DEF IsSeq
<1>2. Len(s) \in Nat /\ Len(t) \in Nat
  BY SeqDomain
<1> HIDE DEF S
<1>3. s \o t \in Seq(S)
  BY <1>1
<1>4. Len(s \o t) = Len(s) + Len(t)
  BY <1>1
<1>5. IsSeq(s \o t)
  BY <1>3, SeqIsSeq
<1>6. \A i \in 1..Len(s) : (s \o t)[i] = s[i]
  BY <1>1, <1>2
<1>7. \A i \in 1..Len(t) : (s \o t)[Len(s) + i] = t[i]
  BY <1>1, <1>2
<1>8. QED
  BY <1>4, <1>5, <1>6, <1>7

\* One element in front of a sequence.
LEMMA PrependIsSeq ==
  ASSUME NEW x, NEW t, IsSeq(t)
  PROVE  /\ IsSeq(<<x>> \o t)
         /\ Len(<<x>> \o t) = 1 + Len(t)
         /\ (<<x>> \o t)[1] = x
         /\ \A i \in 1..Len(t) : (<<x>> \o t)[1 + i] = t[i]
<1> DEFINE s == <<x>>
<1>1. IsSeq(s) /\ Len(s) = 1 /\ s[1] = x
  <2>1. s \in Seq({x})
    OBVIOUS
  <2>2. QED
    BY <2>1, SeqIsSeq
<1> HIDE DEF s
<1>2. IsSeq(s \o t) /\ Len(s \o t) = Len(s) + Len(t)
  BY <1>1, ConcatIsSeq
<1>3. \A i \in 1..Len(s) : (s \o t)[i] = s[i]
  BY <1>1, ConcatIsSeq
<1>4. \A i \in 1..Len(t) : (s \o t)[Len(s) + i] = t[i]
  <2>1. IsSeq(s)
    BY <1>1
  <2>2. QED
    BY <2>1, ConcatIsSeq
<1>5. 1 \in 1..Len(s)
  BY <1>1
<1>6. QED
  BY <1>1, <1>2, <1>3, <1>4, <1>5 DEF s

-----------------------------------------------------------------------------
(* The engine's operators.                                                 *)

\* A region that is entered has a last item that enters it.
LEMMA LastForExists ==
  ASSUME NEW items, IsSeq(items), NEW i \in DOMAIN items
  PROVE  LastFor(items, items[i].region) # {}
<1> DEFINE S == {j \in DOMAIN items : items[j].region = items[i].region}
<1>1. Len(items) \in Nat /\ S \subseteq 1..Len(items) /\ S # {}
  BY SeqDomain
<1>2. PICK k \in S : \A j \in S : j <= k
  <2> HIDE DEF S
  <2>1. QED
    BY <1>1, MaxExists
<1>3. k \in LastFor(items, items[i].region)
  BY <1>2 DEF LastFor
<1>4. QED
  BY <1>3

\* What the evaluation of joins works on: a complete state map and the joins
\* fired so far.
IsCascade(c, regions) == DOMAIN c.states = regions /\ IsSeq(c.fired)

\* The joins one snapshot fires form a sequence.
LEMMA CheckJoinsIsSeq ==
  ASSUME NEW m, IsSeq(m.joins), NEW states
  PROVE  IsSeq(CheckJoins(m, states))
<1> DEFINE ready == {i \in DOMAIN m.joins : JoinReady(m.joins[i], states)}
           nth(k) == CHOOSE i \in ready : Cardinality({j \in ready : j <= i}) = k
           n == Cardinality(ready)
           fired == [k \in 1..n |-> Fired(m.joins[nth(k)], states)]
<1>1. Len(m.joins) \in Nat /\ ready \subseteq 1..Len(m.joins)
  BY SeqDomain
<1>2. n \in Nat
  <2> HIDE DEF ready
  <2>1. IsFiniteSet(1..Len(m.joins))
    BY <1>1, FS_Interval
  <2>2. IsFiniteSet(ready)
    BY <1>1, <2>1, FS_Subset
  <2>3. QED
    BY <2>2, FS_CardinalityType
<1>3. CheckJoins(m, states) = fired
  BY DEF CheckJoins
<1> HIDE DEF n, nth
<1>4. fired \in [1..n -> {fired[k] : k \in 1..n}]
  OBVIOUS
<1> HIDE DEF fired
<1>5. QED
  BY <1>2, <1>3, <1>4, FunctionIsSeq

\* One pass keeps the regions and extends the fired joins.
LEMMA PassKeepsCascades ==
  ASSUME NEW m, IsSeq(m.joins), NEW regions,
         NEW C, \A c \in C : IsCascade(c, regions)
  PROVE  \A c \in Pass(m, C) : IsCascade(c, regions)
<1>1. ASSUME NEW c \in C PROVE IsCascade(JoinPass(m, c), regions)
  <2>1. IsSeq(CheckJoins(m, c.states))
    BY CheckJoinsIsSeq
  <2>2. IsSeq(c.fired \o CheckJoins(m, c.states))
    BY <2>1, <1>1, ConcatIsSeq DEF IsCascade
  <2>3. DOMAIN SetAll(c.states, CheckJoins(m, c.states)) = regions
    BY <1>1 DEF SetAll, IsCascade
  <2>4. QED
    BY <2>2, <2>3 DEF JoinPass, IsCascade
<1>2. QED
  BY <1>1 DEF Pass

\* So do five passes.
LEMMA FivePassesKeepCascades ==
  ASSUME NEW m, IsSeq(m.joins), NEW regions,
         NEW C, \A c \in C : IsCascade(c, regions)
  PROVE  \A c \in FivePasses(m, C) : IsCascade(c, regions)
<1> DEFINE C1 == Pass(m, C)
           C2 == Pass(m, C1)
           C3 == Pass(m, C2)
           C4 == Pass(m, C3)
           C5 == Pass(m, C4)
<1>1. C5 = FivePasses(m, C)
  BY DEF FivePasses
<1> HIDE DEF C1, C2, C3, C4, C5
<1>2. \A c \in C1 : IsCascade(c, regions)
  BY PassKeepsCascades DEF C1
<1>3. \A c \in C2 : IsCascade(c, regions)
  BY <1>2, PassKeepsCascades DEF C2
<1>4. \A c \in C3 : IsCascade(c, regions)
  BY <1>3, PassKeepsCascades DEF C3
<1>5. \A c \in C4 : IsCascade(c, regions)
  BY <1>4, PassKeepsCascades DEF C4
<1>6. \A c \in C5 : IsCascade(c, regions)
  BY <1>5, PassKeepsCascades DEF C5
<1>7. QED
  BY <1>1, <1>6

\* apply_joins returns a complete state map and a sequence of fired joins.
LEMMA ApplyJoinsYieldsCascades ==
  ASSUME NEW m, IsSeq(m.joins), NEW states
  PROVE  \A c \in ApplyJoins(m, states) : IsCascade(c, DOMAIN states)
<1> DEFINE C == {[states |-> states, fired |-> <<>>]}
<1>1. \A c \in C : IsCascade(c, DOMAIN states)
  <2>1. <<>> \in Seq({})
    OBVIOUS
  <2>2. IsSeq(<<>>)
    BY <2>1, SeqIsSeq
  <2>3. QED
    BY <2>2 DEF IsCascade
<1>2. ApplyJoins(m, states) = FivePasses(m, FivePasses(m, C))
  BY DEF ApplyJoins
<1> HIDE DEF C
<1>3. \A c \in FivePasses(m, C) : IsCascade(c, DOMAIN states)
  BY <1>1, FivePassesKeepCascades
<1>4. \A c \in FivePasses(m, FivePasses(m, C)) : IsCascade(c, DOMAIN states)
  BY <1>3, FivePassesKeepCascades
<1>5. QED
  BY <1>2, <1>4

-----------------------------------------------------------------------------
(* The last item of a region.                                              *)

\* There is at most one, and there is one as soon as the region has an item.
LEMMA LastForIsUnique ==
  ASSUME NEW items, IsSeq(items), NEW r
  PROVE  /\ LastFor(items, r) \subseteq 1..Len(items)
         /\ \A i, j \in LastFor(items, r) : i = j
         /\ LastFor(items, r) = {} => \A i \in DOMAIN items : items[i].region # r
<1>1. Len(items) \in Nat /\ DOMAIN items = 1..Len(items)
  BY SeqDomain
<1>2. LastFor(items, r) \subseteq 1..Len(items)
  BY <1>1 DEF LastFor
<1>3. ASSUME NEW i \in LastFor(items, r), NEW j \in LastFor(items, r) PROVE i = j
  <2>1. i <= j /\ j <= i
    BY DEF LastFor
  <2>2. i \in Nat /\ j \in Nat
    BY <1>1, <1>2
  <2>3. QED
    BY <2>1, <2>2
<1>4. ASSUME LastFor(items, r) = {}, NEW i \in DOMAIN items PROVE items[i].region # r
  BY <1>4, LastForExists
<1>5. QED
  BY <1>2, <1>3, <1>4

\* Of two sequences in a row, the second decides where it has an item.
LEMMA LastForConcat ==
  ASSUME NEW s, NEW t, IsSeq(s), IsSeq(t), NEW r
  PROVE  LastFor(s \o t, r) = IF LastFor(t, r) = {} THEN LastFor(s, r)
                              ELSE {Len(s) + i : i \in LastFor(t, r)}
<1> DEFINE u == s \o t
<1>1. /\ Len(s) \in Nat /\ DOMAIN s = 1..Len(s)
      /\ Len(t) \in Nat /\ DOMAIN t = 1..Len(t)
  BY SeqDomain
<1>2. /\ Len(u) = Len(s) + Len(t) /\ IsSeq(u)
      /\ \A i \in 1..Len(s) : u[i] = s[i]
      /\ \A i \in 1..Len(t) : u[Len(s) + i] = t[i]
  BY ConcatIsSeq
<1>3. DOMAIN u = 1..(Len(s) + Len(t))
  BY <1>2, SeqDomain
<1> HIDE DEF u
<1>4. \A k \in DOMAIN u : \/ k \in DOMAIN s /\ u[k] = s[k]
                          \/ \E i \in DOMAIN t : k = Len(s) + i /\ u[k] = t[i]
  <2>1. SUFFICES ASSUME NEW k \in DOMAIN u, k \notin DOMAIN s
                 PROVE  \E i \in DOMAIN t : k = Len(s) + i /\ u[k] = t[i]
    BY <1>1, <1>2
  <2>2. k - Len(s) \in DOMAIN t /\ k = Len(s) + (k - Len(s))
    BY <1>1, <1>3, <2>1
  <2>3. QED
    BY <1>1, <1>2, <2>2
<1>5. CASE LastFor(t, r) = {}
  <2>1. \A i \in DOMAIN t : t[i].region # r
    BY <1>5, LastForIsUnique
  <2>2. \A k \in DOMAIN u : u[k].region = r => k \in DOMAIN s /\ u[k] = s[k]
    BY <1>4, <2>1
  <2>3. \A k \in DOMAIN s : k \in DOMAIN u /\ u[k] = s[k]
    BY <1>1, <1>2, <1>3
  <2>4. LastFor(u, r) = LastFor(s, r)
    BY <2>2, <2>3 DEF LastFor
  <2>5. QED
    BY <1>5, <2>4 DEF u
<1>6. CASE LastFor(t, r) # {}
  <2>1. PICK n \in LastFor(t, r) : TRUE
    BY <1>6
  <2>2. n \in DOMAIN t /\ t[n].region = r /\ \A j \in DOMAIN t : t[j].region = r => j <= n
    BY <2>1 DEF LastFor
  <2>3. Len(s) + n \in DOMAIN u /\ u[Len(s) + n] = t[n]
    BY <1>1, <1>2, <1>3, <2>2
  <2>4. \A k \in DOMAIN u : u[k].region = r => k <= Len(s) + n
    <3>1. SUFFICES ASSUME NEW k \in DOMAIN u, u[k].region = r PROVE k <= Len(s) + n
      OBVIOUS
    <3>2. CASE k \in DOMAIN s
      BY <1>1, <2>2, <3>2
    <3>3. CASE \E i \in DOMAIN t : k = Len(s) + i /\ u[k] = t[i]
      BY <1>1, <2>2, <3>1, <3>3
    <3>4. QED
      BY <1>4, <3>2, <3>3
  <2>5. LastFor(u, r) = {Len(s) + n}
    <3>1. Len(s) + n \in LastFor(u, r)
      BY <2>2, <2>3, <2>4 DEF LastFor
    <3>2. QED
      BY <1>2, <3>1, LastForIsUnique
  <2>6. LastFor(t, r) = {n}
    BY <2>1, LastForIsUnique
  <2>7. QED
    BY <1>6, <2>5, <2>6 DEF u
<1>7. QED
  BY <1>5, <1>6

\* The prefix of a sequence that agrees with another one is that one.
LEMMA PrefixIsSubSeq ==
  ASSUME NEW s, NEW t, IsSeq(s), IsSeq(t), Len(s) <= Len(t), \A i \in 1..Len(s) : t[i] = s[i]
  PROVE  SubSeq(t, 1, Len(s)) = s
<1>1. Len(s) \in Nat /\ DOMAIN s = 1..Len(s)
  BY SeqDomain
<1>2. SubSeq(t, 1, Len(s)) = [i \in 1..Len(s) |-> t[i]]
  <2> DEFINE S == {t[i] : i \in DOMAIN t}
  <2>1. t \in Seq(S)
    BY DEF IsSeq
  <2> HIDE DEF S
  <2>2. QED
    BY <1>1, <2>1
<1>3. s = [i \in 1..Len(s) |-> s[i]]
  <2> DEFINE S == {s[i] : i \in DOMAIN s}
  <2>1. s \in Seq(S)
    BY DEF IsSeq
  <2> HIDE DEF S
  <2>2. QED
    BY <1>1, <2>1
<1>4. QED
  BY <1>2, <1>3

\* Sequences that agree everywhere are one.
LEMMA SameSeq ==
  ASSUME NEW s, NEW t, IsSeq(s), IsSeq(t), Len(s) = Len(t), \A i \in 1..Len(s) : s[i] = t[i]
  PROVE  s = t
<1>1. SubSeq(t, 1, Len(s)) = s
  BY PrefixIsSubSeq, SeqDomain
<1>2. SubSeq(t, 1, Len(t)) = t
  BY PrefixIsSubSeq, SeqDomain
<1>3. QED
  BY <1>1, <1>2

-----------------------------------------------------------------------------
(* The state map of a write is the old one with the rows of the write set. *)

\* Nothing set.
LEMMA SetNothing ==
  ASSUME NEW states, states = [r \in DOMAIN states |-> states[r]]
  PROVE  SetAll(states, <<>>) = states
<1>1. \A r : LastFor(<<>>, r) = {}
  BY DEF LastFor
<1>2. SetAll(states, <<>>) = [r \in DOMAIN states |-> states[r]]
  BY <1>1 DEF SetAll
<1>3. QED
  BY <1>2

\* One sequence set after another is their concatenation set.
LEMMA SetAllComposes ==
  ASSUME NEW states, NEW s, NEW t, IsSeq(s), IsSeq(t)
  PROVE  SetAll(SetAll(states, s), t) = SetAll(states, s \o t)
<1> DEFINE at(items, r) == items[CHOOSE i \in LastFor(items, r) : TRUE].to
<1>1. ASSUME NEW r \in DOMAIN states, LastFor(t, r) # {}
      PROVE  LastFor(s \o t, r) # {} /\ at(s \o t, r) = at(t, r)
  <2>1. PICK n \in LastFor(t, r) : TRUE
    BY <1>1
  <2>2. LastFor(t, r) = {n} /\ n \in 1..Len(t)
    BY <2>1, LastForIsUnique
  <2>3. LastFor(s \o t, r) = {Len(s) + n}
    <3>1. LastFor(s \o t, r) = {Len(s) + i : i \in LastFor(t, r)}
      BY <1>1, LastForConcat
    <3>2. {Len(s) + i : i \in {n}} = {Len(s) + n}
      OBVIOUS
    <3>3. QED
      BY <2>2, <3>1, <3>2
  <2>4. (s \o t)[Len(s) + n] = t[n]
    BY <2>2, ConcatIsSeq
  <2>5. QED
    BY <2>2, <2>3, <2>4
<1>2. ASSUME NEW r \in DOMAIN states, LastFor(t, r) = {}
      PROVE  LastFor(s \o t, r) = LastFor(s, r)
  BY <1>2, LastForConcat
<1>3. ASSUME NEW r \in DOMAIN states, LastFor(s, r) # {}, LastFor(t, r) = {}
      PROVE  at(s \o t, r) = at(s, r)
  <2>1. PICK n \in LastFor(s, r) : TRUE
    BY <1>3
  <2>2. LastFor(s, r) = {n} /\ n \in 1..Len(s)
    BY <2>1, LastForIsUnique
  <2>3. (s \o t)[n] = s[n]
    BY <2>2, ConcatIsSeq
  <2>4. QED
    BY <1>2, <1>3, <2>2, <2>3
<1>4. ASSUME NEW items PROVE SetAll(states, items) =
        [r \in DOMAIN states |-> IF LastFor(items, r) = {} THEN states[r] ELSE at(items, r)]
  BY DEF SetAll
<1>5. SetAll(SetAll(states, s), t) =
        [r \in DOMAIN states |-> IF LastFor(t, r) = {} THEN SetAll(states, s)[r] ELSE at(t, r)]
  BY DEF SetAll
<1> HIDE DEF at
<1>6. QED
  BY <1>1, <1>2, <1>3, <1>4, <1>5

\* A cascade that accounts for every change it made to `from`.
Accounts(from, c) == IsSeq(c.fired) /\ c.states = SetAll(from, c.fired)

\* One pass accounts for its changes.
LEMMA PassAccounts ==
  ASSUME NEW m, IsSeq(m.joins), NEW from, NEW C, \A c \in C : Accounts(from, c)
  PROVE  \A c \in Pass(m, C) : Accounts(from, c)
<1>1. ASSUME NEW c \in C PROVE Accounts(from, JoinPass(m, c))
  <2> DEFINE fired == CheckJoins(m, c.states)
  <2>1. IsSeq(fired)
    BY CheckJoinsIsSeq
  <2>2. /\ JoinPass(m, c).states = SetAll(c.states, fired)
        /\ JoinPass(m, c).fired = c.fired \o fired
    BY DEF JoinPass
  <2> HIDE DEF fired
  <2>3. IsSeq(c.fired \o fired)
    BY <1>1, <2>1, ConcatIsSeq DEF Accounts
  <2>4. SetAll(SetAll(from, c.fired), fired) = SetAll(from, c.fired \o fired)
    BY <1>1, <2>1, SetAllComposes DEF Accounts
  <2>5. QED
    BY <1>1, <2>2, <2>3, <2>4 DEF Accounts
<1>2. QED
  BY <1>1 DEF Pass

\* So do five passes.
LEMMA FivePassesAccount ==
  ASSUME NEW m, IsSeq(m.joins), NEW from, NEW C, \A c \in C : Accounts(from, c)
  PROVE  \A c \in FivePasses(m, C) : Accounts(from, c)
<1> DEFINE C1 == Pass(m, C)
           C2 == Pass(m, C1)
           C3 == Pass(m, C2)
           C4 == Pass(m, C3)
           C5 == Pass(m, C4)
<1>1. C5 = FivePasses(m, C)
  BY DEF FivePasses
<1> HIDE DEF C1, C2, C3, C4, C5
<1>2. \A c \in C1 : Accounts(from, c)
  BY PassAccounts DEF C1
<1>3. \A c \in C2 : Accounts(from, c)
  BY <1>2, PassAccounts DEF C2
<1>4. \A c \in C3 : Accounts(from, c)
  BY <1>3, PassAccounts DEF C3
<1>5. \A c \in C4 : Accounts(from, c)
  BY <1>4, PassAccounts DEF C4
<1>6. \A c \in C5 : Accounts(from, c)
  BY <1>5, PassAccounts DEF C5
<1>7. QED
  BY <1>1, <1>6

\* What apply_joins returns is the map it was given with the fired joins set.
LEMMA ApplyJoinsAccounts ==
  ASSUME NEW m, IsSeq(m.joins), NEW states, states = [r \in DOMAIN states |-> states[r]]
  PROVE  \A c \in ApplyJoins(m, states) : Accounts(states, c)
<1> DEFINE C == {[states |-> states, fired |-> <<>>]}
<1>1. \A c \in C : Accounts(states, c)
  <2>1. <<>> \in Seq({})
    OBVIOUS
  <2>2. IsSeq(<<>>)
    BY <2>1, SeqIsSeq
  <2>3. QED
    BY <2>2, SetNothing DEF Accounts
<1>2. ApplyJoins(m, states) = FivePasses(m, FivePasses(m, C))
  BY DEF ApplyJoins
<1> HIDE DEF C
<1>3. \A c \in FivePasses(m, C) : Accounts(states, c)
  BY <1>1, FivePassesAccount
<1>4. \A c \in FivePasses(m, FivePasses(m, C)) : Accounts(states, c)
  BY <1>3, FivePassesAccount
<1>5. QED
  BY <1>2, <1>4

\* Rows that move a region, and then those the fired joins moved.
MainAndJoins(rows, region, to, fired) ==
  /\ IsSeq(rows) /\ Len(rows) = 1 + Len(fired)
  /\ rows[1].region = region /\ rows[1].to = to
  /\ \A k \in 1..Len(fired) : rows[1 + k].region = fired[k].region /\ rows[1 + k].to = fired[k].to

\* The transition taken, and the joins fired by a map that has it, are the rows of
\* the write.
LEMMA SetMainAndJoins ==
  ASSUME NEW states, NEW region, NEW to, NEW fired, IsSeq(fired),
         NEW rows, MainAndJoins(rows, region, to, fired),
         NEW moved, moved = [states EXCEPT ![region] = to]
  PROVE  SetAll(moved, fired) = SetAll(states, rows)
<1> DEFINE main == <<rows[1]>>
           joins == [k \in 1..Len(fired) |-> rows[1 + k]]
<1> /\ IsSeq(rows) /\ Len(rows) = 1 + Len(fired)
    /\ rows[1].region = region /\ rows[1].to = to
    /\ \A k \in 1..Len(fired) : rows[1 + k].region = fired[k].region /\ rows[1 + k].to = fired[k].to
  BY DEF MainAndJoins
<1>1. /\ Len(fired) \in Nat /\ DOMAIN fired = 1..Len(fired)
      /\ DOMAIN rows = 1..Len(rows)
  BY SeqDomain
<1>2. IsSeq(main) /\ Len(main) = 1 /\ main[1] = rows[1] /\ DOMAIN main = {1}
  <2>1. main \in Seq({rows[1]}) /\ Len(main) = 1 /\ main[1] = rows[1] /\ DOMAIN main = {1}
    OBVIOUS
  <2>2. IsSeq(main)
    BY <2>1, SeqIsSeq
  <2>3. QED
    BY <2>1, <2>2
<1>3. IsSeq(joins) /\ Len(joins) = Len(fired) /\ DOMAIN joins = DOMAIN fired
  <2>1. joins \in [1..Len(fired) -> {rows[1 + k] : k \in 1..Len(fired)}]
    OBVIOUS
  <2> HIDE DEF joins
  <2>2. QED
    BY <1>1, <2>1, FunctionIsSeq
<1>4. rows = main \o joins
  <2>1. /\ IsSeq(main \o joins) /\ Len(main \o joins) = 1 + Len(joins)
        /\ (main \o joins)[1] = rows[1]
        /\ \A k \in 1..Len(joins) : (main \o joins)[1 + k] = joins[k]
    <3> HIDE DEF joins
    <3>1. QED
      BY <1>3, PrependIsSeq
  <2>2. \A k \in 1..Len(fired) : joins[k] = rows[1 + k]
    OBVIOUS
  <2> HIDE DEF main, joins
  <2>3. ASSUME NEW i \in 1..Len(rows) PROVE rows[i] = (main \o joins)[i]
    <3>1. i = 1 \/ (i - 1 \in 1..Len(fired) /\ 1 + (i - 1) = i)
      BY <1>1
    <3>2. QED
      BY <1>3, <2>1, <2>2, <3>1
  <2>4. Len(rows) = Len(main \o joins)
    BY <1>1, <1>3, <2>1
  <2>5. QED
    BY <1>1, <2>1, <2>3, <2>4, SameSeq
<1>5. SetAll(states, main) = moved
  <2>1. \A r : LastFor(main, r) = IF r = region THEN {1} ELSE {}
    <3> HIDE DEF main
    <3>1. QED
      BY <1>1, <1>2 DEF LastFor
  <2>2. main[CHOOSE i \in {1} : TRUE].to = to
    BY <1>1, <1>2
  <2> HIDE DEF main
  <2>3. SetAll(states, main) = [r \in DOMAIN states |-> IF r = region THEN to ELSE states[r]]
    <3>1. ASSUME NEW r \in DOMAIN states
          PROVE  (IF LastFor(main, r) = {} THEN states[r] ELSE main[CHOOSE i \in LastFor(main, r) : TRUE].to)
                   = IF r = region THEN to ELSE states[r]
      <4>1. CASE r = region
        BY <2>1, <2>2, <4>1
      <4>2. CASE r # region
        BY <2>1, <4>2
      <4>3. QED
        BY <4>1, <4>2
    <3>2. QED
      BY <3>1 DEF SetAll
  <2>4. QED
    BY <2>3
<1>6. SetAll(moved, joins) = SetAll(moved, fired)
  <2>1. \A k \in DOMAIN fired : joins[k].region = fired[k].region /\ joins[k].to = fired[k].to
    BY <1>1
  <2> HIDE DEF joins
  <2>2. \A r : LastFor(joins, r) = LastFor(fired, r) /\ LastFor(joins, r) \subseteq DOMAIN fired
    BY <1>3, <2>1 DEF LastFor
  <2>3. ASSUME NEW r, LastFor(joins, r) # {}
        PROVE  joins[CHOOSE i \in LastFor(joins, r) : TRUE].to
                 = fired[CHOOSE i \in LastFor(fired, r) : TRUE].to
    BY <2>1, <2>2, <2>3
  <2>4. QED
    BY <2>2, <2>3 DEF SetAll
<1> HIDE DEF main, joins
<1>7. SetAll(SetAll(states, main), joins) = SetAll(states, main \o joins)
  BY <1>2, <1>3, SetAllComposes
<1>8. QED
  BY <1>4, <1>5, <1>6, <1>7

-----------------------------------------------------------------------------
(* Every fired join is one of the definition's.                            *)

\* A set of k or more indices has a k-th one.
LEMMA NthExists ==
  ASSUME NEW n \in Nat, NEW S, S \subseteq 1..n, NEW k \in 1..Cardinality(S)
  PROVE  \E i \in S : Cardinality({j \in S : j <= i}) = k
<1> DEFINE upto(i) == {j \in S : j <= i}
           T == {i \in 0..n : Cardinality(upto(i)) >= k}
<1>1. /\ IsFiniteSet(S) /\ Cardinality(S) \in Nat
      /\ \A j \in S : j \in Int /\ 1 <= j /\ j <= n
  <2>1. IsFiniteSet(1..n)
    BY FS_Interval
  <2>2. IsFiniteSet(S)
    BY <2>1, FS_Subset
  <2>3. QED
    BY <2>2, FS_CardinalityType
<1>2. \A i : IsFiniteSet(upto(i)) /\ Cardinality(upto(i)) \in Nat
  <2>1. SUFFICES ASSUME NEW i PROVE IsFiniteSet(upto(i)) /\ Cardinality(upto(i)) \in Nat
    OBVIOUS
  <2>2. upto(i) \subseteq S
    OBVIOUS
  <2> HIDE DEF upto
  <2>3. IsFiniteSet(upto(i))
    BY <1>1, <2>2, FS_Subset
  <2>4. QED
    BY <2>3, FS_CardinalityType
<1>3. n \in T
  <2>1. upto(n) = S
    BY <1>1
  <2> HIDE DEF upto
  <2>2. QED
    BY <1>1, <2>1
<1>4. PICK i \in T : \A j \in T : i <= j
  <2>1. T \subseteq Nat /\ T # {}
    BY <1>3
  <2> HIDE DEF T
  <2>2. QED
    BY <2>1, NatMin
<1>5. Cardinality(upto(0)) = 0
  <2>1. \A j \in S : ~ (j <= 0)
    BY <1>1
  <2>2. upto(0) = {}
    BY <2>1
  <2>3. QED
    BY <2>2, FS_EmptySet
<1>6. i \in 1..n /\ Cardinality(upto(i)) >= k
  <2>1. i # 0
    <3> HIDE DEF upto
    <3>1. QED
      BY <1>1, <1>4, <1>5
  <2>2. QED
    BY <1>4, <2>1
<1>7. Cardinality(upto(i - 1)) < k
  <2>1. i - 1 \in 0..n /\ ~ (i <= i - 1)
    BY <1>6
  <2> HIDE DEF upto
  <2>2. ~ (Cardinality(upto(i - 1)) >= k)
    BY <1>4, <2>1
  <2>3. QED
    BY <1>1, <1>2, <2>2
<1>8. i \in S /\ Cardinality(upto(i)) <= Cardinality(upto(i - 1)) + 1
  <2>1. CASE i \in S
    <3>1. upto(i) = upto(i - 1) \union {i} /\ i \notin upto(i - 1)
      <4>1. \A j \in S : j <= i <=> j <= i - 1 \/ j = i
        BY <1>1, <1>6
      <4>2. ~ (i <= i - 1)
        BY <1>6
      <4>3. QED
        BY <2>1, <4>1, <4>2
    <3> HIDE DEF upto
    <3>2. Cardinality(upto(i - 1) \union {i}) = Cardinality(upto(i - 1)) + 1
      BY <1>2, <3>1, FS_AddElement
    <3>3. QED
      BY <1>2, <2>1, <3>1, <3>2
  <2>2. CASE i \notin S
    <3>1. upto(i) = upto(i - 1)
      <4>1. \A j \in S : j <= i <=> j <= i - 1
        BY <1>1, <1>6, <2>2
      <4>2. QED
        BY <4>1
    <3> HIDE DEF upto
    <3>2. QED
      BY <1>1, <1>2, <1>6, <1>7, <3>1
  <2>3. QED
    BY <2>1, <2>2
<1>9. Cardinality(upto(i)) = k
  <2> HIDE DEF upto
  <2>1. QED
    BY <1>1, <1>2, <1>6, <1>7, <1>8
<1>10. QED
  BY <1>8, <1>9

\* The joins one snapshot fires are joins of the definition.
LEMMA CheckJoinsFires ==
  ASSUME NEW m, IsSeq(m.joins), NEW states, NEW k \in DOMAIN CheckJoins(m, states)
  PROVE  \E i \in DOMAIN m.joins : CheckJoins(m, states)[k] = Fired(m.joins[i], states)
<1> DEFINE ready == {i \in DOMAIN m.joins : JoinReady(m.joins[i], states)}
           nth(x) == CHOOSE i \in ready : Cardinality({j \in ready : j <= i}) = x
<1>1. Len(m.joins) \in Nat /\ ready \subseteq 1..Len(m.joins)
  BY SeqDomain
<1>2. k \in 1..Cardinality(ready) /\ CheckJoins(m, states)[k] = Fired(m.joins[nth(k)], states)
  BY DEF CheckJoins
<1>3. \E i \in ready : Cardinality({j \in ready : j <= i}) = k
  <2> HIDE DEF ready, nth
  <2>1. QED
    BY <1>1, <1>2, NthExists
<1>4. nth(k) \in ready
  <2> HIDE DEF ready
  <2>1. QED
    BY <1>3
<1>5. QED
  BY <1>2, <1>4

\* Fired joins each of which moves the region of some join.
FiredMoves(m, fired) ==
  IsSeq(fired) /\ \A k \in DOMAIN fired : \E i \in DOMAIN m.joins : fired[k].region = m.joins[i].target_region

\* One pass fires joins of the definition.
LEMMA PassFires ==
  ASSUME NEW m, IsSeq(m.joins), NEW C, \A c \in C : FiredMoves(m, c.fired)
  PROVE  \A c \in Pass(m, C) : FiredMoves(m, c.fired)
<1>1. ASSUME NEW c \in C PROVE FiredMoves(m, JoinPass(m, c).fired)
  <2> DEFINE s == c.fired
             t == CheckJoins(m, c.states)
  <2>1. IsSeq(s) /\ \A k \in DOMAIN s : \E i \in DOMAIN m.joins : s[k].region = m.joins[i].target_region
    BY <1>1 DEF FiredMoves
  <2>2. IsSeq(t) /\ \A k \in DOMAIN t : \E i \in DOMAIN m.joins : t[k].region = m.joins[i].target_region
    <3>1. ASSUME NEW k \in DOMAIN t PROVE \E i \in DOMAIN m.joins : t[k].region = m.joins[i].target_region
      <4>1. PICK i \in DOMAIN m.joins : t[k] = Fired(m.joins[i], c.states)
        BY CheckJoinsFires
      <4>2. t[k].region = m.joins[i].target_region
        BY <4>1 DEF Fired
      <4>3. QED
        BY <4>2
    <3>2. QED
      BY <3>1, CheckJoinsIsSeq
  <2>3. JoinPass(m, c).fired = s \o t
    BY DEF JoinPass
  <2> HIDE DEF s, t
  <2>4. /\ IsSeq(s \o t) /\ Len(s \o t) = Len(s) + Len(t)
        /\ \A k \in 1..Len(s) : (s \o t)[k] = s[k]
        /\ \A k \in 1..Len(t) : (s \o t)[Len(s) + k] = t[k]
    BY <2>1, <2>2, ConcatIsSeq
  <2>5. /\ Len(s) \in Nat /\ DOMAIN s = 1..Len(s) /\ Len(t) \in Nat /\ DOMAIN t = 1..Len(t)
        /\ DOMAIN (s \o t) = 1..(Len(s) + Len(t))
    BY <2>1, <2>2, <2>4, SeqDomain
  <2>6. ASSUME NEW k \in DOMAIN (s \o t)
        PROVE  \E i \in DOMAIN m.joins : (s \o t)[k].region = m.joins[i].target_region
    <3>1. CASE k <= Len(s)
      BY <2>1, <2>4, <2>5, <3>1
    <3>2. CASE k > Len(s)
      <4>1. k - Len(s) \in 1..Len(t) /\ Len(s) + (k - Len(s)) = k
        BY <2>5, <3>2
      <4>2. (s \o t)[k] = t[k - Len(s)]
        BY <2>4, <4>1
      <4>3. QED
        BY <2>2, <2>5, <4>1, <4>2
    <3>3. QED
      BY <2>5, <3>1, <3>2
  <2>7. QED
    BY <2>3, <2>4, <2>6 DEF FiredMoves
<1>2. QED
  BY <1>1 DEF Pass

\* So do five passes.
LEMMA FivePassesFire ==
  ASSUME NEW m, IsSeq(m.joins), NEW C, \A c \in C : FiredMoves(m, c.fired)
  PROVE  \A c \in FivePasses(m, C) : FiredMoves(m, c.fired)
<1> DEFINE C1 == Pass(m, C)
           C2 == Pass(m, C1)
           C3 == Pass(m, C2)
           C4 == Pass(m, C3)
           C5 == Pass(m, C4)
<1>1. C5 = FivePasses(m, C)
  BY DEF FivePasses
<1> HIDE DEF C1, C2, C3, C4, C5
<1>2. \A c \in C1 : FiredMoves(m, c.fired)
  BY PassFires DEF C1
<1>3. \A c \in C2 : FiredMoves(m, c.fired)
  BY <1>2, PassFires DEF C2
<1>4. \A c \in C3 : FiredMoves(m, c.fired)
  BY <1>3, PassFires DEF C3
<1>5. \A c \in C4 : FiredMoves(m, c.fired)
  BY <1>4, PassFires DEF C4
<1>6. \A c \in C5 : FiredMoves(m, c.fired)
  BY <1>5, PassFires DEF C5
<1>7. QED
  BY <1>1, <1>6

\* What apply_joins fires are joins of the definition.
LEMMA ApplyJoinsFires ==
  ASSUME NEW m, IsSeq(m.joins), NEW states
  PROVE  \A c \in ApplyJoins(m, states) : FiredMoves(m, c.fired)
<1> DEFINE C == {[states |-> states, fired |-> <<>>]}
<1>1. \A c \in C : FiredMoves(m, c.fired)
  <2>1. <<>> \in Seq({}) /\ DOMAIN <<>> = {}
    OBVIOUS
  <2>2. IsSeq(<<>>)
    BY <2>1, SeqIsSeq
  <2>3. QED
    BY <2>1, <2>2 DEF FiredMoves
<1>2. ApplyJoins(m, states) = FivePasses(m, FivePasses(m, C))
  BY DEF ApplyJoins
<1> HIDE DEF C
<1>3. \A c \in FivePasses(m, C) : FiredMoves(m, c.fired)
  BY <1>1, FivePassesFire
<1>4. \A c \in FivePasses(m, FivePasses(m, C)) : FiredMoves(m, c.fired)
  BY <1>3, FivePassesFire
<1>5. QED
  BY <1>2, <1>4

-----------------------------------------------------------------------------
(* Region instances.                                                       *)

\* A reader sees the stored instance of a region, or a legacy one.
LEMMA EffectiveIsStoredOrLegacy ==
  ASSUME NEW m, NEW e, NEW r \in DOMAIN e.states
  PROVE  \/ /\ EffectiveEntries(m, e)[r] = e.stored.regions[r]
            /\ e.stored.regions[r].state = e.states[r]
            /\ r \in DOMAIN e.stored.regions
         \/ EffectiveEntries(m, e)[r] = LegacyEntry(m, e, r)
BY DEF EffectiveEntries

\* A legacy instance is no newer than its row.
LEMMA LegacyInstance ==
  ASSUME NEW m, NEW e, NEW r
  PROVE  /\ LegacyEntry(m, e, r).state = e.states[r]
         /\ LegacyEntry(m, e, r).seq = e.version
         /\ LegacyEntry(m, e, r).entered_at \in {e.created_at, e.updated_at}
BY DEF LegacyEntry

-----------------------------------------------------------------------------
(* Stacks of calls: the elements of sequences.                             *)

Elements(s) == {s[i] : i \in DOMAIN s}

\* The first element and the others.
LEMMA HeadAndTail ==
  ASSUME NEW s, IsSeq(s), s # <<>>
  PROVE  /\ Len(s) \in Nat \ {0} /\ DOMAIN s = 1..Len(s) /\ Head(s) = s[1]
         /\ IsSeq(Tail(s)) /\ Len(Tail(s)) = Len(s) - 1 /\ DOMAIN Tail(s) = 1..Len(Tail(s))
         /\ \A i \in 1..Len(Tail(s)) : Tail(s)[i] = s[i + 1]
         /\ Elements(s) = {Head(s)} \union Elements(Tail(s))
<1> DEFINE S == Elements(s)
           t == Tail(s)
<1>1. s \in Seq(S)
  BY DEF IsSeq, Elements
<1> HIDE DEF S
<1>2. /\ Len(s) \in Nat \ {0} /\ DOMAIN s = 1..Len(s) /\ Head(s) = s[1]
      /\ t \in Seq(S) /\ Len(t) = Len(s) - 1
      /\ \A i \in 1..Len(t) : t[i] = s[i + 1]
  BY <1>1
<1> HIDE DEF t
<1>3. IsSeq(t) /\ DOMAIN t = 1..Len(t)
  BY <1>2, SeqIsSeq, SeqDomain
<1>4. ASSUME NEW y \in Elements(t) PROVE y \in Elements(s)
  <2>1. PICK i \in 1..Len(t) : y = t[i]
    BY <1>3 DEF Elements
  <2>2. i + 1 \in DOMAIN s /\ y = s[i + 1]
    BY <1>2, <2>1
  <2>3. QED
    BY <2>2 DEF Elements
<1>5. ASSUME NEW i \in DOMAIN s, i # 1 PROVE s[i] \in Elements(t)
  <2>1. i - 1 \in 1..Len(t) /\ (i - 1) + 1 = i
    BY <1>2, <1>5
  <2>2. s[i] = t[i - 1]
    BY <1>2, <2>1
  <2>3. QED
    BY <1>3, <2>1, <2>2 DEF Elements
<1>6. 1 \in DOMAIN s
  BY <1>2
<1>7. Elements(s) = {Head(s)} \union Elements(t)
  <2>1. ASSUME NEW y \in Elements(s) PROVE y = Head(s) \/ y \in Elements(t)
    <3>1. PICK i \in DOMAIN s : y = s[i]
      BY DEF Elements
    <3>2. QED
      BY <1>2, <1>5, <3>1
  <2>2. Head(s) \in Elements(s)
    BY <1>2, <1>6 DEF Elements
  <2>3. QED
    BY <1>4, <2>1, <2>2
<1>8. QED
  BY <1>2, <1>3, <1>7 DEF t

\* One sequence before another.
LEMMA ConcatElements ==
  ASSUME NEW s, IsSeq(s), NEW t, IsSeq(t)
  PROVE  /\ IsSeq(s \o t) /\ Elements(s \o t) = Elements(s) \union Elements(t)
         /\ \A i \in DOMAIN (s \o t) :
              \/ i \in DOMAIN s /\ (s \o t)[i] = s[i]
              \/ i - Len(s) \in DOMAIN t /\ (s \o t)[i] = t[i - Len(s)] /\ i > Len(s)
<1> DEFINE u == s \o t
<1>1. /\ Len(s) \in Nat /\ DOMAIN s = 1..Len(s)
      /\ Len(t) \in Nat /\ DOMAIN t = 1..Len(t)
  BY SeqDomain
<1>2. /\ Len(u) = Len(s) + Len(t) /\ IsSeq(u)
      /\ \A i \in 1..Len(s) : u[i] = s[i]
      /\ \A i \in 1..Len(t) : u[Len(s) + i] = t[i]
  BY ConcatIsSeq
<1>3. DOMAIN u = 1..(Len(s) + Len(t))
  BY <1>2, SeqDomain
<1> HIDE DEF u
<1>4. ASSUME NEW i \in DOMAIN u
      PROVE  \/ i \in DOMAIN s /\ u[i] = s[i]
             \/ i - Len(s) \in DOMAIN t /\ u[i] = t[i - Len(s)] /\ i > Len(s)
  <2>1. CASE i <= Len(s)
    BY <1>1, <1>2, <1>3, <2>1
  <2>2. CASE i > Len(s)
    <3>1. i - Len(s) \in 1..Len(t) /\ Len(s) + (i - Len(s)) = i
      BY <1>1, <1>3, <2>2
    <3>2. u[i] = t[i - Len(s)]
      BY <1>2, <3>1
    <3>3. QED
      BY <1>1, <2>2, <3>1, <3>2
  <2>3. QED
    BY <1>1, <1>3, <2>1, <2>2
<1>5. Elements(u) = Elements(s) \union Elements(t)
  <2>1. ASSUME NEW i \in DOMAIN u PROVE u[i] \in Elements(s) \union Elements(t)
    BY <1>4 DEF Elements
  <2>2. ASSUME NEW i \in DOMAIN s PROVE i \in DOMAIN u /\ u[i] = s[i]
    BY <1>1, <1>2, <1>3
  <2>3. ASSUME NEW i \in DOMAIN t PROVE Len(s) + i \in DOMAIN u /\ u[Len(s) + i] = t[i]
    BY <1>1, <1>2, <1>3
  <2>4. QED
    BY <2>1, <2>2, <2>3 DEF Elements
<1>6. QED
  BY <1>2, <1>4, <1>5 DEF u

\* No element, one and two.
LEMMA FewElements ==
  /\ IsSeq(<<>>) /\ Elements(<<>>) = {} /\ DOMAIN <<>> = {}
  /\ \A x : IsSeq(<<x>>) /\ Elements(<<x>>) = {x} /\ DOMAIN <<x>> = {1} /\ <<x>>[1] = x
  /\ \A x, y : /\ IsSeq(<<x, y>>) /\ Elements(<<x, y>>) = {x, y} /\ DOMAIN <<x, y>> = {1, 2}
               /\ <<x, y>>[1] = x /\ <<x, y>>[2] = y
<1>1. IsSeq(<<>>) /\ DOMAIN <<>> = {}
  <2>1. <<>> \in Seq({}) /\ DOMAIN <<>> = {}
    OBVIOUS
  <2>2. IsSeq(<<>>)
    BY <2>1, SeqIsSeq
  <2>3. QED
    BY <2>1, <2>2
<1>2. ASSUME NEW x PROVE IsSeq(<<x>>) /\ Elements(<<x>>) = {x} /\ DOMAIN <<x>> = {1} /\ <<x>>[1] = x
  <2>1. <<x>> \in Seq({x}) /\ DOMAIN <<x>> = {1} /\ <<x>>[1] = x
    OBVIOUS
  <2>2. IsSeq(<<x>>)
    BY <2>1, SeqIsSeq
  <2>3. QED
    BY <2>1, <2>2 DEF Elements
<1>3. ASSUME NEW x, NEW y
      PROVE  /\ IsSeq(<<x, y>>) /\ Elements(<<x, y>>) = {x, y} /\ DOMAIN <<x, y>> = {1, 2}
             /\ <<x, y>>[1] = x /\ <<x, y>>[2] = y
  <2>1. <<x, y>> \in Seq({x, y}) /\ DOMAIN <<x, y>> = {1, 2} /\ <<x, y>>[1] = x /\ <<x, y>>[2] = y
    OBVIOUS
  <2>2. IsSeq(<<x, y>>)
    BY <2>1, SeqIsSeq
  <2>3. QED
    BY <2>1, <2>2 DEF Elements
<1>4. QED
  BY <1>1, <1>2, <1>3 DEF Elements

\* One element for each element of another sequence.
LEMMA MapElements ==
  ASSUME NEW R, IsSeq(R), NEW f, NEW s, s = [i \in DOMAIN R |-> f[R[i]]]
  PROVE  IsSeq(s) /\ DOMAIN s = DOMAIN R /\ Elements(s) = {f[r] : r \in Elements(R)}
<1>1. Len(R) \in Nat /\ DOMAIN R = 1..Len(R)
  BY SeqDomain
<1>2. IsSeq(s)
  <2>1. s \in [1..Len(R) -> {f[R[i]] : i \in 1..Len(R)}]
    BY <1>1
  <2>2. QED
    BY <1>1, <2>1, FunctionIsSeq
<1>3. QED
  BY <1>2 DEF Elements
=============================================================================
