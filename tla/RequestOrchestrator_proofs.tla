---------------------- MODULE RequestOrchestrator_proofs --------------------
(***************************************************************************)
(* Theorems about RequestOrchestrator, for all sets of criteria and        *)
(* packages, every margin and token lifetime: the registry of requests,    *)
(* its accumulated package ids, the session cache and the metadata-first   *)
(* run (sat_orchestration.py, sat_auth.py).                                *)
(***************************************************************************)
EXTENDS RequestOrchestrator, FiniteSetTheorems, WellFoundedInduction, TLAPS

USE OrchestratorAssumption, RowAssumption

-----------------------------------------------------------------------------
(* Induction over the natural numbers, for sets. *)

LEMMA NoDescent == \A T \in SUBSET Nat : T # {} => \E x \in T : \A y \in T : ~ (y < x)
<1>1. IsWellFoundedOn({ss \in Nat \X Nat : ss[1] < ss[2]}, Nat)
  BY NatLessThanWellFounded DEF OpToRel
<1> SUFFICES ASSUME NEW T \in SUBSET Nat, T # {} PROVE \E x \in T : \A y \in T : ~ (y < x)
  OBVIOUS
<1> DEFINE R == {ss \in Nat \X Nat : ss[1] < ss[2]}
<1>2. \E x \in T : \A y \in T : <<y, x>> \notin R
  <2> HIDE DEF R
  <2> QED
    BY <1>1, WFMin DEF R
<1> QED
  BY <1>2

LEMMA SetInduction ==
  ASSUME NEW S, 0 \in S, \A n \in Nat : n \in S => n + 1 \in S
  PROVE  Nat \subseteq S
<1> SUFFICES ASSUME Nat \ S # {} PROVE FALSE
  OBVIOUS
<1>1. PICK x \in Nat \ S : \A y \in Nat \ S : ~ (y < x)
  BY NoDescent
<1>2. x - 1 \in Nat /\ x - 1 < x
  BY <1>1
<1>3. x - 1 \in S
  BY <1>1, <1>2
<1> QED
  BY <1>1, <1>2, <1>3

-----------------------------------------------------------------------------
(* _append_unique. *)

\* One turn of its loop.
AppendNew(known, p) == IF Contains(known, p) THEN known ELSE Append(known, p)

\* g is the fold of the loop over the sets of indices of `in`.
Folds(g, known, in, n) ==
  g = [s \in SUBSET (1..n) |-> IF s = {} THEN known ELSE AppendNew(g[s \ {Max(s)}], in[Max(s)])]

LEMMA LargestIsNew ==
  ASSUME NEW n \in Nat, NEW s \in SUBSET (1..(n + 1)), n + 1 \in s
  PROVE  Max(s) = n + 1
<1>1. \A y \in s : n + 1 >= y
  OBVIOUS
<1>2. \E x \in s : \A y \in s : x >= y
  BY <1>1
<1>3. Max(s) \in s /\ \A y \in s : Max(s) >= y
  BY <1>2 DEF Max
<1>4. Max(s) >= n + 1 /\ Max(s) \in 1..(n + 1)
  BY <1>3
<1> QED
  BY <1>4

\* There is such a fold over every prefix.
LEMMA FoldExists ==
  ASSUME NEW known, NEW in
  PROVE  \A n \in Nat : \E g : Folds(g, known, in, n)
<1> DEFINE S == {n \in Nat : \E g : Folds(g, known, in, n)}
<1>1. 0 \in S
  <2> DEFINE g == [s \in SUBSET (1..0) |-> known]
  <2>1. \A s \in SUBSET (1..0) : s = {}
    OBVIOUS
  <2> DEFINE E(s) == IF s = {} THEN known ELSE AppendNew(g[s \ {Max(s)}], in[Max(s)])
  <2>2. g = [s \in SUBSET (1..0) |-> E(s)]
    <3>1. \A s \in SUBSET (1..0) : E(s) = known
      BY <2>1
    <3> HIDE DEF E
    <3> QED
      BY <3>1
  <2>3. Folds(g, known, in, 0)
    BY <2>2 DEF Folds
  <2> QED
    BY <2>3
<1>2. ASSUME NEW n \in Nat, n \in S PROVE n + 1 \in S
  <2>1. PICK g : Folds(g, known, in, n)
    BY <1>2
  <2> DEFINE h == [s \in SUBSET (1..(n + 1)) |->
                     IF n + 1 \in s THEN AppendNew(g[s \ {n + 1}], in[n + 1]) ELSE g[s]]
  <2>2. ASSUME NEW s \in SUBSET (1..(n + 1))
        PROVE  h[s] = IF s = {} THEN known ELSE AppendNew(h[s \ {Max(s)}], in[Max(s)])
    <3>1. CASE n + 1 \in s
      <4>1. Max(s) = n + 1
        BY <3>1, LargestIsNew
      <4>2. s \ {n + 1} \in SUBSET (1..(n + 1)) /\ n + 1 \notin s \ {n + 1}
        OBVIOUS
      <4>3. h[s \ {n + 1}] = g[s \ {n + 1}]
        BY <4>2
      <4> QED
        BY <3>1, <4>1, <4>3
    <3>2. CASE n + 1 \notin s
      <4>1. s \in SUBSET (1..n) /\ s \ {Max(s)} \in SUBSET (1..n)
        <5>1. \A i \in 1..(n + 1) : i # n + 1 => i \in 1..n
          OBVIOUS
        <5>2. s \in SUBSET (1..n)
          BY <3>2, <5>1
        <5> QED
          BY <5>2
      <4>2. h[s] = g[s] /\ h[s \ {Max(s)}] = g[s \ {Max(s)}]
        BY <3>2, <4>1
      <4>3. g[s] = IF s = {} THEN known ELSE AppendNew(g[s \ {Max(s)}], in[Max(s)])
        BY <2>1, <4>1 DEF Folds
      <4> QED
        BY <4>2, <4>3
    <3> QED
      BY <3>1, <3>2
  <2> DEFINE E(s) == IF s = {} THEN known ELSE AppendNew(h[s \ {Max(s)}], in[Max(s)])
  <2>3. h = [s \in SUBSET (1..(n + 1)) |-> E(s)]
    <3>1. h = [s \in SUBSET (1..(n + 1)) |-> h[s]]
      OBVIOUS
    <3>2. \A s \in SUBSET (1..(n + 1)) : h[s] = E(s)
      BY <2>2
    <3> HIDE DEF h, E
    <3> QED
      BY <3>1, <3>2
  <2>4. Folds(h, known, in, n + 1)
    <3> HIDE DEF h
    <3> QED
      BY <2>3 DEF Folds
  <2> QED
    BY <2>4
<1> HIDE DEF S
<1>3. Nat \subseteq S
  BY <1>1, <1>2, SetInduction
<1> QED
  BY <1>3 DEF S

LEMMA AppendUniqueFolds ==
  ASSUME NEW known, NEW T, NEW in \in Seq(T)
  PROVE  \E g : Folds(g, known, in, Len(in)) /\ AppendUnique(known, in) = g[1..Len(in)]
<1>0. DOMAIN in = 1..Len(in) /\ Len(in) \in Nat
  OBVIOUS
<1> DEFINE Fold(g) == g = [s \in SUBSET (DOMAIN in) |->
                            IF s = {} THEN known ELSE AppendNew(g[s \ {Max(s)}], in[Max(s)])]
           it == CHOOSE g : Fold(g)
<1>1. \E g : Fold(g)
  <2>1. PICK g : Folds(g, known, in, Len(in))
    BY <1>0, FoldExists
  <2>2. Fold(g)
    BY <1>0, <2>1 DEF Folds
  <2> QED
    BY <2>2
<1>2. Fold(it)
  BY <1>1, Zenon
<1>3. AppendUnique(known, in) = it[DOMAIN in]
  BY Zenon DEF AppendUnique, FoldLeft, MapThenFoldSet, AppendNew
<1>4. Folds(it, known, in, Len(in))
  BY <1>0, <1>2 DEF Folds
<1> QED
  BY <1>0, <1>3, <1>4

\* Each package once.
Distinct(s) == \A i, j \in 1..Len(s) : s[i] = s[j] => i = j

LEMMA AppendNewAdds ==
  ASSUME NEW T, NEW known \in Seq(T), NEW p \in T, Distinct(known)
  PROVE  LET longer == AppendNew(known, p) IN
         longer \in Seq(T) /\ Distinct(longer) /\ ToSet(longer) = ToSet(known) \cup {p}
<1>1. CASE Contains(known, p)
  <2>1. p \in ToSet(known)
    BY <1>1 DEF Contains, ToSet
  <2> QED
    BY <1>1, <2>1 DEF AppendNew
<1>2. CASE ~Contains(known, p)
  <2> DEFINE longer == Append(known, p)
  <2>1. /\ AppendNew(known, p) = longer /\ longer \in Seq(T) /\ Len(longer) = Len(known) + 1
        /\ longer[Len(known) + 1] = p /\ \A i \in 1..Len(known) : longer[i] = known[i] /\ known[i] # p
    BY <1>2 DEF AppendNew, Contains
  <2>2. DOMAIN longer = 1..(Len(known) + 1) /\ DOMAIN known = 1..Len(known) /\ Len(known) \in Nat
    BY <2>1
  <2>3. Distinct(longer)
    <3> HIDE DEF longer
    <3> QED
      BY <2>1, <2>2 DEF Distinct
  <2>4. ToSet(longer) = ToSet(known) \cup {p}
    <3> HIDE DEF longer
    <3>1. \A i \in 1..(Len(known) + 1) : i \in 1..Len(known) \/ i = Len(known) + 1
      BY <2>2
    <3> QED
      BY <2>1, <2>2, <3>1 DEF ToSet
  <2> QED
    BY <2>1, <2>3, <2>4
<1> QED
  BY <1>1, <1>2

\* What _append_unique does to two lists of any length.
LEMMA AppendUniqueAdds ==
  ASSUME NEW T, NEW known \in Seq(T), NEW in \in Seq(T), Distinct(known)
  PROVE  LET all == AppendUnique(known, in) IN
         all \in Seq(T) /\ Distinct(all) /\ ToSet(all) = ToSet(known) \cup ToSet(in)
<1>0. DOMAIN in = 1..Len(in) /\ Len(in) \in Nat
  OBVIOUS
<1>1. PICK g : Folds(g, known, in, Len(in)) /\ AppendUnique(known, in) = g[1..Len(in)]
  BY AppendUniqueFolds
<1> DEFINE Good(n) == /\ g[1..n] \in Seq(T) /\ Distinct(g[1..n])
                      /\ ToSet(g[1..n]) = ToSet(known) \cup {in[i] : i \in 1..n}
           S == {n \in Nat : n <= Len(in) => Good(n)}
<1>2. 0 \in S
  <2>1. 1..0 = {} /\ {} \in SUBSET (1..Len(in))
    OBVIOUS
  <2>2. g[1..0] = known
    BY <1>1, <2>1 DEF Folds
  <2>3. {in[i] : i \in 1..0} = {}
    BY <2>1
  <2> QED
    BY <2>2, <2>3
<1>3. ASSUME NEW n \in Nat, n \in S PROVE n + 1 \in S
  <2> SUFFICES ASSUME n + 1 <= Len(in) PROVE Good(n + 1)
    OBVIOUS
  <2>1. Good(n)
    BY <1>0, <1>3
  <2>2. /\ 1..(n + 1) \in SUBSET (1..Len(in)) /\ 1..(n + 1) # {} /\ n + 1 \in 1..(n + 1)
        /\ (1..(n + 1)) \ {n + 1} = 1..n /\ n + 1 \in DOMAIN in
    <3>1. n + 1 \in 1..(n + 1) /\ n + 1 \in 1..Len(in) /\ \A i \in 1..(n + 1) : i \in 1..Len(in)
      BY <1>0
    <3>2. (1..(n + 1)) \ {n + 1} = 1..n
      OBVIOUS
    <3> QED
      BY <1>0, <3>1, <3>2
  <2>3. Max(1..(n + 1)) = n + 1
    BY <2>2, LargestIsNew
  <2>4. g[1..(n + 1)] = AppendNew(g[1..n], in[n + 1])
    BY <1>1, <2>2, <2>3 DEF Folds
  <2>5. in[n + 1] \in T
    BY <2>2
  <2>6. {in[i] : i \in 1..(n + 1)} = {in[i] : i \in 1..n} \cup {in[n + 1]}
    BY <2>2
  <2>7. LET longer == AppendNew(g[1..n], in[n + 1]) IN
        longer \in Seq(T) /\ Distinct(longer) /\ ToSet(longer) = ToSet(g[1..n]) \cup {in[n + 1]}
    <3>1. g[1..n] \in Seq(T) /\ Distinct(g[1..n])
      BY <2>1
    <3> QED
      <4> DEFINE a == g[1..n]
                 x == in[n + 1]
      <4>1. a \in Seq(T) /\ Distinct(a) /\ x \in T
        BY <2>5, <3>1
      <4> HIDE DEF a, x
      <4>2. LET longer == AppendNew(a, x) IN
            longer \in Seq(T) /\ Distinct(longer) /\ ToSet(longer) = ToSet(a) \cup {x}
        BY <4>1, AppendNewAdds
      <4> QED
        BY <4>2 DEF a, x
  <2>8. ToSet(g[1..(n + 1)]) = ToSet(known) \cup {in[i] : i \in 1..(n + 1)}
    BY <2>1, <2>4, <2>6, <2>7, Zenon
  <2> QED
    BY <2>4, <2>7, <2>8
<1>4. Len(in) \in S
  <2> HIDE DEF S
  <2>1. Nat \subseteq S
    BY <1>2, <1>3, SetInduction
  <2> QED
    BY <1>0, <2>1
<1>5. {in[i] : i \in 1..Len(in)} = ToSet(in)
  BY <1>0 DEF ToSet
<1> QED
  BY <1>0, <1>1, <1>4, <1>5

LEMMA DistinctCount ==
  ASSUME NEW T, NEW s \in Seq(T), Distinct(s) PROVE Len(s) = Cardinality(ToSet(s))
<1>1. DOMAIN s = 1..Len(s) /\ Len(s) \in Nat
  OBVIOUS
<1>2. s \in [1..Len(s) -> ToSet(s)] /\ \A x \in ToSet(s) : \E i \in 1..Len(s) : s[i] = x
  BY <1>1 DEF ToSet
<1>3. s \in Bijection(1..Len(s), ToSet(s))
  BY <1>2 DEF Distinct, Bijection, Injection, Surjection, IsInjective
<1>4. ExistsBijection(1..Len(s), ToSet(s))
  BY <1>3 DEF ExistsBijection
<1> QED
  BY <1>1, <1>4, FS_CountingElements

-----------------------------------------------------------------------------
(* SAT's answers. *)

LEMMA SubmitAnswers ==
  ASSUME NEW c \in Criteria, NEW s
  PROVE  LET result == FakeSubmit(s, c) IN
         /\ result.id \in RequestIds /\ result.action \in SatActions
         /\ result.action = "accepted" => result.id = IdOf(c)
         /\ result.action # "accepted" => result.id \in SharedIds
<1>1. /\ RequestResult(<<"refused", "request_duplicate">>, "5005").action = "duplicate"
      /\ RequestResult(<<"refused", "unauthorized">>, "5001").action = "unauthorized"
      /\ RequestResult(<<"refused", "internal_retryable_error">>, "404").action = "retry"
      /\ RequestResult(IdOf(c), "5000").action = "accepted"
  BY DEF RequestResult, ClassifySatOutcome, ClassifyCode, NoState, UnauthorizedCodes,
         EmptyOrInvalidCodes, DuplicateCodes, ExhaustedCodes
<1>2. \A id, code : RequestResult(id, code).id = id
  BY DEF RequestResult
<1>3. /\ \A x \in {"request_duplicate", "unauthorized", "internal_retryable_error"} : <<"refused", x>> \in SharedIds
      /\ IdOf(c) \in RequestIds
      /\ {"accepted", "duplicate", "unauthorized", "retry"} \subseteq SatActions
  BY DEF SharedIds, RequestIds, SatActions
<1>4. \/ FakeSubmit(s, c) = RequestResult(<<"refused", s>>, "5005") /\ s = "request_duplicate"
      \/ FakeSubmit(s, c) = RequestResult(<<"refused", s>>, "5001") /\ s = "unauthorized"
      \/ FakeSubmit(s, c) = RequestResult(<<"refused", s>>, "404") /\ s = "internal_retryable_error"
      \/ FakeSubmit(s, c) = RequestResult(IdOf(c), "5000")
  BY DEF FakeSubmit
<1> QED
  BY <1>1, <1>2, <1>3, <1>4 DEF RequestIds

LEMMA VerifyAnswers ==
  ASSUME NEW v \in Verifications
  PROVE  v.packages \in Seq(Packages) /\ v.action \in SatActions /\ v.state \in RequestStates
<1>1. \A ps \in PackageLists : ps \in Seq(Packages)
  <2> TAKE ps \in PackageLists
  <2>1. ps = <<>> \/ (\E p \in Packages : ps = <<p>>) \/ \E p, q \in Packages : ps = <<p, q>>
    BY DEF PackageLists
  <2>2. CASE ps = <<>>
    BY <2>2
  <2>3. ASSUME NEW p \in Packages, ps = <<p>> PROVE ps \in Seq(Packages)
    BY <2>3
  <2>4. ASSUME NEW p \in Packages, NEW q \in Packages, ps = <<p, q>> PROVE ps \in Seq(Packages)
    BY <2>4
  <2> QED
    BY <2>1, <2>2, <2>3, <2>4
<1>2. ASSUME NEW st \in RequestStates, NEW code, NEW ps \in Seq(Packages),
             v = Answer(st, code, ps)
      PROVE  v.packages \in Seq(Packages) /\ v.action \in SatActions /\ v.state \in RequestStates
  <2>1. v.packages = ps /\ v.state = st /\ v.action = ClassifyState(st)
    BY <1>2 DEF Answer, VerificationResult, ClassifySatOutcome, RequestStates, NoState
  <2>2. ClassifyState(st) \in SatActions
    BY DEF ClassifyState, RequestStates, SatActions
  <2> QED
    BY <2>1, <2>2
<1>3. {"accepted", "rejected", "expired", "in_process", "error", "finished"} \subseteq RequestStates
  BY DEF RequestStates
<1>4. \/ \E s \in Scenarios, ps \in PackageLists : v = FakeVerify(s, ps)
      \/ \E st \in {"accepted", "rejected", "expired"}, ps \in PackageLists : v = Answer(st, "5000", ps)
  BY DEF Verifications
<1>5. CASE \E st \in {"accepted", "rejected", "expired"}, ps \in PackageLists : v = Answer(st, "5000", ps)
  BY <1>1, <1>2, <1>3, <1>5
<1>6. ASSUME NEW s, NEW ps \in PackageLists, v = FakeVerify(s, ps)
      PROVE  v.packages \in Seq(Packages) /\ v.action \in SatActions /\ v.state \in RequestStates
  <2>1. \/ v = Answer("in_process", "5000", <<>>)
        \/ v = Answer("error", "404", <<>>)
        \/ v = Answer("finished", "5000", ps)
    BY <1>6 DEF FakeVerify
  <2>2. <<>> \in Seq(Packages)
    OBVIOUS
  <2> QED
    BY <1>1, <1>2, <1>3, <2>1, <2>2
<1> QED
  BY <1>4, <1>5, <1>6

-----------------------------------------------------------------------------
(* The registry. *)

Registered(c) == byCriteria[c] # NoRow
AcceptedRow(c) == Registered(c) /\ byCriteria[c].submission = "accepted"

RegistryTypes ==
  /\ byCriteria \in [Criteria -> Row \cup {NoRow}]
  /\ byRequestId \in [RequestIds -> Row \cup {NoRow}]
  /\ reported \in [RequestIds -> SUBSET Packages]

\* Seen from the criteria ...
Filed(c) == Registered(c) =>
  /\ byCriteria[c].criteria = c
  /\ byCriteria[c].submission = "accepted" =>
       byCriteria[c].id = IdOf(c) /\ byRequestId[IdOf(c)] = byCriteria[c]

\* ... and from the id: a row found by the id of a refusal never hides an accepted one.
Found(i) == byRequestId[i] # NoRow =>
  LET row == byRequestId[i] IN
  /\ row.id = i
  /\ Registered(row.criteria)
  /\ IF row.submission = "accepted" THEN i = IdOf(row.criteria) /\ byCriteria[row.criteria] = row
                                    ELSE i \in SharedIds /\ ~AcceptedRow(row.criteria)

IndexInv == RegistryTypes /\ (\A c \in Criteria : Filed(c)) /\ (\A i \in RequestIds : Found(i))

\* Ids of accepted requests are their own.
LEMMA OwnIds ==
  /\ \A c \in Criteria : IdOf(c) \in RequestIds /\ IdOf(c) \notin SharedIds
  /\ \A c, d \in Criteria : IdOf(c) = IdOf(d) => c = d
BY DEF IdOf, RequestIds, SharedIds

\* _store, of a row that belongs where it is put.
LEMMA StoreKeepsIndexes ==
  ASSUME IndexInv, NEW row \in Row, Store(row), reported' \in [RequestIds -> SUBSET Packages],
         row.submission = "accepted" =>
           row.id = IdOf(row.criteria) /\ (Registered(row.criteria) => AcceptedRow(row.criteria)),
         row.submission # "accepted" => row.id \in SharedIds /\ ~AcceptedRow(row.criteria)
  PROVE  IndexInv'
<1> DEFINE c == row.criteria
           i == row.id
<1>0. /\ c \in Criteria /\ i \in RequestIds /\ row # NoRow /\ RegistryTypes
      /\ \A d \in Criteria : Filed(d)
      /\ \A j \in RequestIds : Found(j)
  BY DEF IndexInv, Row
<1>1. /\ byCriteria'[c] = row /\ \A d \in Criteria \ {c} : byCriteria'[d] = byCriteria[d]
      /\ byRequestId'[i] = row /\ \A j \in RequestIds \ {i} : byRequestId'[j] = byRequestId[j]
  BY <1>0 DEF Store, RegistryTypes
<1>2. RegistryTypes'
  BY <1>0 DEF Store, RegistryTypes
<1> HIDE DEF c, i
<1>3. ASSUME NEW d \in Criteria PROVE Filed(d)'
  <2>1. CASE d = c
    BY <1>1, <2>1 DEF Filed, Registered, c, i
  <2>2. CASE d # c
    <3>1. Filed(d) /\ byCriteria'[d] = byCriteria[d]
      BY <1>0, <1>1, <2>2
    <3>2. AcceptedRow(d) => IdOf(d) # i
      BY <1>0, <2>2, OwnIds DEF c, i
    <3>3. AcceptedRow(d) => byRequestId'[IdOf(d)] = byRequestId[IdOf(d)]
      BY <1>1, <3>2, OwnIds
    <3> QED
      BY <3>1, <3>3 DEF Filed, Registered, AcceptedRow
  <2> QED
    BY <2>1, <2>2
<1>4. ASSUME NEW j \in RequestIds PROVE Found(j)'
  <2>1. CASE j = i
    <3>1. Registered(c)' /\ (row.submission # "accepted" => ~AcceptedRow(c)')
      BY <1>0, <1>1 DEF Registered, AcceptedRow
    <3> QED
      BY <1>1, <2>1, <3>1 DEF Found, c, i
  <2>2. CASE j # i /\ byRequestId[j] # NoRow
    <3> DEFINE old == byRequestId[j]
    <3>1. Found(j) /\ byRequestId'[j] = old /\ old \in Row /\ old.criteria \in Criteria
      BY <1>0, <1>1, <2>2 DEF RegistryTypes, Row
    <3> HIDE DEF old
    <3>2. CASE old.criteria # c
      <4>1. byCriteria'[old.criteria] = byCriteria[old.criteria]
        BY <1>1, <3>1, <3>2
      <4> QED
        BY <2>2, <3>1, <4>1 DEF Found, Registered, AcceptedRow, old
    <3>3. CASE old.criteria = c /\ row.submission = "accepted"
      <4>1. Registered(c) /\ AcceptedRow(c) /\ i = IdOf(c)
        BY <2>2, <3>1, <3>3 DEF Found, c, i, old
      <4>2. j = i
        BY <2>2, <3>1, <3>3, <4>1 DEF Found, old
      <4> QED
        BY <2>2, <4>2
    <3>4. CASE old.criteria = c /\ row.submission # "accepted"
      <4>1. old.submission # "accepted" /\ j \in SharedIds /\ old.id = j
        BY <2>2, <3>1, <3>4 DEF Found, AcceptedRow, Registered, c, old
      <4>2. Registered(c)' /\ ~AcceptedRow(c)'
        BY <1>0, <1>1, <3>4 DEF Registered, AcceptedRow
      <4> QED
        BY <3>1, <3>4, <4>1, <4>2 DEF Found
    <3> QED
      BY <3>2, <3>3, <3>4
  <2>3. CASE j # i /\ byRequestId[j] = NoRow
    BY <1>1, <2>3 DEF Found
  <2> QED
    BY <2>1, <2>2, <2>3
<1> QED
  BY <1>2, <1>3, <1>4 DEF IndexInv

\* The row of a submission, accepted or refused.
LEMMA SubmittedRow ==
  ASSUME NEW c \in Criteria, NEW s, RegistryTypes, SubmitOnce(c, s)
  PROVE  \E row \in Row :
           /\ Store(row) /\ row.criteria = c /\ row.packages = <<>> /\ ~Registered(c) /\ reported' = reported
           /\ row.submission = "accepted" => row.id = IdOf(c)
           /\ row.submission # "accepted" => row.id \in SharedIds
<1> DEFINE result == FakeSubmit(s, c)
           row == [criteria |-> c, id |-> result.id, submission |-> result.action,
                   state |-> NoState, action |-> result.action, packages |-> <<>>]
<1>1. /\ result.id \in RequestIds /\ result.action \in SatActions
      /\ result.action = "accepted" => result.id = IdOf(c)
      /\ result.action # "accepted" => result.id \in SharedIds
  BY SubmitAnswers
<1>2. Store(row) /\ ~Registered(c) /\ reported' = reported
  BY DEF SubmitOnce, Registered
<1>3. <<>> \in Seq(Packages)
  OBVIOUS
<1> HIDE DEF result
<1>4. row \in Row /\ row.criteria = c /\ row.packages = <<>> /\ row.submission = result.action
      /\ row.id = result.id
  BY <1>1, <1>3 DEF Row
<1> HIDE DEF row
<1> QED
  BY <1>1, <1>2, <1>4

\* The row of an answer to a verification (record_verification).
LEMMA RecordedRow ==
  ASSUME NEW row \in Row, Distinct(row.packages), NEW v \in Verifications
  PROVE  LET new == Recorded(row, v) IN
         /\ new \in Row /\ new.criteria = row.criteria /\ new.id = row.id
         /\ new.submission = row.submission /\ Distinct(new.packages)
         /\ ToSet(new.packages) = IF v.action = "finished"
                                  THEN ToSet(row.packages) \cup ToSet(v.packages) ELSE ToSet(row.packages)
<1> DEFINE ps == IF v.action = "finished" THEN AppendUnique(row.packages, v.packages) ELSE row.packages
<1>1. v.packages \in Seq(Packages) /\ v.action \in SatActions /\ v.state \in RequestStates
  BY VerifyAnswers
<1>2. row.packages \in Seq(Packages)
  BY DEF Row
<1>3. /\ ps \in Seq(Packages) /\ Distinct(ps)
      /\ ToSet(ps) = IF v.action = "finished"
                     THEN ToSet(row.packages) \cup ToSet(v.packages) ELSE ToSet(row.packages)
  <2>1. CASE v.action = "finished"
    BY <1>1, <1>2, <2>1, AppendUniqueAdds
  <2>2. CASE v.action # "finished"
    BY <1>2, <2>2
  <2> QED
    BY <2>1, <2>2
<1>4. Recorded(row, v) = [row EXCEPT !.state = v.state, !.action = v.action, !.packages = ps]
  BY DEF Recorded
<1> HIDE DEF ps
<1> QED
  BY <1>1, <1>3, <1>4 DEF Row

\* Every list of packages names each once, and accepted requests hold what was reported.
Kept ==
  /\ \A c \in Criteria : Registered(c) => Distinct(byCriteria[c].packages)
  /\ \A i \in RequestIds : byRequestId[i] # NoRow => Distinct(byRequestId[i].packages)
  /\ \A i \in RequestIds : byRequestId[i] = NoRow => reported[i] = {}
  /\ \A c \in Criteria : AcceptedRow(c) => ToSet(byCriteria[c].packages) = reported[IdOf(c)]

RegistryInv == IndexInv /\ Kept

LEMMA SubmitKeeps ==
  ASSUME RegistryInv, NEW c \in Criteria, NEW s, SubmitOnce(c, s)
  PROVE  RegistryInv'
<1>0. IndexInv /\ Kept /\ RegistryTypes
  BY DEF RegistryInv, IndexInv
<1>1. PICK row \in Row :
        /\ Store(row) /\ row.criteria = c /\ row.packages = <<>> /\ ~Registered(c) /\ reported' = reported
        /\ row.submission = "accepted" => row.id = IdOf(c)
        /\ row.submission # "accepted" => row.id \in SharedIds
  BY <1>0, SubmittedRow
<1>2. ~AcceptedRow(c) /\ reported' \in [RequestIds -> SUBSET Packages]
  BY <1>0, <1>1 DEF AcceptedRow, RegistryTypes
<1>3. IndexInv'
  BY <1>0, <1>1, <1>2, StoreKeepsIndexes
<1>4. /\ byCriteria'[c] = row /\ \A d \in Criteria \ {c} : byCriteria'[d] = byCriteria[d]
      /\ byRequestId'[row.id] = row /\ \A j \in RequestIds \ {row.id} : byRequestId'[j] = byRequestId[j]
  BY <1>0, <1>1 DEF Store, RegistryTypes, Row
<1>5. Distinct(<<>>) /\ ToSet(<<>>) = {} /\ row # NoRow
  BY DEF Distinct, ToSet
<1>6. byRequestId[IdOf(c)] = NoRow
  <2>1. Found(IdOf(c)) /\ IdOf(c) \in RequestIds /\ byRequestId[IdOf(c)] \in Row \cup {NoRow}
    BY <1>0, OwnIds DEF IndexInv, RegistryTypes
  <2> QED
    BY <1>1, <2>1, OwnIds DEF Found, Row
<1>7. ASSUME NEW d \in Criteria, AcceptedRow(d)'
      PROVE  ToSet(byCriteria'[d].packages) = reported'[IdOf(d)]
  <2>1. CASE d = c
    BY <1>0, <1>1, <1>4, <1>5, <1>6, <2>1, OwnIds DEF Kept
  <2>2. CASE d # c
    BY <1>0, <1>1, <1>4, <1>7, <2>2 DEF Kept, AcceptedRow, Registered
  <2> QED
    BY <2>1, <2>2
<1>8. Kept'
  <2>1. \A d \in Criteria : Registered(d)' => Distinct(byCriteria'[d].packages)
    BY <1>0, <1>1, <1>4, <1>5 DEF Kept, Registered
  <2>2. \A i \in RequestIds : byRequestId'[i] # NoRow => Distinct(byRequestId'[i].packages)
    BY <1>0, <1>1, <1>4, <1>5 DEF Kept
  <2>3. \A i \in RequestIds : byRequestId'[i] = NoRow => reported'[i] = {}
    BY <1>0, <1>1, <1>4, <1>5 DEF Kept
  <2> QED
    BY <1>7, <2>1, <2>2, <2>3 DEF Kept
<1> QED
  BY <1>3, <1>8 DEF RegistryInv

LEMMA PollKeeps ==
  ASSUME RegistryInv, NEW i \in RequestIds, NEW v \in Verifications, PollOnce(i, v)
  PROVE  RegistryInv'
<1> DEFINE row == byRequestId[i]
           new == Recorded(row, v)
           c == row.criteria
<1>0. /\ IndexInv /\ Kept /\ RegistryTypes /\ Found(i) /\ row \in Row /\ c \in Criteria
      /\ Distinct(row.packages) /\ row # NoRow
  BY DEF RegistryInv, IndexInv, PollOnce, RegistryTypes, Row, Kept
<1>1. /\ new \in Row /\ new.criteria = c /\ new.id = i
      /\ new.submission = row.submission /\ Distinct(new.packages)
      /\ ToSet(new.packages) = IF v.action = "finished"
                               THEN ToSet(row.packages) \cup ToSet(v.packages) ELSE ToSet(row.packages)
  BY <1>0, RecordedRow DEF Found
<1>2. Store(new) /\ reported' = IF v.action = "finished"
                                THEN [reported EXCEPT ![i] = @ \cup ToSet(v.packages)] ELSE reported
  BY DEF PollOnce
<1>3. ToSet(v.packages) \in SUBSET Packages
  BY VerifyAnswers DEF ToSet
<1>4. reported' \in [RequestIds -> SUBSET Packages]
  BY <1>0, <1>2, <1>3 DEF RegistryTypes
<1>5. /\ reported'[i] = IF v.action = "finished" THEN reported[i] \cup ToSet(v.packages) ELSE reported[i]
      /\ \A j \in RequestIds \ {i} : reported'[j] = reported[j]
  BY <1>0, <1>2 DEF RegistryTypes
<1> HIDE DEF new
<1>6. /\ row.submission = "accepted" => i = IdOf(c) /\ AcceptedRow(c) /\ byCriteria[c] = row
      /\ row.submission # "accepted" => i \in SharedIds /\ ~AcceptedRow(c)
  BY <1>0 DEF Found, AcceptedRow
<1> HIDE DEF row, c
<1>7. IndexInv'
  BY <1>0, <1>1, <1>2, <1>4, <1>6, StoreKeepsIndexes
<1>8. /\ byCriteria'[c] = new /\ \A d \in Criteria \ {c} : byCriteria'[d] = byCriteria[d]
      /\ byRequestId'[i] = new /\ \A j \in RequestIds \ {i} : byRequestId'[j] = byRequestId[j]
  BY <1>0, <1>1, <1>2 DEF Store, RegistryTypes
<1>9. ASSUME NEW d \in Criteria, AcceptedRow(d)'
      PROVE  ToSet(byCriteria'[d].packages) = reported'[IdOf(d)]
  <2>1. CASE d = c
    <3>1. row.submission = "accepted"
      BY <1>1, <1>8, <1>9, <2>1 DEF AcceptedRow
    <3>2. ToSet(row.packages) = reported[i] /\ i = IdOf(d)
      BY <1>0, <1>6, <2>1, <3>1 DEF Kept
    <3> QED
      BY <1>1, <1>5, <1>8, <2>1, <3>2
  <2>2. CASE d # c
    <3>1. AcceptedRow(d) /\ byCriteria'[d] = byCriteria[d]
      BY <1>8, <1>9, <2>2 DEF AcceptedRow, Registered
    <3>2. IdOf(d) # i /\ IdOf(d) \in RequestIds
      BY <1>0, <1>6, <2>2, OwnIds
    <3> QED
      BY <1>0, <1>5, <3>1, <3>2 DEF Kept
  <2> QED
    BY <2>1, <2>2
<1>10. Kept'
  <2>1. \A d \in Criteria : Registered(d)' => Distinct(byCriteria'[d].packages)
    BY <1>0, <1>1, <1>8 DEF Kept, Registered
  <2>2. \A j \in RequestIds : byRequestId'[j] # NoRow => Distinct(byRequestId'[j].packages)
    BY <1>0, <1>1, <1>8 DEF Kept
  <2>3. \A j \in RequestIds : byRequestId'[j] = NoRow => reported'[j] = {}
    BY <1>0, <1>1, <1>5, <1>8 DEF Kept
  <2> QED
    BY <1>9, <2>1, <2>2, <2>3 DEF Kept
<1> QED
  BY <1>7, <1>10 DEF RegistryInv

LEMMA RegistryInit == OrchInit => RegistryInv
<1> SUFFICES ASSUME OrchInit PROVE RegistryInv
  OBVIOUS
<1>1. RegistryTypes /\ \A c \in Criteria : byCriteria[c] = NoRow
  BY DEF OrchInit, RegistryTypes
<1>2. \A i \in RequestIds : byRequestId[i] = NoRow /\ reported[i] = {}
  BY DEF OrchInit
<1> QED
  BY <1>1, <1>2 DEF RegistryInv, IndexInv, Kept, Filed, Found, Registered, AcceptedRow

\* Nothing but submit_once and poll_once touches the registry.
LEMMA RegistryTouched ==
  ASSUME [OrchNext]_orchVars
  PROVE  \/ UNCHANGED <<byCriteria, byRequestId, reported>>
         \/ \E c \in Criteria, s \in Scenarios : SubmitOnce(c, s)
         \/ \E i \in RequestIds, v \in Verifications : PollOnce(i, v)
<1>1. MetadataFirstNext => UNCHANGED registryVars
  BY DEF MetadataFirstNext, Authenticate, Invalidate, Tick, StartRun, RunAuthenticate, RunDone,
         RunSubmit, RunDownload, RunVerify
<1> QED
  BY <1>1 DEF OrchNext, RequestsNext, registryVars, orchVars

LEMMA RegistryStep == RegistryInv /\ [OrchNext]_orchVars => RegistryInv'
<1> SUFFICES ASSUME RegistryInv, [OrchNext]_orchVars PROVE RegistryInv'
  OBVIOUS
<1>1. CASE UNCHANGED <<byCriteria, byRequestId, reported>>
  BY <1>1 DEF RegistryInv, IndexInv, RegistryTypes, Kept, Filed, Found, Registered, AcceptedRow
<1> QED
  BY <1>1, RegistryTouched, SubmitKeeps, PollKeeps

LEMMA RegistryAlways == OrchSpec => []RegistryInv
BY RegistryInit, RegistryStep, PTL DEF OrchSpec

\* IndexesAgree for any number of criteria and any answers: _store keeps the registry's two
\* indexes together for every request SAT accepted, although refusals of different criteria
\* share their id and overwrite each other.
THEOREM RegistryIndexesAgree == OrchSpec => []IndexesAgree
<1>1. RegistryInv => IndexesAgree
  BY DEF RegistryInv, IndexInv, IndexesAgree, Filed, Registered
<1> QED
  BY <1>1, RegistryAlways, PTL

\* PackagesAreKept, whatever the order of SAT's answers and the order of packages in them:
\* record_verification and _append_unique lose, double and invent no package id.
THEOREM PackageIdsAreKept == OrchSpec => []PackagesAreKept
<1>1. RegistryInv => PackagesAreKept
  <2> SUFFICES ASSUME RegistryInv, NEW c \in Criteria, AcceptedRow(c)
               PROVE  LET row == byCriteria[c]
                      IN  /\ ToSet(row.packages) = reported[row.id]
                          /\ Len(row.packages) = Cardinality(reported[row.id])
    BY DEF PackagesAreKept, AcceptedRow, Registered
  <2>1. byCriteria[c] \in Row /\ byCriteria[c].packages \in Seq(Packages) /\ Registered(c)
    BY DEF RegistryInv, IndexInv, RegistryTypes, AcceptedRow, Registered, Row
  <2>2. /\ byCriteria[c].id = IdOf(c) /\ Distinct(byCriteria[c].packages)
        /\ ToSet(byCriteria[c].packages) = reported[IdOf(c)]
    BY <2>1 DEF RegistryInv, IndexInv, Kept, Filed, AcceptedRow
  <2> QED
    BY <2>1, <2>2, DistinctCount
<1> QED
  BY <1>1, RegistryAlways, PTL

-----------------------------------------------------------------------------
(* The session cache. *)

Sessions == [created : Nat, expires : Int, exists : BOOLEAN]

SessionInv ==
  /\ clock \in Nat
  /\ session \in Sessions
  /\ handed \in [session : Sessions, at : Nat, reused : BOOLEAN]
  /\ handed.reused => \/ handed.session.expires = NoExpiry
                      \/ handed.session.expires > handed.at + RefreshMargin

LEMMA SessionHandedOut ==
  ASSUME SessionInv, clock' = clock, ReuseSession \/ \E l \in Lifetimes \cup {NoExpiry} : NewSession(l)
  PROVE  SessionInv'
<1>1. CASE ReuseSession
  <2>1. session \in Sessions /\ session.expires \in Int
    BY DEF SessionInv, Sessions
  <2>2. session.expires = NoExpiry \/ session.expires > clock + RefreshMargin
    BY <1>1, <2>1 DEF ReuseSession, Reusable, NeedsRefresh, SessionInv
  <2>3. handed' = [session |-> session, at |-> clock, reused |-> TRUE] /\ session' = session
    BY <1>1 DEF ReuseSession, HandOut
  <2> QED
    BY <2>1, <2>2, <2>3 DEF SessionInv
<1>2. ASSUME NEW l \in Lifetimes \cup {NoExpiry}, NewSession(l) PROVE SessionInv'
  <2> DEFINE new == [created |-> clock, exists |-> TRUE,
                     expires |-> IF l = NoExpiry THEN NoExpiry ELSE clock + l]
  <2>1. new \in Sessions
    BY DEF Sessions, SessionInv, NoExpiry
  <2>2. session' = new /\ handed' = [session |-> new, at |-> clock, reused |-> FALSE]
    BY <1>2 DEF NewSession, HandOut
  <2> HIDE DEF new
  <2> QED
    BY <2>1, <2>2 DEF SessionInv
<1> QED
  BY <1>1, <1>2

LEMMA SessionStep == SessionInv /\ [OrchNext]_orchVars => SessionInv'
<1> SUFFICES ASSUME SessionInv, [OrchNext]_orchVars PROVE SessionInv'
  OBVIOUS
<1>1. CASE UNCHANGED <<clock, sessionVars>>
  BY <1>1 DEF SessionInv, sessionVars
<1>2. CASE Tick
  BY <1>2 DEF SessionInv, Tick, sessionVars
<1>3. CASE Invalidate
  BY <1>3 DEF SessionInv, Invalidate, NoSession, Sessions
<1>4. CASE Authenticate \/ RunAuthenticate
  BY <1>1, <1>4, SessionHandedOut DEF Authenticate, RunAuthenticate, sessionVars
<1>5. CASE RequestsNext
  BY <1>1, <1>5 DEF RequestsNext, SubmitOnce, PollOnce
<1>6. CASE \/ \E c \in Criteria, needed \in BOOLEAN : StartRun(c, needed)
           \/ RunDone \/ \E s \in Scenarios : RunSubmit(s) \/ RunDownload(s)
           \/ \E v \in Verifications : RunVerify(v)
  BY <1>1, <1>6 DEF StartRun, RunDone, RunSubmit, RunDownload, RunVerify
<1> QED
  BY <1>1, <1>2, <1>3, <1>4, <1>5, <1>6 DEF OrchNext, MetadataFirstNext, orchVars, sessionVars

LEMMA SessionInit == OrchInit => SessionInv
BY DEF OrchInit, SessionInv, Sessions, NoSession

\* ReusedSessionOutlivesMargin for every refresh margin and every lifetime SAT may give a
\* token: _needs_refresh never lets the cache hand out a session that expires within it.
THEOREM ReusedSessionsOutliveMargin == OrchSpec => []ReusedSessionOutlivesMargin
<1>1. SessionInv => ReusedSessionOutlivesMargin
  BY DEF SessionInv, ReusedSessionOutlivesMargin, Sessions, NoExpiry
<1> QED
  BY <1>1, SessionInit, SessionStep, PTL DEF OrchSpec

-----------------------------------------------------------------------------
(* The metadata-first run. *)

Running(r) == r.step # "idle"
RunType == [step : {"idle", "auth", "submit", "verify", "download"}, criteria : Criteria \cup {NoRow},
            needed : BOOLEAN, id : RequestIds \cup {<<>>}, todo : Seq(Packages),
            promised : SUBSET Packages, downloaded : SUBSET Packages,
            status : {"none", "skipped", "error", "waiting", "retry", "terminal", "downloaded"}]

\* What is promised is downloaded or still to do, and a run only ends as downloaded when
\* nothing is left.
Promises(r) ==
  /\ Running(r) => r.needed /\ r.status = "none" /\ r.criteria \in Criteria
  /\ r.step \in {"auth", "submit", "verify"} => r.promised = {} /\ r.downloaded = {}
  /\ r.step = "download" => r.promised = r.downloaded \cup ToSet(r.todo)
  /\ r.downloaded \subseteq r.promised
  /\ r.downloaded # {} => r.needed
  /\ r.status = "downloaded" => r.downloaded = r.promised

RunInv == run \in RunType /\ Promises(run)

LEMMA IdleRunPromises ==
  ASSUME NEW st \in {"none", "skipped"} PROVE IdleRun(st) \in RunType /\ Promises(IdleRun(st))
<1>1. <<>> \in Seq(Packages)
  OBVIOUS
<1> QED
  BY <1>1 DEF IdleRun, RunType, Promises, Running

LEMMA FinishPromises ==
  ASSUME RunInv, NEW st \in {"error", "waiting", "retry", "terminal", "downloaded"}, Finish(st),
         st = "downloaded" => run.downloaded = run.promised
  PROVE  RunInv'
BY DEF Finish, RunInv, RunType, Promises, Running

LEMMA HeadAndTail ==
  ASSUME NEW T, NEW s \in Seq(T), s # <<>>
  PROVE  Head(s) \in T /\ Tail(s) \in Seq(T) /\ ToSet(s) = {Head(s)} \cup ToSet(Tail(s))
<1>1. /\ Len(s) \in Nat /\ Len(s) > 0 /\ DOMAIN s = 1..Len(s) /\ Head(s) = s[1] /\ Head(s) \in T
      /\ Tail(s) \in Seq(T) /\ Len(Tail(s)) = Len(s) - 1
      /\ \A i \in 1..(Len(s) - 1) : Tail(s)[i] = s[i + 1]
  OBVIOUS
<1> DEFINE h == Head(s)
           t == Tail(s)
           n == Len(s)
<1>2. /\ n \in Nat /\ n > 0 /\ DOMAIN s = 1..n /\ s[1] = h /\ DOMAIN t = 1..(n - 1)
      /\ \A i \in 1..(n - 1) : t[i] = s[i + 1]
  BY <1>1
<1> HIDE DEF h, t, n
<1>3. ASSUME NEW x \in ToSet(s) PROVE x \in {h} \cup ToSet(t)
  <2>1. PICK i \in 1..n : x = s[i]
    BY <1>2, <1>3 DEF ToSet
  <2>2. CASE i = 1
    BY <1>2, <2>1, <2>2
  <2>3. CASE i # 1
    <3>1. i - 1 \in 1..(n - 1) /\ (i - 1) + 1 = i
      BY <1>2, <2>1, <2>3
    <3>2. t[i - 1] = x
      BY <1>2, <2>1, <3>1
    <3> QED
      BY <1>2, <3>1, <3>2 DEF ToSet
  <2> QED
    BY <2>2, <2>3
<1>4. ASSUME NEW x \in {h} \cup ToSet(t) PROVE x \in ToSet(s)
  <2>1. CASE x = h
    <3>1. 1 \in 1..n
      BY <1>2
    <3> QED
      BY <1>2, <2>1, <3>1 DEF ToSet
  <2>2. CASE x \in ToSet(t)
    <3>1. PICK i \in 1..(n - 1) : x = t[i]
      BY <1>2, <2>2 DEF ToSet
    <3>2. i + 1 \in 1..n /\ s[i + 1] = x
      BY <1>2, <3>1
    <3> QED
      BY <1>2, <3>2 DEF ToSet
  <2> QED
    BY <1>4, <2>1, <2>2
<1>5. ToSet(s) = {h} \cup ToSet(t)
  BY <1>3, <1>4
<1> QED
  BY <1>1, <1>5 DEF h, t

LEMMA RunStep == RunInv /\ [OrchNext]_orchVars => RunInv'
<1> SUFFICES ASSUME RunInv, [OrchNext]_orchVars PROVE RunInv'
  OBVIOUS
<1>1. CASE run' = run
  BY <1>1 DEF RunInv
<1>2. ASSUME NEW c \in Criteria, NEW needed \in BOOLEAN, StartRun(c, needed) PROVE RunInv'
  <2> DEFINE r == IdleRun(IF needed THEN "none" ELSE "skipped")
  <2>1. r \in RunType /\ Promises(r)
    BY IdleRunPromises
  <2>2. r.step = "idle" /\ r.promised = {} /\ r.downloaded = {}
        /\ r.status = IF needed THEN "none" ELSE "skipped"
    BY DEF IdleRun
  <2>3. run' = [r EXCEPT !.criteria = c, !.needed = needed, !.step = IF needed THEN "auth" ELSE "idle"]
    BY <1>2 DEF StartRun
  <2> HIDE DEF r
  <2> QED
    BY <2>1, <2>2, <2>3 DEF RunInv, RunType, Promises, Running
<1>3. CASE RunAuthenticate
  <2>1. CASE run' = [run EXCEPT !.step = "submit"]
    BY <1>3, <2>1 DEF RunAuthenticate, RunInv, RunType, Promises, Running
  <2>2. CASE Finish("error")
    BY <2>2, FinishPromises
  <2> QED
    BY <1>3, <2>1, <2>2 DEF RunAuthenticate
<1>4. ASSUME NEW s \in Scenarios, RunSubmit(s) PROVE RunInv'
  <2>1. CASE FakeSubmit(s, run.criteria).action = "accepted"
    <3>1. run' = [run EXCEPT !.step = "verify", !.id = FakeSubmit(s, run.criteria).id] /\ run.step = "submit"
      BY <1>4, <2>1 DEF RunSubmit
    <3>2. run \in RunType /\ Promises(run) /\ run.criteria \in Criteria
      BY <3>1 DEF RunInv, Promises, Running
    <3>3. FakeSubmit(s, run.criteria).id \in RequestIds
      BY <3>2, SubmitAnswers
    <3> QED
      BY <3>1, <3>2, <3>3 DEF RunInv, RunType, Promises, Running
  <2>2. CASE FakeSubmit(s, run.criteria).action # "accepted"
    <3>1. Finish(StatusOf(FakeSubmit(s, run.criteria).action))
      BY <1>4, <2>2 DEF RunSubmit
    <3> QED
      BY <3>1, FinishPromises DEF StatusOf
  <2> QED
    BY <2>1, <2>2
<1>5. ASSUME NEW v \in Verifications, RunVerify(v) PROVE RunInv'
  <2>1. v.packages \in Seq(Packages) /\ ToSet(v.packages) \in SUBSET Packages
    BY VerifyAnswers DEF ToSet
  <2>2. \/ Finish("waiting") \/ Finish(StatusOf(v.action))
        \/ /\ run' = [run EXCEPT !.step = "download", !.todo = v.packages, !.promised = ToSet(v.packages)]
           /\ run.step = "verify"
    BY <1>5 DEF RunVerify
  <2>3. CASE Finish("waiting") \/ Finish(StatusOf(v.action))
    BY <2>3, FinishPromises DEF StatusOf
  <2>4. CASE /\ run' = [run EXCEPT !.step = "download", !.todo = v.packages, !.promised = ToSet(v.packages)]
             /\ run.step = "verify"
    BY <2>1, <2>4 DEF RunInv, RunType, Promises, Running
  <2> QED
    BY <2>2, <2>3, <2>4
<1>6. ASSUME NEW s \in Scenarios, RunDownload(s) PROVE RunInv'
  <2>1. CASE run' = [run EXCEPT !.todo = Tail(@), !.downloaded = @ \cup {Head(run.todo)}]
    <3>1. run.todo \in Seq(Packages) /\ run.todo # <<>> /\ run.step = "download"
          /\ run \in RunType /\ Promises(run)
      BY <1>6 DEF RunDownload, RunInv, RunType
    <3> DEFINE h == Head(run.todo)
               t == Tail(run.todo)
    <3>2. h \in Packages /\ t \in Seq(Packages) /\ ToSet(run.todo) = {h} \cup ToSet(t)
      BY <3>1, HeadAndTail
    <3>3. run' = [run EXCEPT !.todo = t, !.downloaded = @ \cup {h}]
      BY <2>1
    <3> HIDE DEF h, t
    <3> QED
      BY <3>1, <3>2, <3>3 DEF RunInv, RunType, Promises, Running
  <2>2. CASE Finish(StatusOf(FakeDownload(s)))
    BY <2>2, FinishPromises DEF StatusOf
  <2> QED
    BY <1>6, <2>1, <2>2 DEF RunDownload
<1>7. CASE RunDone
  <2>1. run.step = "download" /\ run.todo = <<>> /\ Finish("downloaded")
    BY <1>7 DEF RunDone
  <2>2. ToSet(<<>>) = {}
    BY DEF ToSet
  <2>3. run.downloaded \cup ToSet(run.todo) = run.promised
    BY <2>1 DEF RunInv, Promises
  <2>4. run.downloaded = run.promised
    BY <2>1, <2>2, <2>3
  <2> QED
    BY <2>1, <2>4, FinishPromises
<1>8. CASE Authenticate \/ Invalidate \/ Tick \/ RequestsNext \/ UNCHANGED orchVars
  BY <1>1, <1>8 DEF Authenticate, Invalidate, Tick, RequestsNext, SubmitOnce, PollOnce, runVars, orchVars
<1> QED
  BY <1>2, <1>3, <1>4, <1>5, <1>6, <1>7, <1>8 DEF OrchNext, MetadataFirstNext

\* DownloadedMeansAll for package lists of any length: the run of
\* MetadataFirstSatOrchestrator says "downloaded" only with all packages of SAT's answer.
THEOREM DownloadedIsComplete == OrchSpec => []DownloadedMeansAll
<1>1. OrchInit => RunInv
  BY IdleRunPromises DEF OrchInit, RunInv
<1>2. RunInv => DownloadedMeansAll
  BY DEF RunInv, Promises, DownloadedMeansAll
<1> QED
  BY <1>1, <1>2, RunStep, PTL DEF OrchSpec
=============================================================================
