---------------------------- MODULE ProbeProofs ----------------------------
(***************************************************************************)
(* Proofs about a run of the probe client, for any number of calls that do *)
(* not end as they should: the exit code and the events agree, and what a  *)
(* file cleans up is gone but for what comes late, records before their    *)
(* legal tags; this rests on the order of the tests, established file by   *)
(* file for every choice of flags.  And for a run in which every call ends *)
(* as it should: with the flags of config.js every test passes.  This      *)
(* rests on a way through each file, on which every test finds what the    *)
(* tests before it have left. And no run comes back to a test it has left, *)
(* whatever arrives late.                                                  *)
(***************************************************************************)
EXTENDS ProbeRunner, Integers, TLAPS

Fields == {"do", "res", "needs", "uses", "gives", "body"}

MayCreate(t) == IF t.do \in {"make", "new", "run"} THEN t.res ELSE {}

\* What must not have been deleted before a test: what it creates, and the legal tags
\* of the records it deletes.
Barred(t) == MayCreate(t) \cup {TagOf(r) : r \in Deleted(t) \cap Records}

\* A test that deletes at most D and bars at most B.
Orders(t, D, B) ==
  /\ DOMAIN t = Fields
  /\ t.do = "run" => t.res \subseteq Records
  /\ Deleted(t) \subseteq D /\ Barred(t) \subseteq B

\* The tests of a sequence clean up last: nothing is barred once it is deleted.
Orderly(s, D, B) ==
  /\ \E T : s \in Seq(T)
  /\ \A i \in 1 .. Len(s) : Orders(s[i], D, B)
  /\ \A i, j \in 1 .. Len(s) : i <= j => Deleted(s[i]) \cap Barred(s[j]) = {}

-----------------------------------------------------------------------------
(* tests *)

\* What a test does, and to what.
Does(t, do, res) == DOMAIN t = Fields /\ t.do = do /\ t.res = res

LEMMA TestDoesRead == Does(Test, "read", {})
<1> QED BY DEF Does, Test, Fields

LEMMA OrdersOfKind ==
  ASSUME NEW t, NEW do, NEW res, Does(t, do, res)
  PROVE  /\ do \notin {"make", "new", "run", "delete", "remove"} => Orders(t, {}, {})
         /\ do \in {"make", "new"} \/ (do = "run" /\ res \subseteq Records) => Orders(t, {}, res)
         /\ do \in {"delete", "remove"} => Orders(t, res, {TagOf(r) : r \in res \cap Records})
<1> QED BY DEF Does, Orders, Deleted, Deletions, Barred, MayCreate

LEMMA PlainKinds ==
  \A t, do, res : Does(t, do, res) /\ do \in {"read", "same", "check", "get", "absent", "search", "url", "throws"}
                    => Orders(t, {}, {})
<1> QED BY OrdersOfKind

\* Tests that delete and create nothing.
LEMMA PlainTests ==
  /\ Orders(Test, {}, {}) /\ Orders(Read, {}, {}) /\ Orders(Same, {}, {}) /\ Orders(Throwing, {}, {})
  /\ \A b : Orders(Fetch(b), {}, {}) /\ Orders(Check(b), {}, {})
  /\ \A r : Orders(Get(r), {}, {}) /\ Orders(Absent(r), {}, {})
  /\ \A r, b : Orders(List(r, b), {}, {})
  /\ \A rs : Orders(Search(rs), {}, {})
<1>1. Orders(Test, {}, {}) /\ Orders(Read, {}, {}) /\ Orders(Same, {}, {}) /\ Orders(Throwing, {}, {})
  <2>1. Does(Same, "same", {}) /\ Does(Throwing, "throws", {})
        BY TestDoesRead DEF Same, Throwing, Does, Fields
  <2> QED BY PlainKinds, <2>1, TestDoesRead DEF Read
<1>2. ASSUME NEW b
      PROVE  Orders(Fetch(b), {}, {}) /\ Orders(Check(b), {}, {})
  <2>1. Does(Fetch(b), "read", {}) /\ Does(Check(b), "check", {})
        BY TestDoesRead DEF Does, Fields, Fetch, Check
  <2> QED BY PlainKinds, <2>1
<1>3. ASSUME NEW r
      PROVE  Does(Get(r), "get", {r}) /\ Does(Absent(r), "absent", {r})
      BY TestDoesRead DEF Does, Fields, Get, Absent
<1>4. ASSUME NEW r, NEW b
      PROVE  Orders(List(r, b), {}, {})
  <2>1. Does(Get(r), "get", {r})
        BY <1>3
  <2>2. Does(List(r, b), "get", {r})
        BY <2>1 DEF Does, Fields, List
  <2> QED BY PlainKinds, <2>2
<1>5. ASSUME NEW rs
      PROVE  Orders(Search(rs), {}, {})
  <2>1. Does(Search(rs), "search", rs)
        BY TestDoesRead DEF Does, Fields, Search
  <2> QED BY PlainKinds, <2>1
<1> QED BY PlainKinds, <1>1, <1>2, <1>3, <1>4, <1>5

LEMMA CreatingTests ==
  /\ \A r : Orders(Make(r), {}, {r}) /\ Orders(New(r), {}, {r})
  /\ \A rs, id : rs \subseteq Records => Orders(Run(rs, id), {}, rs)
<1> USE TestDoesRead DEF Does, Fields
<1>1. \A r : Does(Make(r), "make", {r}) /\ Does(New(r), "new", {r})
      BY DEF Make, New
<1>2. \A rs, id : Does(Run(rs, id), "run", rs)
      BY DEF Run
<1> HIDE DEF Does
<1> QED BY <1>1, <1>2, OrdersOfKind

LEMMA DeletingTests ==
  /\ \A r : r \notin Records => Orders(Delete(r), {r}, {}) /\ Orders(Remove(r), {r}, {})
  /\ \A r \in Records : Orders(Delete(r), {r}, {TagOf(r)})
<1> USE TestDoesRead DEF Does, Fields
<1>1. \A r : Does(Delete(r), "delete", {r}) /\ Does(Remove(r), "remove", {r})
      BY DEF Delete, Remove
<1>2. \A r : {TagOf(x) : x \in {r} \cap Records} = IF r \in Records THEN {TagOf(r)} ELSE {}
      OBVIOUS
<1> HIDE DEF Does
<1>3. \A r : LET B == {TagOf(x) : x \in {r} \cap Records} IN Orders(Delete(r), {r}, B) /\ Orders(Remove(r), {r}, B)
      BY <1>1, OrdersOfKind
<1> QED BY <1>2, <1>3

\* The ids a test sends and gets back, and what it needs, change none of it; a test
\* through a URL deletes and creates nothing.
LEMMA ModifiedTests ==
  ASSUME NEW t, NEW D, NEW B, Orders(t, D, B), NEW id
  PROVE  /\ Orders(Through(t, id), D, B) /\ Orders(For(t, id), D, B) /\ Orders(With(t, id), D, B)
         /\ Orders(ByUrl(t, id), {}, {})
<1> DEFINE u == [t EXCEPT !.uses = id]
           v == [t EXCEPT !.gives = id]
           w == [t EXCEPT !.needs = @ \cup {id}]
           x == [t EXCEPT !.do = "url", !.uses = id]
<1>1. /\ DOMAIN t = Fields
      /\ Does(u, t.do, t.res) /\ Does(v, t.do, t.res) /\ Does(w, t.do, t.res) /\ Does(x, "url", t.res)
      BY DEF Orders, Does, Fields
<1> HIDE DEF u, v, w, x
<1>2. \A y : Does(y, t.do, t.res) => Orders(y, D, B)
      BY DEF Does, Orders, Deleted, Barred, MayCreate
<1>3. Orders(u, D, B) /\ Orders(v, D, B) /\ Orders(w, D, B)
      BY <1>1, <1>2
<1>4. Orders(x, {}, {})
  <2>1. Does(x, "url", t.res)
        BY <1>1
  <2> QED BY <2>1, PlainKinds
<1> QED BY <1>3, <1>4 DEF u, v, w, x, Through, For, With, ByUrl

-----------------------------------------------------------------------------
(* sequences of tests *)

LEMMA OrdersMore ==
  ASSUME NEW t, NEW D, NEW B, NEW E, NEW C, Orders(t, D, B), D \subseteq E, B \subseteq C
  PROVE  Orders(t, E, C)
<1> QED BY DEF Orders

LEMMA OrderlyConcat ==
  ASSUME NEW a, NEW b, NEW D1, NEW B1, NEW D2, NEW B2, NEW D, NEW B,
         Orderly(a, D1, B1), Orderly(b, D2, B2), D1 \cap B2 = {},
         D1 \subseteq D, D2 \subseteq D, B1 \subseteq B, B2 \subseteq B
  PROVE  Orderly(a \o b, D, B)
<1> DEFINE s == a \o b
           m == Len(a)
           n == Len(b)
<1>1. /\ \E T : s \in Seq(T)
      /\ Len(s) = m + n /\ m \in Nat /\ n \in Nat
      /\ \A i \in 1 .. m + n : s[i] = IF i <= m THEN a[i] ELSE b[i - m]
  <2>1. PICK T1 : a \in Seq(T1)
        BY DEF Orderly
  <2>2. PICK T2 : b \in Seq(T2)
        BY DEF Orderly
  <2>3. s \in Seq(T1 \cup T2)
        BY <2>1, <2>2
  <2> QED BY <2>1, <2>2, <2>3
<1>2. ASSUME NEW i \in 1 .. m + n
      PROVE  Orders(s[i], D, B)
  <2>1. CASE i <= m
    <3>1. i \in 1 .. m /\ s[i] = a[i]
          BY <1>1, <2>1
    <3>2. Orders(a[i], D1, B1)
          BY <3>1 DEF Orderly
    <3> QED BY <3>1, <3>2 DEF Orders
  <2>2. CASE i > m
    <3>1. i - m \in 1 .. n /\ s[i] = b[i - m]
          BY <1>1, <2>2
    <3>2. Orders(b[i - m], D2, B2)
          BY <3>1 DEF Orderly
    <3> QED BY <3>1, <3>2 DEF Orders
  <2> QED BY <1>1, <2>1, <2>2
<1>3. ASSUME NEW i \in 1 .. m + n, NEW j \in 1 .. m + n, i <= j
      PROVE  Deleted(s[i]) \cap Barred(s[j]) = {}
  <2>1. CASE j <= m
    <3>1. i \in 1 .. m /\ j \in 1 .. m /\ s[i] = a[i] /\ s[j] = a[j]
          BY <1>1, <1>3, <2>1
    <3>2. Deleted(a[i]) \cap Barred(a[j]) = {}
          BY <1>3, <3>1 DEF Orderly
    <3> QED BY <3>1, <3>2
  <2>2. CASE i > m
    <3>1. i - m \in 1 .. n /\ j - m \in 1 .. n /\ i - m <= j - m /\ s[i] = b[i - m] /\ s[j] = b[j - m]
          BY <1>1, <1>3, <2>2
    <3>2. Deleted(b[i - m]) \cap Barred(b[j - m]) = {}
          BY <3>1 DEF Orderly
    <3> QED BY <3>1, <3>2
  <2>3. CASE i <= m /\ j > m
    <3>1. i \in 1 .. m /\ j - m \in 1 .. n /\ s[i] = a[i] /\ s[j] = b[j - m]
          BY <1>1, <2>3
    <3>2. Deleted(a[i]) \subseteq D1 /\ Barred(b[j - m]) \subseteq B2
          BY <3>1 DEF Orderly, Orders
    <3> QED BY <3>1, <3>2
  <2>4. i \in Int /\ j \in Int /\ m \in Int
        BY <1>1
  <2> HIDE DEF s, m, n
  <2> QED BY <2>1, <2>2, <2>3, <2>4
<1> QED BY <1>1, <1>2, <1>3 DEF Orderly

LEMMA OrderlyWhen ==
  ASSUME NEW flag, NEW o, NEW s, NEW D, NEW B, Orderly(s, D, B)
  PROVE  Orderly(When(flag, o, s), D, B)
<1>1. Orderly(<<>>, D, B)
      BY DEF Orderly
<1> QED BY <1>1 DEF When

\* Any order will do for tests that bar nothing another deletes.
LEMMA OrderlyAnyOrder ==
  ASSUME NEW s, NEW T, s \in Seq(T), NEW D, NEW B, D \cap B = {},
         \A i \in 1 .. Len(s) : Orders(s[i], D, B)
  PROVE  Orderly(s, D, B)
<1>1. ASSUME NEW i \in 1 .. Len(s), NEW j \in 1 .. Len(s)
      PROVE  Deleted(s[i]) \cap Barred(s[j]) = {}
  <2>1. Deleted(s[i]) \subseteq D /\ Barred(s[j]) \subseteq B
        BY DEF Orders
  <2> QED BY <2>1
<1> QED BY <1>1 DEF Orderly

LEMMA OrderlyTuples ==
  ASSUME NEW D, NEW B, D \cap B = {}
  PROVE  /\ \A a : Orders(a, D, B) => Orderly(<<a>>, D, B)
         /\ \A a, b : Orders(a, D, B) /\ Orders(b, D, B) => Orderly(<<a, b>>, D, B)
         /\ \A a, b, c : Orders(a, D, B) /\ Orders(b, D, B) /\ Orders(c, D, B) => Orderly(<<a, b, c>>, D, B)
         /\ \A a, b, c, d : Orders(a, D, B) /\ Orders(b, D, B) /\ Orders(c, D, B) /\ Orders(d, D, B)
                              => Orderly(<<a, b, c, d>>, D, B)
<1>1. ASSUME NEW a, Orders(a, D, B)
      PROVE  Orderly(<<a>>, D, B)
  <2>1. <<a>> \in Seq({a}) /\ \A i \in 1 .. Len(<<a>>) : Orders(<<a>>[i], D, B)
        BY <1>1
  <2> QED BY <2>1, OrderlyAnyOrder
<1>2. ASSUME NEW a, NEW b, Orders(a, D, B), Orders(b, D, B)
      PROVE  Orderly(<<a, b>>, D, B)
  <2>1. <<a, b>> \in Seq({a, b}) /\ \A i \in 1 .. Len(<<a, b>>) : Orders(<<a, b>>[i], D, B)
        BY <1>2
  <2> QED BY <2>1, OrderlyAnyOrder
<1>3. ASSUME NEW a, NEW b, NEW c, Orders(a, D, B), Orders(b, D, B), Orders(c, D, B)
      PROVE  Orderly(<<a, b, c>>, D, B)
  <2>1. /\ <<a, b, c>> \in Seq({a, b, c})
        /\ \A i \in 1 .. Len(<<a, b, c>>) : Orders(<<a, b, c>>[i], D, B)
        BY <1>3
  <2> QED BY <2>1, OrderlyAnyOrder
<1>4. ASSUME NEW a, NEW b, NEW c, NEW d,
             Orders(a, D, B), Orders(b, D, B), Orders(c, D, B), Orders(d, D, B)
      PROVE  Orderly(<<a, b, c, d>>, D, B)
  <2>1. /\ <<a, b, c, d>> \in Seq({a, b, c, d})
        /\ \A i \in 1 .. Len(<<a, b, c, d>>) : Orders(<<a, b, c, d>>[i], D, B)
        BY <1>4
  <2> QED BY <2>1, OrderlyAnyOrder
<1> QED BY <1>1, <1>2, <1>3, <1>4
-----------------------------------------------------------------------------
(* the scenario files *)

\* Tests that are no deletions and create nothing, in tuples as the files have them.
LEMMA PlainTuples ==
  /\ Orderly(<<Read>>, {}, {}) /\ Orderly(<<Read, Read>>, {}, {})
  /\ \A b : Orderly(<<Fetch(b), Check(b)>>, {}, {})
<1> QED BY PlainTests, OrderlyTuples

LEMMA PlainConcat ==
  \A a, b : Orderly(a, {}, {}) /\ Orderly(b, {}, {}) => Orderly(a \o b, {}, {})
<1> QED BY OrderlyConcat

LEMMA OrderlyCrs == \A o : Orderly(CrsCatalog(o), {}, {}) /\ Orderly(CrsConversion(o), {}, {})
<1> TAKE o
<1>1. \A f, b : Orderly(When(f, o, <<Fetch(b), Check(b)>>), {}, {})
      BY PlainTuples, OrderlyWhen
<1>2. Orderly(CrsCatalog(o), {}, {})
      BY <1>1, PlainConcat DEF CrsCatalog
<1>3. Orderly(When("geoJsonConversion", o, <<Read>>), {}, {})
      BY PlainTuples, OrderlyWhen
<1>4. Orderly(CrsConversion(o), {}, {})
      BY <1>1, <1>3, PlainConcat DEF CrsConversion
<1> QED BY <1>2, <1>4
LEMMA OrderlyUnit == \A o : Orderly(Unit(o), {}, {})
<1> TAKE o
<1>1. \A f, b : Orderly(When(f, o, <<Fetch(b), Check(b)>>), {}, {})
      BY PlainTuples, OrderlyWhen
<1> QED BY <1>1, PlainConcat DEF Unit

LEMMA OrderlySearch == \A o : Orderly(SearchCrud(o), {}, {})
<1> TAKE o
<1>1. ASSUME NEW n \in Nat
      PROVE  Orderly(Queries(n), {}, {})
  <2>1. Queries(n) \in Seq({Read}) /\ \A i \in 1 .. Len(Queries(n)) : Queries(n)[i] = Read
        BY DEF Queries
  <2> QED BY <2>1, PlainTests, OrderlyAnyOrder
<1>2. /\ Orderly(StandardTextQueries, {}, {}) /\ Orderly(StandardWellQueries, {}, {})
      /\ Orderly(StandardAggregateQueries, {}, {}) /\ Orderly(EnrichedTextQueries, {}, {})
      /\ Orderly(EnrichedWellQueries, {}, {}) /\ Orderly(EnrichedSpatialQueries, {}, {})
      /\ Orderly(EnrichedRangeQueries, {}, {}) /\ Orderly(SeismicNameQueries, {}, {})
      /\ Orderly(SeismicRegionQueries, {}, {})
      BY <1>1 DEF StandardTextQueries, StandardWellQueries, StandardAggregateQueries, EnrichedTextQueries,
         EnrichedWellQueries, EnrichedSpatialQueries, EnrichedRangeQueries, SeismicNameQueries,
         SeismicRegionQueries
<1>3. \A f, s : Orderly(s, {}, {}) => Orderly(When(f, o, s), {}, {})
      BY OrderlyWhen
<1> QED BY <1>2, <1>3, PlainConcat DEF SearchCrud

LEMMA OrderlyNotification == \A o : Orderly(Notification(o), {}, {})
<1> QED BY PlainTuples, OrderlyWhen DEF Notification

LEMMA OrderlyEntitlements ==
  \A o : Orderly(Entitlements(o), Roles \cup {"user", "group"}, Roles \cup {"user", "group", "groupAdmin"})
<1> TAKE o
<1> DEFINE B == Roles \cup {"user", "group", "groupAdmin"}
           D == Roles \cup {"user", "group"}
<1>1. Orderly(EntitlementsCreate(o), {}, B)
  <2>1. Orderly(When("privilegedAccess", o, <<Read, Read>>), {}, {})
        BY PlainTuples, OrderlyWhen
  <2>2. /\ Orders(Make("group"), {}, B) /\ Orders(With(Make("groupAdmin"), "group"), {}, B)
        /\ Orders(Read, {}, B) /\ Orders(Make("user"), {}, B)
    <3>1. /\ Orders(Make("group"), {}, {"group"}) /\ Orders(Read, {}, {}) /\ Orders(Make("user"), {}, {"user"})
          /\ Orders(With(Make("groupAdmin"), "group"), {}, {"groupAdmin"})
          BY PlainTests, CreatingTests, ModifiedTests
    <3>2. {} \subseteq B /\ {"group"} \subseteq B /\ {"user"} \subseteq B /\ {"groupAdmin"} \subseteq B
          OBVIOUS
    <3> HIDE DEF B
    <3> QED BY <3>1, <3>2, OrdersMore
  <2>3. Orderly(<<Make("group"), With(Make("groupAdmin"), "group"), Read, Make("user")>>, {}, B)
        BY <2>2, OrderlyTuples
  <2> QED BY <2>1, <2>3, OrderlyConcat DEF EntitlementsCreate
<1>2. Orderly(EntitlementsRoles, {}, B)
  <2>1. Orders(With(Read, "user"), {}, {})
        BY PlainTests, ModifiedTests
  <2>2. ASSUME NEW r \in Roles
        PROVE  Orders(With(New(r), "user"), {}, B)
    <3>1. Orders(With(New(r), "user"), {}, {r}) /\ {r} \subseteq B
          BY CreatingTests, ModifiedTests
    <3> HIDE DEF B
    <3> QED BY <3>1, OrdersMore
  <2>3. Orderly(<<With(Read, "user")>>, {}, {})
        BY <2>1, OrderlyTuples
  <2>4. Orderly(<<With(New("viewers"), "user"), With(New("editors"), "user"),
                  With(New("admins"), "user"), With(New("ops"), "user")>>, {}, B)
        BY <2>2, OrderlyTuples DEF Roles
  <2> QED BY <2>3, <2>4, OrderlyConcat DEF EntitlementsRoles
<1>3. Orderly(EntitlementsLists, {}, {})
  <2>1. \A r, q, b : Orderly(<<List(r, b), Check(b), List(q, b), Check(b)>>, {}, {})
        BY PlainTests, OrderlyTuples
  <2>2. EntitlementsLists =
          <<List("viewers", "member"), Check("member"), List("editors", "member"), Check("member")>>
          \o <<List("admins", "member"), Check("member"), List("ops", "member"), Check("member")>>
        BY DEF EntitlementsLists
  <2> QED BY <2>1, <2>2, PlainConcat
<1>4. Orderly(EntitlementsCleanup, D, {})
  <2>1. /\ \A r \in Roles \cup {"user"} : Orders(Delete(r), D, {})
        /\ Orders(Remove("group"), D, {})
    <3>1. \A r \in D : r \notin Records
          BY DEF Roles, Records
    <3>2. \A r \in D : Orders(Delete(r), {r}, {}) /\ Orders(Remove(r), {r}, {}) /\ {r} \subseteq D
          BY <3>1, DeletingTests
    <3>3. Roles \cup {"user"} \subseteq D /\ "group" \in D
          OBVIOUS
    <3> HIDE DEF D
    <3>4. ASSUME NEW r \in D
          PROVE  Orders(Delete(r), D, {}) /\ Orders(Remove(r), D, {})
      <4>1. \A t : Orders(t, {r}, {}) /\ {r} \subseteq D => Orders(t, D, {})
            BY OrdersMore
      <4> QED BY <3>2, <4>1
    <3> QED BY <3>3, <3>4
  <2>2. /\ Orderly(<<Delete("ops"), Delete("admins"), Delete("editors"), Delete("viewers")>>, D, {})
        /\ Orderly(<<Delete("user"), Remove("group"), Remove("group")>>, D, {})
        BY <2>1, OrderlyTuples DEF Roles
  <2>3. EntitlementsCleanup = <<Delete("ops"), Delete("admins"), Delete("editors"), Delete("viewers")>>
                              \o <<Delete("user"), Remove("group"), Remove("group")>>
        BY DEF EntitlementsCleanup
  <2> QED BY <2>2, <2>3, OrderlyConcat
<1>5. Orderly(EntitlementsCreate(o) \o EntitlementsRoles, {}, B)
      BY <1>1, <1>2, OrderlyConcat
<1>6. Orderly(EntitlementsCreate(o) \o EntitlementsRoles \o EntitlementsLists, {}, B)
      BY <1>3, <1>5, OrderlyConcat
<1>7. Orderly(EntitlementsCreate(o) \o EntitlementsRoles \o EntitlementsLists \o EntitlementsCleanup, D, B)
      BY <1>4, <1>6, OrderlyConcat
<1> QED BY <1>7, OrderlyWhen DEF Entitlements

\* What is created, used and deleted.
LEMMA OrderlyLife ==
  ASSUME NEW r, NEW a, NEW s, NEW z, Orders(a, {}, {r}), Orderly(s, {}, {}), Orders(z, {r}, {})
  PROVE  Orderly(<<a>> \o s \o <<z>>, {r}, {r})
<1>1. Orderly(<<a>>, {}, {r}) /\ Orderly(<<z>>, {r}, {})
      BY OrderlyTuples
<1>2. Orderly(<<a>> \o s, {}, {r})
      BY <1>1, OrderlyConcat
<1> QED BY <1>1, <1>2, OrderlyConcat

LEMMA OrderlyWorkflow == \A o : Orderly(IngestionWorkflow(o), {"workflow"}, {"workflow"})
<1> TAKE o
<1>1. Orderly(When("getAllWorkflows", o, <<Read>>), {}, {})
      BY PlainTuples, OrderlyWhen
<1>2. Orderly(When("getCreatedWorkflow", o, <<List("workflow", "workflow"), Check("workflow")>>), {}, {})
      BY PlainTests, OrderlyTuples, OrderlyWhen
<1>3. Orders(New("workflow"), {}, {"workflow"}) /\ Orders(Delete("workflow"), {"workflow"}, {})
      BY CreatingTests, DeletingTests DEF Records
<1>4. Orderly(When("createWorkflow", o,
                   <<New("workflow")>>
                   \o When("getCreatedWorkflow", o, <<List("workflow", "workflow"), Check("workflow")>>)
                   \o <<Delete("workflow")>>), {"workflow"}, {"workflow"})
      BY <1>2, <1>3, OrderlyLife, OrderlyWhen
<1> QED BY <1>1, <1>4, OrderlyConcat DEF IngestionWorkflow

LEMMA OrderlyLegal == \A o : Orderly(Legal(o), {"crudTag"}, {"crudTag"})
<1> TAKE o
<1>1. Orderly(When("getAllLegalTags", o, <<Read>>), {}, {})
      BY PlainTuples, OrderlyWhen
<1>2. Orderly(When("getCreatedLegalTag", o, <<List("crudTag", "tag"), Check("tag")>>), {}, {})
      BY PlainTests, OrderlyTuples, OrderlyWhen
<1>3. Orders(Make("crudTag"), {}, {"crudTag"}) /\ Orders(Delete("crudTag"), {"crudTag"}, {})
      BY CreatingTests, DeletingTests DEF Records
<1>4. Orderly(When("createLegalTag", o,
                   <<Make("crudTag")>>
                   \o When("getCreatedLegalTag", o, <<List("crudTag", "tag"), Check("tag")>>)
                   \o <<Delete("crudTag")>>), {"crudTag"}, {"crudTag"})
      BY <1>2, <1>3, OrderlyLife, OrderlyWhen
<1> QED BY <1>1, <1>4, OrderlyConcat DEF Legal

LEMMA OrderlyPartition == \A o : Orderly(Partition(o), {"partition"}, {"partition"})
<1> TAKE o
<1>1. Orderly(When("preCreateGetPartition", o, <<Absent("partition")>>), {}, {})
      BY PlainTests, OrderlyTuples, OrderlyWhen
<1>2. Orderly(When("getCreatedPartition", o, <<List("partition", "partition"), Check("partition")>>), {}, {})
      BY PlainTests, OrderlyTuples, OrderlyWhen
<1>3. Orders(New("partition"), {}, {"partition"}) /\ Orders(Delete("partition"), {"partition"}, {})
      BY CreatingTests, DeletingTests DEF Records
<1>4. Orderly(When("createPartition", o,
                   <<New("partition")>>
                   \o When("getCreatedPartition", o, <<List("partition", "partition"), Check("partition")>>)
                   \o <<Delete("partition")>>), {"partition"}, {"partition"})
      BY <1>2, <1>3, OrderlyLife, OrderlyWhen
<1> QED BY <1>1, <1>4, OrderlyConcat DEF Partition

LEMMA OrderlyPolicy == \A o : Orderly(Policy(o), {"policy"}, {})
<1> TAKE o
<1> DEFINE got == When("getTestPolicy", o, <<Get("policy")>>)
<1>1. /\ Orderly(When("getAllPolicies", o, <<Read, Read>>), {}, {})
      /\ Orderly(When("evaluatePolicy", o, <<Throwing>>), {}, {})
      BY PlainTests, PlainTuples, OrderlyTuples, OrderlyWhen
<1>2. Orderly(got, {}, {}) /\ Orderly(<<Throwing>>, {}, {})
      BY PlainTests, OrderlyTuples, OrderlyWhen
<1>3. Orderly(<<Delete("policy")>>, {"policy"}, {})
      BY DeletingTests, OrderlyTuples DEF Records
<1> HIDE DEF got
<1>4. Orderly(<<Throwing>> \o got, {}, {})
      BY <1>2, OrderlyConcat
<1>5. Orderly(<<Throwing>> \o got \o <<Delete("policy")>> \o got, {"policy"}, {})
  <2>1. Orderly(<<Throwing>> \o got \o <<Delete("policy")>>, {"policy"}, {})
        BY <1>3, <1>4, OrderlyConcat
  <2> QED BY <1>2, <2>1, OrderlyConcat
<1>6. Orderly(When("createTestPolicy", o,
                   <<Throwing>> \o got \o <<Delete("policy")>> \o got), {"policy"}, {})
      BY <1>5, OrderlyWhen
<1> QED BY <1>1, <1>6, PlainConcat, OrderlyConcat DEF Policy, got

LEMMA OrderlySchema == \A o : Orderly(Schema(o), {}, {"schema"})
<1> TAKE o
<1>1. Orderly(When("getSchemaById", o, <<Read>>) \o When("getAllSchemas", o, <<Read>>), {}, {})
  <2>1. \A f : Orderly(When(f, o, <<Read>>), {}, {})
        BY PlainTuples, OrderlyWhen
  <2> QED BY <2>1, PlainConcat
<1>2. \A f : Orderly(When(f, o, <<Get("schema")>>), {}, {})
      BY PlainTests, OrderlyTuples, OrderlyWhen
<1>3. Orderly(When("createSchema", o, <<Make("schema")>>), {}, {"schema"})
      BY CreatingTests, OrderlyTuples, OrderlyWhen
<1>4. Orderly(When("getSchemaById", o, <<Read>>) \o When("getAllSchemas", o, <<Read>>)
              \o When("createSchema", o, <<Make("schema")>>), {}, {"schema"})
      BY <1>1, <1>3, OrderlyConcat
<1>5. \A f, s : Orderly(s, {}, {"schema"}) => Orderly(s \o When(f, o, <<Get("schema")>>), {}, {"schema"})
      BY <1>2, OrderlyConcat
<1> QED BY <1>4, <1>5 DEF Schema

LEMMA OrderlyRegister ==
  \A o : Orderly(Register(o), {"registered", "ddms", "action"}, {"registered", "ddms", "action"})
<1> TAKE o
<1>1. ASSUME NEW f, NEW r, NEW a, NEW b, NEW c,
             Orders(a, {}, {r}), Orders(b, {}, {}), Orders(c, {r}, {})
      PROVE  Orderly(When(f, o, <<a, b, c>>), {r}, {r})
  <2>1. Orders(b, {}, {r})
        BY <1>1, OrdersMore
  <2>2. Orderly(<<a, b>>, {}, {r}) /\ Orderly(<<c>>, {r}, {})
        BY <1>1, <2>1, OrderlyTuples
  <2>3. <<a, b, c>> = <<a, b>> \o <<c>>
        OBVIOUS
  <2>4. Orderly(<<a, b>> \o <<c>>, {r}, {r})
        BY <2>2, OrderlyConcat
  <2>5. Orderly(<<a, b, c>>, {r}, {r})
        BY <2>3, <2>4
  <2> QED BY <2>5, OrderlyWhen
<1>2. Orderly(RegisterSubscription(o), {"registered"}, {"registered"})
  <2>1. /\ Orders(For(Make("registered"), "subscriptionId"), {}, {"registered"})
        /\ Orders(Through(Get("registered"), "subscriptionId"), {}, {})
        BY PlainTests, CreatingTests, ModifiedTests
  <2>2. Orders(Through(Delete("registered"), "subscriptionId"), {"registered"}, {})
        BY DeletingTests, ModifiedTests DEF Records
  <2> QED BY <1>1, <2>1, <2>2 DEF RegisterSubscription
<1>3. Orderly(RegisterDdms(o), {"ddms"}, {"ddms"})
  <2>1. Orders(Make("ddms"), {}, {"ddms"}) /\ Orders(Get("ddms"), {}, {})
        BY PlainTests, CreatingTests
  <2>2. Orders(Delete("ddms"), {"ddms"}, {})
        BY DeletingTests DEF Records
  <2> QED BY <1>1, <2>1, <2>2 DEF RegisterDdms
<1>4. Orderly(RegisterAction(o), {"action"}, {"action"})
  <2>1. Orders(Make("action"), {}, {"action"}) /\ Orders(Get("action"), {}, {})
        BY PlainTests, CreatingTests
  <2>2. Orders(Delete("action"), {"action"}, {})
        BY DeletingTests DEF Records
  <2> QED BY <1>1, <2>1, <2>2 DEF RegisterAction
<1>5. Orderly(RegisterSubscription(o) \o RegisterDdms(o), {"registered", "ddms"}, {"registered", "ddms"})
      BY <1>2, <1>3, OrderlyConcat
<1> QED BY <1>4, <1>5, OrderlyConcat DEF Register

-----------------------------------------------------------------------------
(* the scenario files that share the legal tag *)

LEMMA OrderlyTag == \A t : Orderly(TagTests(t), {}, {t})
<1> TAKE t
<1>1. Orders(Read, {}, {t}) /\ Orders(Make(t), {}, {t}) /\ Orders(List(t, "tag"), {}, {t})
      /\ Orders(Check("tag"), {}, {t})
      BY PlainTests, CreatingTests, OrdersMore
<1> QED BY <1>1, OrderlyTuples DEF TagTests

LEMMA TagsLast ==
  /\ Orders(Delete("checkTag"), {"checkTag"}, {}) /\ Orders(Delete("probeTag"), {"probeTag"}, {})
  /\ \A r \in Records \ {"probeRecord"} : Orders(Delete(r), {r}, {"checkTag"})
  /\ Orders(Delete("probeRecord"), {"probeRecord"}, {"probeTag"})
<1>1. "checkTag" \notin Records /\ "probeTag" \notin Records /\ "probeRecord" \in Records
      BY DEF Records
<1>2. TagOf("probeRecord") = "probeTag" /\ \A r \in Records \ {"probeRecord"} : TagOf(r) = "checkTag"
      BY DEF TagOf
<1> QED BY <1>1, <1>2, DeletingTests

LEMMA OrderlyCsv ==
  \A o : \E D, B : Orderly(CsvIngest(o), D, B)
<1> TAKE o
<1> DEFINE R == {"csvRecord1", "csvRecord2"}
           B == R \cup {"checkTag", "csvSchema", "csvFile"}
           D == R \cup {"storageSchema", "checkTag"}
<1>1. Orderly(CsvSchemas, {}, {"csvSchema"})
  <2>1. /\ Orders(Read, {}, {"csvSchema"}) /\ Orders(New("csvSchema"), {}, {"csvSchema"})
        /\ Orders(Get("csvSchema"), {}, {"csvSchema"})
        BY PlainTests, CreatingTests, OrdersMore
  <2> QED BY <2>1, OrderlyTuples DEF CsvSchemas
<1>2. Orderly(CsvUpload, {}, {"csvFile"})
  <2>1. /\ Orders(For(Read, "fileUrl"), {}, {}) /\ Orders(ByUrl(Test, "fileUrl"), {}, {})
        /\ Orders(Through(Get("csvFile"), "metadataId"), {}, {})
        BY PlainTests, ModifiedTests
  <2>2. Orders(Through(With(For(Make("csvFile"), "metadataId"), "checkTag"), "fileUrl"), {}, {"csvFile"})
        BY CreatingTests, ModifiedTests
  <2>3. \A t : Orders(t, {}, {}) => Orders(t, {}, {"csvFile"})
        BY OrdersMore
  <2> QED BY <2>1, <2>2, <2>3, OrderlyTuples DEF CsvUpload
<1>3. Orderly(CsvRuns, {}, R)
  <2>1. Orders(Through(Run(R, "runId"), "metadataId"), {}, R)
        BY CreatingTests, ModifiedTests DEF Records
  <2>2. Orders(Through(Read, "runId"), {}, R)
        BY PlainTests, ModifiedTests, OrdersMore
  <2> QED BY <2>1, <2>2, OrderlyTuples DEF CsvRuns
<1>4. Orderly(CsvSearches, {}, {})
  <2>1. \A r, id : Orders(Through(Get(r), id), {}, {})
        BY PlainTests, ModifiedTests
  <2> QED BY <2>1, PlainTests, OrderlyTuples DEF CsvSearches
<1>5. Orderly(CsvCleanup, D, {"checkTag"})
  <2> DEFINE E == R \cup {"storageSchema"}
  <2>1. \A r \in R : Orders(Through(Delete(r), "recordId1"), {r}, {"checkTag"})
                     /\ Orders(Through(Delete(r), "recordId2"), {r}, {"checkTag"})
        BY TagsLast, ModifiedTests DEF Records
  <2>2. Orders(Delete("storageSchema"), {"storageSchema"}, {})
        BY DeletingTests DEF Records
  <2>3. /\ Orders(Through(Delete("csvRecord1"), "recordId1"), E, {"checkTag"})
        /\ Orders(Through(Delete("csvRecord2"), "recordId2"), E, {"checkTag"})
        /\ Orders(Delete("storageSchema"), E, {"checkTag"})
        BY <2>1, <2>2, OrdersMore
  <2>4. Orderly(<<Through(Delete("csvRecord1"), "recordId1"), Through(Delete("csvRecord2"), "recordId2"),
                  Delete("storageSchema")>>, E, {"checkTag"})
        BY <2>3, OrderlyTuples
  <2>5. Orderly(<<Delete("checkTag")>>, {"checkTag"}, {})
        BY TagsLast, OrderlyTuples
  <2>6. CsvCleanup = <<Through(Delete("csvRecord1"), "recordId1"), Through(Delete("csvRecord2"), "recordId2"),
                       Delete("storageSchema")>> \o <<Delete("checkTag")>>
        BY DEF CsvCleanup
  <2> QED BY <2>4, <2>5, <2>6, OrderlyConcat
<1>6. Orderly(TagTests("checkTag") \o CsvSchemas, {}, B)
  <2>1. Orderly(TagTests("checkTag"), {}, {"checkTag"})
        BY OrderlyTag
  <2> QED BY <1>1, <2>1, OrderlyConcat
<1>7. Orderly(TagTests("checkTag") \o CsvSchemas \o CsvUpload, {}, B)
      BY <1>2, <1>6, OrderlyConcat
<1>8. Orderly(TagTests("checkTag") \o CsvSchemas \o CsvUpload \o CsvRuns, {}, B)
      BY <1>3, <1>7, OrderlyConcat
<1>9. Orderly(TagTests("checkTag") \o CsvSchemas \o CsvUpload \o CsvRuns \o CsvSearches, {}, B)
      BY <1>4, <1>8, OrderlyConcat
<1>10. Orderly(TagTests("checkTag") \o CsvSchemas \o CsvUpload \o CsvRuns \o CsvSearches \o CsvCleanup, D, B)
      BY <1>5, <1>9, OrderlyConcat
<1> QED BY <1>10, OrderlyWhen DEF CsvIngest
LEMMA OrderlyFile == \A o : \E D, B : Orderly(FileUpload(o), D, B)
<1> TAKE o
<1> DEFINE B == {"checkTag", "file"}
<1>1. Orderly(FileTransfer, {}, {"file"})
  <2>1. /\ Orders(Read, {}, {}) /\ Orders(For(Read, "fileUrl"), {}, {}) /\ Orders(ByUrl(Test, "fileUrl"), {}, {})
        /\ Orders(Through(Get("file"), "metadataId"), {}, {})
        BY PlainTests, ModifiedTests
  <2>2. Orders(Through(With(For(Make("file"), "metadataId"), "checkTag"), "fileUrl"), {}, {"file"})
        BY CreatingTests, ModifiedTests
  <2>3. \A t : Orders(t, {}, {}) => Orders(t, {}, {"file"})
        BY OrdersMore
  <2>4. Orderly(<<Read, For(Read, "fileUrl"), Read, ByUrl(Test, "fileUrl")>>, {}, {})
        BY <2>1, OrderlyTuples
  <2>5. Orderly(<<Through(With(For(Make("file"), "metadataId"), "checkTag"), "fileUrl"),
                  Through(Get("file"), "metadataId")>>, {}, {"file"})
        BY <2>1, <2>2, <2>3, OrderlyTuples
  <2>6. FileTransfer = <<Read, For(Read, "fileUrl"), Read, ByUrl(Test, "fileUrl")>>
                       \o <<Through(With(For(Make("file"), "metadataId"), "checkTag"), "fileUrl"),
                            Through(Get("file"), "metadataId")>>
        BY DEF FileTransfer
  <2> QED BY <2>4, <2>5, <2>6, OrderlyConcat
<1>2. Orderly(FileDownload, {"checkTag"}, {})
  <2>1. Orders(For(Through(Get("file"), "metadataId"), "downloadUrl"), {}, {})
        BY PlainTests, ModifiedTests
  <2>2. Orders(ByUrl(Test, "downloadUrl"), {}, {})
        BY PlainTests, ModifiedTests
  <2>3. \A t : Orders(t, {}, {}) => Orders(t, {"checkTag"}, {})
        BY OrdersMore
  <2> QED BY <2>1, <2>2, <2>3, TagsLast, OrderlyTuples DEF FileDownload
<1>3. Orderly(TagTests("checkTag") \o FileTransfer, {}, B)
  <2>1. Orderly(TagTests("checkTag"), {}, {"checkTag"})
        BY OrderlyTag
  <2> QED BY <1>1, <2>1, OrderlyConcat
<1>4. Orderly(TagTests("checkTag") \o FileTransfer \o FileDownload, {"checkTag"}, B)
      BY <1>2, <1>3, OrderlyConcat
<1> QED BY <1>4, OrderlyWhen DEF FileUpload

LEMMA OrderlyManifest ==
  ASSUME NEW r \in Records \ {"probeRecord"}, NEW rest \in SUBSET Records, NEW runId, NEW recordId
  PROVE  Orderly(Manifest(r, rest, runId, recordId), {r}, {r, "checkTag"} \cup rest)
<1> DEFINE rs == {r} \cup rest
           run == With(Run(rs, runId), "osduIngest")
           read == Through(With(Read, "osduIngest"), runId)
           found == For(Search({r}), recordId)
           got == Through(Get(r), recordId)
           gone == Through(Delete(r), recordId)
<1>1. Orders(run, {}, rs)
      BY CreatingTests, ModifiedTests
<1>2. Orders(read, {}, {}) /\ Orders(found, {}, {}) /\ Orders(got, {}, {})
      BY PlainTests, ModifiedTests
<1>3. Orders(gone, {r}, {"checkTag"})
      BY TagsLast, ModifiedTests
<1>4. Manifest(r, rest, runId, recordId) = <<run, read, found, got>> \o <<gone>>
      BY DEF Manifest
<1>5. r # "checkTag"
      BY DEF Records
<1> HIDE DEF run, read, found, got, gone, rs
<1>6. Orders(read, {}, rs) /\ Orders(found, {}, rs) /\ Orders(got, {}, rs)
      BY <1>2, OrdersMore
<1>7. Orderly(<<run, read, found, got>>, {}, rs)
      BY <1>1, <1>6, OrderlyTuples
<1>8. Orderly(<<gone>>, {r}, {"checkTag"})
      BY <1>3, <1>5, OrderlyTuples
<1>9. rs \subseteq {r, "checkTag"} \cup rest
      BY DEF rs
<1> QED BY <1>4, <1>7, <1>8, <1>9, OrderlyConcat

LEMMA OrderlyManifests == \A o : \E D, B : Orderly(ManifestIngest(o), D, B)
<1> TAKE o
<1> DEFINE B == Records \cup {"checkTag", "osduIngest"}
<1>1. Orderly(ManifestWorkflow, {}, {"osduIngest"})
  <2>1. /\ Orders(Read, {}, {"osduIngest"}) /\ Orders(Make("osduIngest"), {}, {"osduIngest"})
        /\ Orders(Get("osduIngest"), {}, {"osduIngest"})
        BY PlainTests, CreatingTests, OrdersMore
  <2> QED BY <2>1, OrderlyTuples DEF ManifestWorkflow
<1>2. /\ Orderly(ManifestTC1, {"kirchhoff"}, {"kirchhoff", "checkTag"})
      /\ Orderly(ManifestTC2, {"angleMute"}, {"angleMute", "checkTag", "conversions"})
      /\ Orderly(ManifestTC3, {"well"}, {"well", "checkTag"})
      /\ Orderly(ManifestTC4, {"workProduct"}, {"workProduct", "checkTag", "components"})
  <2>1. Orderly(ManifestTC1, {"kirchhoff"}, {"kirchhoff", "checkTag"})
    <3>1. Orderly(ManifestTC1, {"kirchhoff"}, {"kirchhoff", "checkTag"} \cup {})
          BY OrderlyManifest DEF ManifestTC1, Records
    <3> QED BY <3>1
  <2>2. Orderly(ManifestTC2, {"angleMute"}, {"angleMute", "checkTag"} \cup {"conversions"})
        BY OrderlyManifest DEF ManifestTC2, Records
  <2>3. Orderly(ManifestTC3, {"well"}, {"well", "checkTag"} \cup {})
        BY OrderlyManifest DEF ManifestTC3, Records
  <2>4. Orderly(ManifestTC4, {"workProduct"}, {"workProduct", "checkTag"} \cup {"components"})
        BY OrderlyManifest DEF ManifestTC4, Records
  <2> QED BY <2>1, <2>2, <2>3, <2>4
<1>3. Orderly(<<Delete("checkTag")>>, {"checkTag"}, {})
      BY TagsLast, OrderlyTuples
<1>4. Orderly(TagTests("checkTag") \o ManifestWorkflow, {}, {"checkTag", "osduIngest"})
  <2>1. Orderly(TagTests("checkTag"), {}, {"checkTag"})
        BY OrderlyTag
  <2> QED BY <1>1, <2>1, OrderlyConcat
<1> DEFINE start == TagTests("checkTag") \o ManifestWorkflow
<1> HIDE DEF start
<1>5. Orderly(start \o ManifestTC1, {"kirchhoff"}, B)
      BY <1>2, <1>4, OrderlyConcat DEF start, Records
<1>6. Orderly(start \o ManifestTC1 \o ManifestTC2, {"kirchhoff", "angleMute"}, B)
      BY <1>2, <1>5, OrderlyConcat DEF Records
<1>7. Orderly(start \o ManifestTC1 \o ManifestTC2 \o ManifestTC3, {"kirchhoff", "angleMute", "well"}, B)
      BY <1>2, <1>6, OrderlyConcat DEF Records
<1>8. Orderly(start \o ManifestTC1 \o ManifestTC2 \o ManifestTC3 \o ManifestTC4, Records, B)
      BY <1>2, <1>7, OrderlyConcat DEF Records
<1>9. Orderly(start \o ManifestTC1 \o ManifestTC2 \o ManifestTC3 \o ManifestTC4 \o <<Delete("checkTag")>>,
              Records \cup {"checkTag"}, B)
      BY <1>3, <1>8, OrderlyConcat
<1> QED BY <1>9, OrderlyWhen DEF ManifestIngest, start

LEMMA OrderlyRecords == \A o : \E D, B : Orderly(RecordSchema(o), D, B)
<1> TAKE o
<1> DEFINE B == {"checkTag", "qaRecord"}
           D == {"qaRecord", "checkTag"}
<1>1. Orderly(RecordTests, {}, {"qaRecord"})
  <2> DEFINE made == With(For(Make("qaRecord"), "recordId"), "checkTag")
             got == Through(Get("qaRecord"), "recordId")
             version == For(got, "version")
  <2>1. Orders(made, {}, {"qaRecord"})
        BY CreatingTests, ModifiedTests
  <2>2. Orders(Read, {}, {}) /\ Orders(got, {}, {}) /\ Orders(version, {}, {})
        BY PlainTests, ModifiedTests
  <2>3. RecordTests = <<made>> \o <<got, Read, version, got>>
        BY DEF RecordTests
  <2> HIDE DEF made, got, version
  <2>4. Orderly(<<made>>, {}, {"qaRecord"}) /\ Orderly(<<got, Read, version, got>>, {}, {})
        BY <2>1, <2>2, OrderlyTuples
  <2> QED BY <2>3, <2>4, OrderlyConcat
<1>2. Orderly(RecordSearchAndCleanup, D, {"checkTag"})
  <2> DEFINE found == Search({"qaRecord", "kirchhoff", "angleMute", "conversions"})
             gone == Through(Delete("qaRecord"), "recordId")
  <2>1. Orders(gone, {"qaRecord"}, {"checkTag"})
        BY TagsLast, ModifiedTests DEF Records
  <2>2. Orders(found, {"qaRecord"}, {"checkTag"})
        BY PlainTests, OrdersMore
  <2>3. RecordSearchAndCleanup = <<found, gone>> \o <<Delete("checkTag")>>
        BY DEF RecordSearchAndCleanup
  <2> HIDE DEF found, gone
  <2>4. Orderly(<<found, gone>>, {"qaRecord"}, {"checkTag"}) /\ Orderly(<<Delete("checkTag")>>, {"checkTag"}, {})
        BY <2>1, <2>2, TagsLast, OrderlyTuples
  <2> QED BY <2>3, <2>4, OrderlyConcat
<1>3. Orderly(TagTests("checkTag") \o <<Read>>, {}, B)
  <2>1. Orderly(TagTests("checkTag"), {}, {"checkTag"})
        BY OrderlyTag
  <2> QED BY <2>1, PlainTuples, OrderlyConcat
<1>4. Orderly(TagTests("checkTag") \o <<Read>> \o RecordTests, {}, B)
      BY <1>1, <1>3, OrderlyConcat
<1>5. Orderly(TagTests("checkTag") \o <<Read>> \o RecordTests \o RecordSearchAndCleanup, D, B)
      BY <1>2, <1>4, OrderlyConcat
<1> QED BY <1>5, OrderlyWhen DEF RecordSchema

LEMMA OrderlySearchInserted == \A o : \E D, B : Orderly(SearchInserted(o), D, B)
<1> TAKE o
<1> DEFINE B == {"probeTag", "probeRecord"}
<1>1. Orderly(InsertRecord, {}, {"probeRecord"})
  <2>1. Orders(With(For(Make("probeRecord"), "recordId"), "probeTag"), {}, {"probeRecord"})
        BY CreatingTests, ModifiedTests
  <2>2. Orders(Through(Get("probeRecord"), "recordId"), {}, {"probeRecord"})
        BY PlainTests, ModifiedTests, OrdersMore
  <2> QED BY <2>1, <2>2, OrderlyTuples DEF InsertRecord
<1>2. Orderly(FindRecord, B, {"probeTag"})
  <2> DEFINE found == For(Search({"probeRecord"}), "foundId")
             gone == Through(Delete("probeRecord"), "recordId")
  <2>1. Orders(gone, {"probeRecord"}, {"probeTag"})
        BY TagsLast, ModifiedTests
  <2>2. Orders(found, {}, {}) /\ Orders(Same, {}, {})
        BY PlainTests, ModifiedTests
  <2>3. FindRecord = <<found, Same, gone>> \o <<Delete("probeTag")>>
        BY DEF FindRecord
  <2> HIDE DEF found, gone
  <2>4. Orders(found, {"probeRecord"}, {"probeTag"}) /\ Orders(Same, {"probeRecord"}, {"probeTag"})
        BY <2>2, OrdersMore
  <2>5. Orderly(<<found, Same, gone>>, {"probeRecord"}, {"probeTag"})
        BY <2>1, <2>4, OrderlyTuples
  <2>6. Orderly(<<Delete("probeTag")>>, {"probeTag"}, {})
        BY TagsLast, OrderlyTuples
  <2> QED BY <2>3, <2>5, <2>6, OrderlyConcat
<1>3. Orderly(TagTests("probeTag") \o InsertRecord, {}, B)
  <2>1. Orderly(TagTests("probeTag"), {}, {"probeTag"})
        BY OrderlyTag
  <2> QED BY <1>1, <2>1, OrderlyConcat
<1>4. Orderly(TagTests("probeTag") \o InsertRecord \o FindRecord, B, B)
      BY <1>2, <1>3, OrderlyConcat
<1> QED BY <1>4, OrderlyWhen DEF SearchInserted

\* In every file, whatever flags are off, the tests clean up last.
LEMMA FilesOrderly ==
  \A o : Len(Files(o)) = 17 /\ \A f \in 1 .. 17 : \E D, B : Orderly(Files(o)[f], D, B)
<1> TAKE o
<1>1. /\ Len(Files(o)) = 17
      /\ \A f \in 1 .. 17 :
           Files(o)[f] \in {CrsCatalog(o), CrsConversion(o), Entitlements(o), IngestionWorkflow(o), Legal(o),
                            Notification(o), Partition(o), Policy(o), Register(o), Schema(o), SearchCrud(o),
                            Unit(o), CsvIngest(o), FileUpload(o), ManifestIngest(o), RecordSchema(o),
                            SearchInserted(o)}
      BY DEF Files
<1> QED BY <1>1, OrderlyCrs, OrderlyEntitlements, OrderlyWorkflow, OrderlyLegal, OrderlyNotification,
           OrderlyPartition, OrderlyPolicy, OrderlyRegister, OrderlySchema, OrderlySearch, OrderlyUnit,
           OrderlyCsv, OrderlyFile, OrderlyManifests, OrderlyRecords, OrderlySearchInserted
-----------------------------------------------------------------------------
(* the exit code and the events *)

\* The failed tests of a file are those mocha has seen and no event has told yet.
Counted ==
  /\ failedTests \in Nat /\ silent \in BOOLEAN /\ exitFailed \in BOOLEAN
  /\ phase \in {"token", "ended"} => failedTests = 0
  /\ exitFailed <=> silent \/ failedTests > 0

LEMMA VerdictCounts ==
  ASSUME Counted, NEW ok \in BOOLEAN, Verdict(ok), UNCHANGED silent
  PROVE  Counted'
<1>1. failedTests' \in Nat /\ (failedTests' > 0 <=> failedTests > 0 \/ ~ok)
      BY DEF Verdict, Counted
<1>2. exitFailed' \in BOOLEAN /\ (exitFailed' <=> exitFailed \/ ~ok) /\ phase' = "idle"
      BY DEF Verdict, Counted
<1> QED BY <1>1, <1>2 DEF Counted

LEMMA MochaCounts == Counted /\ [Next]_vars => Counted'
<1> SUFFICES ASSUME Counted, [Next]_vars
             PROVE  Counted'
    OBVIOUS
<1>1. CASE SkipFile
      BY <1>1 DEF SkipFile, NextFile, Counted
<1>2. CASE TokenFetched \/ TokenRefused
      BY <1>2 DEF TokenFetched, TokenRefused, FetchToken, Fault, Counted, fileVars
<1>3. CASE TokenFails
      BY <1>3 DEF TokenFails, NextFile, Counted
<1>4. CASE Call
      BY <1>4 DEF Call, Counted, fileVars
<1>5. CASE FinishFile
  <2>1. silent' \in BOOLEAN /\ (silent' <=> silent \/ failedTests # 0)
        BY <1>5 DEF FinishFile, Counted
  <2>2. failedTests' = 0 /\ exitFailed' = exitFailed
        BY <1>5 DEF FinishFile, NextFile
  <2> QED BY <2>1, <2>2 DEF Counted
<1>6. CASE RunCheck \/ TestThrows \/ Answer \/ OtherBody \/ Refused \/ AnswerLost \/ TimedOut \/ SlowWorkflow
  <2>1. \E ok \in BOOLEAN : Verdict(ok) /\ UNCHANGED silent
    <3>1. Holds(Current) \in BOOLEAN /\ Accepts(Current) \in BOOLEAN
          BY DEF Holds, Accepts
    <3> QED BY <1>6, <3>1
            DEF RunCheck, TestThrows, Answer, OtherBody, Refused, AnswerLost, TimedOut, SlowWorkflow
  <2> QED BY <2>1, VerdictCounts
<1>7. CASE LateAnswer \/ WorkflowEnds \/ Ended \/ UNCHANGED vars
      BY <1>7 DEF LateAnswer, WorkflowEnds, Ended, vars, fileVars, Counted
<1> QED BY <1>1, <1>2, <1>3, <1>4, <1>5, <1>6, <1>7 DEF Next, Mocha

\* When mocha exits without failure, every enabled file has sent an event with success,
\* and when it does not, one has not: for any number of failing calls, in any order.
THEOREM ExitCodeAgreesWithEvents == Spec => []GreenIsReported
<1>1. ASSUME Init PROVE Counted
  <2>1. failedTests = 0 /\ silent = FALSE /\ exitFailed = FALSE
        BY <1>1 DEF Init
  <2>2. failedTests \in Nat /\ ~ (failedTests > 0)
        BY <2>1
  <2>3. silent \in BOOLEAN /\ exitFailed \in BOOLEAN /\ ~silent /\ ~exitFailed
        BY <2>1
  <2> QED BY <2>1, <2>2, <2>3 DEF Counted
<1>2. Counted => GreenIsReported
      BY DEF Counted, GreenIsReported
<1> QED BY <1>1, <1>2, MochaCounts, PTL DEF Spec

-----------------------------------------------------------------------------
(* where a run is *)

\* A file that has not ended has a test that runs or is next, and the run has ended
\* behind the last file; what is late or pending is of files that were run.
Placed ==
  /\ off \in {Configured, {}}
  /\ phase \in {"token", "idle", "waiting", "ended"}
  /\ file \in 1 .. 18 /\ (phase = "ended" <=> file = 18)
  /\ step \in Nat /\ failedTests \in Nat
  /\ phase # "ended" => step \in 1 .. Len(Tests) + 1 /\ failedTests < step
  /\ phase = "waiting" => step <= Len(Tests)
  /\ faults \in 0 .. MaxFaults
  /\ token \in {"none", "good", "undefined"}
  /\ \A call \in late : call[1] \in 1 .. file
  /\ pending \subseteq Records

LEMMA OrderlyLength ==
  ASSUME NEW s, \E D, B : Orderly(s, D, B)
  PROVE  Len(s) \in Nat
<1>1. PICK T : s \in Seq(T)
      BY DEF Orderly
<1> QED BY <1>1

LEMMA TestsOrderly ==
  ASSUME off \in {Configured, {}}
  PROVE  /\ Len(TestsOf[off]) = 17
         /\ file \in 1 .. 17 => \E D, B : Orderly(Tests, D, B)
         /\ file \in 1 .. 17 => Len(Tests) \in Nat
<1>1. TestsOf[off] = Files(off)
      BY DEF TestsOf
<1>2. file \in 1 .. 17 => \E D, B : Orderly(Tests, D, B)
      BY <1>1, FilesOrderly DEF Tests
<1>3. file \in 1 .. 17 => Len(Tests) \in Nat
      BY <1>2, OrderlyLength
<1>4. Len(TestsOf[off]) = 17
      BY <1>1, FilesOrderly
<1> QED BY <1>2, <1>3, <1>4

\* The next file begins at its first test.
LEMMA NextFilePlaced ==
  ASSUME Placed, file # 18, NextFile, UNCHANGED <<off, pending, late>>, faults' \in 0 .. MaxFaults
  PROVE  Placed'
<1>1. Len(TestsOf[off]) = 17 /\ off' = off
      BY TestsOrderly DEF Placed
<1>2. file' = file + 1 /\ file' \in 1 .. 18 /\ (phase' = "ended" <=> file' = 18) /\ phase' \in {"token", "ended"}
      BY <1>1 DEF NextFile, Done, Placed
<1>3. phase' # "ended" => Len(Tests') \in Nat
  <2>1. TestsOf[off] = Files(off)
        BY DEF TestsOf, Placed
  <2>2. file' \in 1 .. 17 => Len(Files(off)[file']) \in Nat
    <3>1. file' \in 1 .. 17 => \E D, B : Orderly(Files(off)[file'], D, B)
          BY FilesOrderly
    <3> QED BY <3>1, OrderlyLength
  <2> QED BY <1>1, <1>2, <2>1, <2>2 DEF Tests
<1>4. step' = 1 /\ failedTests' = 0 /\ token' = "none"
      BY DEF NextFile
<1>5. \A call \in late' : call[1] \in 1 .. file'
      BY <1>2 DEF Placed
<1> QED BY <1>1, <1>2, <1>3, <1>4, <1>5 DEF Placed

\* A verdict moves to the next test of the file.
LEMMA VerdictPlaced ==
  ASSUME Placed, phase \in {"idle", "waiting"}, step <= Len(Tests),
         NEW ok \in BOOLEAN, Verdict(ok), UNCHANGED <<off, file, token>>,
         faults' \in 0 .. MaxFaults, \A call \in late' : call[1] \in 1 .. file, pending' \subseteq Records
  PROVE  Placed'
<1>1. file \in 1 .. 17 /\ Len(Tests) \in Nat /\ Tests' = Tests
      BY TestsOrderly DEF Placed, Tests
<1>2. step' = step + 1 /\ phase' = "idle" /\ failedTests' \in {failedTests, failedTests + 1}
      BY DEF Verdict, Placed
<1> QED BY <1>1, <1>2 DEF Placed

LEMMA FaultCounted == Fault /\ faults \in 0 .. MaxFaults => faults' \in 0 .. MaxFaults
<1> QED BY MaxFaultsAssumption DEF Fault
LEMMA PlacedAtFirst == Init => Placed
<1> SUFFICES ASSUME Init
             PROVE  Placed
    OBVIOUS
<1>1. /\ off \in {Configured, {}} /\ phase = "token" /\ file = 1 /\ step = 1 /\ failedTests = 0
      /\ faults = 0 /\ token = "none" /\ late = {} /\ pending = {}
      BY DEF Init
<1>2. Len(Tests) \in Nat
      BY <1>1, TestsOrderly
<1> QED BY <1>1, <1>2, MaxFaultsAssumption DEF Placed

\* The records of a workflow are records.
LEMMA RunsAreOfRecords ==
  ASSUME Placed, phase = "waiting", Current.do = "run"
  PROVE  Current.res \subseteq Records
<1>1. file \in 1 .. 17 /\ step \in 1 .. Len(Tests)
      BY DEF Placed
<1>2. PICK D, B : Orderly(Tests, D, B)
      BY <1>1, TestsOrderly DEF Placed
<1>3. Orders(Current, D, B)
      BY <1>1, <1>2 DEF Orderly, Current
<1> QED BY <1>3 DEF Orders

LEMMA StepPlaced == Placed /\ [Next]_vars => Placed'
<1> SUFFICES ASSUME Placed, [Next]_vars
             PROVE  Placed'
    OBVIOUS
<1>a. UNCHANGED <<off, file>> => Tests' = Tests
      BY DEF Tests
<1>b. faults \in 0 .. MaxFaults /\ pending \subseteq Records /\ \A call \in late : call[1] \in 1 .. file
      BY DEF Placed
<1>1. CASE SkipFile
      BY <1>1, <1>b, NextFilePlaced DEF SkipFile, platform, Placed
<1>2. CASE TokenFails
      BY <1>2, <1>b, NextFilePlaced, FaultCounted DEF TokenFails, platform, Placed
<1>3. CASE FinishFile
      BY <1>3, <1>b, NextFilePlaced DEF FinishFile, platform, Placed
<1>4. CASE TokenFetched \/ TokenRefused
  <2>1. faults' \in 0 .. MaxFaults
        BY <1>4, <1>b, FaultCounted DEF TokenFetched, TokenRefused
  <2>2. /\ phase = "token" /\ phase' = "idle" /\ token' \in {"good", "undefined"}
        /\ UNCHANGED <<off, pending, late, file, step, failedTests>>
        BY <1>4 DEF TokenFetched, TokenRefused, FetchToken, platform, fileVars
  <2> QED BY <1>a, <2>1, <2>2 DEF Placed
<1>5. CASE Call
  <2>1. /\ phase = "idle" /\ phase' = "waiting" /\ step <= Len(Tests)
        /\ UNCHANGED <<off, pending, late, file, step, failedTests, faults, token>>
        BY <1>5 DEF Call, platform, fileVars
  <2> QED BY <1>a, <2>1 DEF Placed
<1>6. CASE RunCheck \/ TestThrows
  <2>1. /\ phase = "idle" /\ step <= Len(Tests) /\ UNCHANGED <<off, file, token, faults, late, pending>>
        BY <1>6 DEF RunCheck, TestThrows, platform
  <2>2. \E ok \in BOOLEAN : Verdict(ok)
    <3>1. Holds(Current) \in BOOLEAN
          BY DEF Holds
    <3> QED BY <1>6, <3>1 DEF RunCheck, TestThrows
  <2> QED BY <1>b, <2>1, <2>2, VerdictPlaced
<1>7. CASE Answer \/ OtherBody \/ Refused \/ AnswerLost \/ TimedOut \/ SlowWorkflow
  <2>1. phase = "waiting" /\ step <= Len(Tests) /\ UNCHANGED <<off, file, token>>
        BY <1>7 DEF Answer, OtherBody, Refused, AnswerLost, TimedOut, SlowWorkflow, Placed
  <2>2. \E ok \in BOOLEAN : Verdict(ok)
    <3>1. Accepts(Current) \in BOOLEAN
          BY DEF Accepts
    <3> QED BY <1>7, <3>1 DEF Answer, OtherBody, Refused, AnswerLost, TimedOut, SlowWorkflow
  <2>3. faults' \in 0 .. MaxFaults
        BY <1>7, <1>b, FaultCounted DEF Answer, OtherBody, Refused, AnswerLost, TimedOut, SlowWorkflow
  <2>4. \A call \in late' : call[1] \in 1 .. file
    <3>1. late' = late \/ late' \subseteq late \cup {<<file, step>>}
          BY <1>7 DEF Answer, OtherBody, Refused, AnswerLost, TimedOut, SlowWorkflow, platform
    <3>2. file \in 1 .. file
          BY DEF Placed
    <3> QED BY <1>b, <3>1, <3>2
  <2>5. pending' \subseteq Records
    <3>1. CASE SlowWorkflow
          BY <1>b, <3>1, RunsAreOfRecords DEF SlowWorkflow
    <3>2. CASE ~ SlowWorkflow
          BY <1>7, <1>b, <3>2 DEF Answer, OtherBody, Refused, AnswerLost, TimedOut, platform
    <3> QED BY <3>1, <3>2
  <2> QED BY <2>1, <2>2, <2>3, <2>4, <2>5, VerdictPlaced
<1>8. CASE LateAnswer \/ WorkflowEnds \/ Ended \/ UNCHANGED vars
  <2>1. /\ UNCHANGED <<off, phase, file, step, failedTests, faults, token>>
        /\ late' \subseteq late /\ pending' \subseteq pending
        BY <1>8 DEF LateAnswer, WorkflowEnds, Ended, vars, fileVars, platform
  <2> QED BY <1>a, <2>1 DEF Placed
<1> QED BY <1>1, <1>2, <1>3, <1>4, <1>5, <1>6, <1>7, <1>8 DEF Next, Mocha

LEMMA PlacedInvariant == Spec => []Placed
<1> QED BY PlacedAtFirst, StepPlaced, PTL DEF Spec

\* The counters stay within the files and their tests, for any number of faults.
THEOREM ProbeTypeCorrect == Spec => []TypeOK
<1>1. Placed => TypeOK
  <2> SUFFICES ASSUME Placed
               PROVE  TypeOK
      OBVIOUS
  <2>1. Len(TestsOf[off]) = 17 /\ file \in 1 .. Len(TestsOf[off]) + 1
    <3>1. off \in {Configured, {}} /\ file \in 1 .. 18
          BY DEF Placed
    <3>2. Len(TestsOf[off]) = 17
          BY <3>1, TestsOrderly
    <3> QED BY <3>1, <3>2
  <2>2. (phase = "ended") = Done(file)
    <3>1. phase = "ended" <=> Done(file)
          BY <2>1 DEF Placed, Done
    <3>2. (phase = "ended") \in BOOLEAN /\ Done(file) \in BOOLEAN
          BY DEF Done
    <3> QED BY <3>1, <3>2
  <2>3. /\ phase # "ended" => step \in 1 .. Len(Tests) + 1 /\ failedTests < step
        /\ faults \in 0 .. MaxFaults /\ token \in {"none", "good", "undefined"}
        /\ \A call \in late : call[1] <= file
        /\ pending \subseteq Records
        BY DEF Placed
  <2> QED BY <2>1, <2>2, <2>3, Zenon DEF TypeOK
<1> QED BY <1>1, PlacedInvariant, PTL
-----------------------------------------------------------------------------
(* how far a run has come *)

PhaseRank ==
  CASE phase = "token" -> 0 [] phase = "idle" -> 1 [] phase = "waiting" -> 2 [] phase = "ended" -> 3

\* The file, in it the test, and of that the phase: the first of them that changes grows.
MochaGoesOn ==
  \/ file' > file
  \/ file' = file /\ step' > step
  \/ file' = file /\ step' = step /\ PhaseRank' > PhaseRank

\* A call that mocha has given up, or a record of a slow workflow, is waited for no more.
OneArrives ==
  /\ UNCHANGED <<file, step, phase>>
  /\ \/ \E call \in late : late' = late \ {call} /\ pending' = pending
     \/ \E r \in pending : pending' = pending \ {r} /\ late' = late

\* Every step is one of mocha to a later phase, test or file, or the arrival of one late
\* thing, which never brings mocha back to a test it has left nor keeps it at one: with the
\* limits of ProbeTypeCorrect on files, tests and faults a run cannot go on for ever.
THEOREM MochaMovesOn == Spec => [][MochaGoesOn \/ OneArrives]_vars
<1>1. ASSUME Placed, Next, vars' # vars
      PROVE  MochaGoesOn \/ OneArrives
  <2>t. file \in Nat /\ step \in Nat
        BY <1>1 DEF Placed
  <2>1. CASE SkipFile \/ TokenFails \/ FinishFile
    <3>1. file' = file + 1
          BY <2>1 DEF SkipFile, TokenFails, FinishFile, NextFile
    <3> QED BY <2>t, <3>1 DEF MochaGoesOn
  <2>2. CASE TokenFetched \/ TokenRefused
    <3>1. file' = file /\ step' = step /\ phase = "token" /\ phase' = "idle"
          BY <2>2 DEF TokenFetched, TokenRefused, FetchToken
    <3> QED BY <3>1 DEF MochaGoesOn, PhaseRank
  <2>3. CASE Call
    <3>1. file' = file /\ step' = step /\ phase = "idle" /\ phase' = "waiting"
          BY <2>3 DEF Call
    <3> QED BY <3>1 DEF MochaGoesOn, PhaseRank
  <2>4. CASE RunCheck \/ TestThrows \/ Answer \/ OtherBody \/ Refused \/ AnswerLost \/ TimedOut \/ SlowWorkflow
    <3>1. file' = file /\ step' = step + 1
          BY <2>4 DEF RunCheck, TestThrows, Answer, OtherBody, Refused, AnswerLost, TimedOut, SlowWorkflow, Verdict
    <3> QED BY <2>t, <3>1 DEF MochaGoesOn
  <2>5. CASE LateAnswer
        BY <2>5 DEF LateAnswer, OneArrives
  <2>6. CASE WorkflowEnds
        BY <2>6 DEF WorkflowEnds, OneArrives
  <2> QED BY <1>1, <2>1, <2>2, <2>3, <2>4, <2>5, <2>6 DEF Next, Mocha, Ended
<1>2. Placed /\ [Next]_vars => [MochaGoesOn \/ OneArrives]_vars
      BY <1>1
<1> QED BY <1>2, PlacedAtFirst, StepPlaced, PTL DEF Spec

-----------------------------------------------------------------------------
(* what a file leaves behind *)

\* Of S, what the file's cleanup deletes it has failed to delete or has still to delete.
Owed(S) ==
  \A r \in S \cap Cleaned :
    r \in undeleted \/ \E j \in step .. Len(Tests) : r \in Deleted(Tests[j])

\* That holds of what the file has created, and of all there is on the platform but for
\* what came by itself.
Cleaning ==
  /\ failedTests = 0 => undeleted = {}
  /\ Owed(mine)
  /\ phase # "ended" => Owed(stored \ arrived)

\* The inductive invariant of a run.
ProbeInv == Placed /\ Cleaning

\* The test at hand creates nothing that was deleted before, and the legal tag it
\* deletes is carried by no record that is still to be deleted.
LEMMA TestAtHand ==
  ASSUME Placed, phase \in {"idle", "waiting"}, step <= Len(Tests)
  PROVE  /\ step \in 1 .. Len(Tests) /\ Len(Tests) \in Nat
         /\ \A i \in 1 .. step : MayCreate(Current) \cap Deleted(Tests[i]) = {}
         /\ \A j \in step .. Len(Tests) : \A r \in Deleted(Tests[j]) \cap Records :
              TagOf(r) \notin Deleted(Current)
<1>1. file \in 1 .. 17 /\ step \in 1 .. Len(Tests) /\ Len(Tests) \in Nat
      BY TestsOrderly DEF Placed
<1>2. PICK D, B : Orderly(Tests, D, B)
      BY <1>1, TestsOrderly DEF Placed
<1>3. ASSUME NEW i \in 1 .. step
      PROVE  MayCreate(Current) \cap Deleted(Tests[i]) = {}
  <2>1. i \in 1 .. Len(Tests) /\ i <= step
        BY <1>1
  <2>2. Deleted(Tests[i]) \cap Barred(Tests[step]) = {}
        BY <1>1, <1>2, <2>1 DEF Orderly
  <2> QED BY <2>2 DEF Barred, Current
<1>4. ASSUME NEW j \in step .. Len(Tests), NEW r \in Deleted(Tests[j]) \cap Records
      PROVE  TagOf(r) \notin Deleted(Current)
  <2>1. j \in 1 .. Len(Tests) /\ step <= j
        BY <1>1
  <2>2. Deleted(Tests[step]) \cap Barred(Tests[j]) = {}
        BY <1>1, <1>2, <2>1 DEF Orderly
  <2>3. TagOf(r) \in Barred(Tests[j])
        BY DEF Barred
  <2> QED BY <2>2, <2>3 DEF Current
<1> QED BY <1>1, <1>3, <1>4

LEMMA CreatedMayBe == \A t : Created(t) \subseteq MayCreate(t)
<1> QED BY DEF Created, MayCreate, Storable

\* What the cleanup deletes, some test deletes.
LEMMA CleanedByATest ==
  ASSUME NEW r \in Cleaned
  PROVE  \E i \in 1 .. Len(Tests) : r \in Deleted(Tests[i])
<1> QED BY DEF Cleaned, Deleted

\* What becomes of a set in a step of mocha that ends a test: nothing, when the test has
\* failed or deletes nothing, or what the service does when it accepts the call.
Becomes(S, T, ok) ==
  \/ T = S /\ (ok => Deleted(Current) = {})
  \/ T = (S \cup Created(Current)) \ Deleted(Current)

\* A verdict keeps a set in order.
LEMMA VerdictOwes ==
  ASSUME Placed, phase \in {"idle", "waiting"}, step <= Len(Tests),
         NEW ok \in BOOLEAN, Verdict(ok), NEW S, NEW T, Owed(S), Becomes(S, T, ok)
  PROVE  \A r \in T \cap Cleaned :
           r \in undeleted' \/ \E j \in step + 1 .. Len(Tests) : r \in Deleted(Tests[j])
<1> SUFFICES ASSUME NEW r \in T \cap Cleaned
             PROVE  r \in undeleted' \/ \E j \in step + 1 .. Len(Tests) : r \in Deleted(Tests[j])
    OBVIOUS
<1>1. step \in 1 .. Len(Tests) /\ Len(Tests) \in Nat
      BY TestAtHand
<1>2. undeleted' = undeleted \cup IF ok THEN {} ELSE Deleted(Current)
      BY DEF Verdict
<1>3. CASE r \in S
  <2>1. CASE r \in undeleted
        BY <1>2, <2>1
  <2>2. CASE \E j \in step .. Len(Tests) : r \in Deleted(Tests[j])
    <3>1. PICK j \in step .. Len(Tests) : r \in Deleted(Tests[j])
          BY <2>2
    <3>2. CASE j = step
      <4>1. r \in Deleted(Current)
            BY <3>1, <3>2 DEF Current
      <4>2. ~ok
            BY <4>1 DEF Becomes
      <4> QED BY <1>2, <4>1, <4>2
    <3>3. CASE j # step
      <4>1. j \in step + 1 .. Len(Tests)
            BY <1>1, <3>3
      <4> QED BY <3>1, <4>1
    <3> QED BY <3>2, <3>3
  <2> QED BY <1>3, <2>1, <2>2 DEF Owed
<1>4. CASE r \notin S
  <2>1. r \in MayCreate(Current)
        BY <1>4, CreatedMayBe DEF Becomes
  <2>2. PICK i \in 1 .. Len(Tests) : r \in Deleted(Tests[i])
        BY CleanedByATest
  <2>3. i \notin 1 .. step
        BY <2>1, <2>2, TestAtHand
  <2>4. i \in step + 1 .. Len(Tests)
        BY <1>1, <2>3
  <2> QED BY <2>2, <2>4
<1> QED BY <1>3, <1>4

LEMMA VerdictCleans ==
  ASSUME ProbeInv, phase \in {"idle", "waiting"}, step <= Len(Tests),
         NEW ok \in BOOLEAN, Verdict(ok), UNCHANGED <<off, file>>,
         Becomes(mine, mine', ok), Becomes(stored \ arrived, stored' \ arrived', ok)
  PROVE  Cleaning'
<1>1. Tests' = Tests /\ Cleaned' = Cleaned /\ step' = step + 1
      BY DEF Tests, Cleaned, Verdict
<1>2. failedTests' = 0 => undeleted' = {}
  <2>1. failedTests \in Nat /\ failedTests' = failedTests + IF ok THEN 0 ELSE 1
        BY DEF Verdict, ProbeInv, Placed
  <2>2. undeleted' = undeleted \cup IF ok THEN {} ELSE Deleted(Current)
        BY DEF Verdict
  <2> QED BY <2>1, <2>2 DEF ProbeInv, Cleaning
<1>3. Owed(mine)'
      BY <1>1, VerdictOwes DEF ProbeInv, Cleaning, Owed
<1>4. Owed(stored \ arrived)'
  <2>1. Owed(stored \ arrived)
        BY DEF ProbeInv, Cleaning
  <2>2. \A r \in (stored' \ arrived') \cap Cleaned :
          r \in undeleted' \/ \E j \in step + 1 .. Len(Tests) : r \in Deleted(Tests[j])
        BY <2>1, VerdictOwes DEF ProbeInv
  <2> QED BY <1>1, <2>2 DEF Owed
<1> QED BY <1>2, <1>3, <1>4 DEF Cleaning

\* At the first test of a file all the cleanup deletes is still to be deleted.
LEMMA FirstOwes ==
  ASSUME step = 1, NEW S
  PROVE  Owed(S)
<1> QED BY CleanedByATest DEF Owed

LEMMA StepCleans == ProbeInv /\ [Next]_vars => Cleaning'
<1> SUFFICES ASSUME ProbeInv, [Next]_vars
             PROVE  Cleaning'
    OBVIOUS
<1>1. CASE SkipFile \/ TokenFails \/ FinishFile
  <2>1. step' = 1 /\ mine' = {} /\ undeleted' = {}
        BY <1>1 DEF SkipFile, TokenFails, FinishFile, NextFile
  <2>2. \A r \in Cleaned' : \E j \in 1 .. Len(Tests') : r \in Deleted(Tests'[j])
        BY DEF Cleaned, Deleted
  <2> QED BY <2>1, <2>2 DEF Cleaning, Owed
<1>2. CASE TokenFetched \/ TokenRefused \/ Call \/ LateAnswer \/ WorkflowEnds \/ Ended \/ UNCHANGED vars
  <2>1. UNCHANGED <<off, file, step, mine, undeleted, failedTests>>
        BY <1>2 DEF TokenFetched, TokenRefused, FetchToken, Call, LateAnswer, WorkflowEnds, Ended, vars, fileVars
  <2>2. Tests' = Tests /\ Cleaned' = Cleaned
        BY <2>1 DEF Tests, Cleaned
  <2>3. phase' = "ended" <=> phase = "ended"
        BY <1>2 DEF TokenFetched, TokenRefused, FetchToken, Call, LateAnswer, WorkflowEnds, Ended, vars
  <2>4. stored' \ arrived' \subseteq stored \ arrived
    <3>1. CASE LateAnswer
          BY <3>1 DEF LateAnswer
    <3>2. CASE WorkflowEnds
          BY <3>2 DEF WorkflowEnds
    <3>3. CASE ~LateAnswer /\ ~WorkflowEnds
          BY <1>2, <3>3 DEF TokenFetched, TokenRefused, FetchToken, Call, Ended, vars, platform
    <3> QED BY <3>1, <3>2, <3>3
  <2> QED BY <2>1, <2>2, <2>3, <2>4 DEF ProbeInv, Cleaning, Owed
<1>3. CASE RunCheck \/ TestThrows
  <2>1. /\ phase = "idle" /\ step <= Len(Tests) /\ Current.do \in Local \cup {"url", "throws"}
        /\ UNCHANGED <<off, file, mine, stored, arrived>>
        BY <1>3 DEF RunCheck, TestThrows, Throws, platform
  <2>2. Deleted(Current) = {}
        BY <2>1 DEF Deleted, Deletions, Local
  <2>3. \E ok \in BOOLEAN : Verdict(ok)
    <3>1. Holds(Current) \in BOOLEAN
          BY DEF Holds
    <3> QED BY <1>3, <3>1 DEF RunCheck, TestThrows
  <2>4. \A ok : Becomes(mine, mine', ok) /\ Becomes(stored \ arrived, stored' \ arrived', ok)
        BY <2>1, <2>2 DEF Becomes
  <2> QED BY <2>1, <2>3, <2>4, VerdictCleans
<1>4. CASE Answer \/ OtherBody \/ Refused \/ AnswerLost \/ TimedOut \/ SlowWorkflow
  <2>1. phase = "waiting" /\ step <= Len(Tests) /\ UNCHANGED <<off, file>>
        BY <1>4 DEF Answer, OtherBody, Refused, AnswerLost, TimedOut, SlowWorkflow, ProbeInv, Placed
  <2>c. Carry(Current) => /\ mine' = (mine \cup Created(Current)) \ Deleted(Current)
                          /\ stored' \ arrived' = ((stored \ arrived) \cup Created(Current)) \ Deleted(Current)
        BY DEF Carry
  <2>2. \E ok \in BOOLEAN :
          Verdict(ok) /\ Becomes(mine, mine', ok) /\ Becomes(stored \ arrived, stored' \ arrived', ok)
    <3>1. CASE Answer
      <4>1. CASE Accepts(Current)
            BY <2>c, <3>1, <4>1 DEF Answer, Becomes
      <4>2. CASE ~ Accepts(Current)
        <5>1. Accepts(Current) \in BOOLEAN
              BY DEF Accepts
        <5>2. Verdict(Accepts(Current)) /\ UNCHANGED <<mine, stored, arrived>>
              BY <3>1, <4>2 DEF Answer
        <5> QED BY <4>2, <5>1, <5>2 DEF Becomes
      <4> QED BY <4>1, <4>2
    <3>2. CASE OtherBody \/ AnswerLost
          BY <2>c, <3>2 DEF OtherBody, AnswerLost, Becomes
    <3>3. CASE Refused \/ TimedOut
          BY <3>3 DEF Refused, TimedOut, Becomes, platform
    <3>4. CASE SlowWorkflow
      <4>1. Deleted(Current) = {}
            BY <3>4 DEF SlowWorkflow, Deleted, Deletions
      <4> QED BY <3>4, <4>1 DEF SlowWorkflow, Becomes
    <3> QED BY <1>4, <3>1, <3>2, <3>3, <3>4
  <2> QED BY <2>1, <2>2, VerdictCleans
<1> QED BY <1>1, <1>2, <1>3, <1>4 DEF Next, Mocha

LEMMA ProbeInvariant == Spec => []ProbeInv
<1>1. Init => Cleaning
      BY FirstOwes DEF Init, Cleaning
<1>2. ProbeInv /\ [Next]_vars => ProbeInv'
      BY StepCleans, StepPlaced DEF ProbeInv
<1>3. Init => ProbeInv
      BY <1>1, PlacedAtFirst DEF ProbeInv
<1> QED BY <1>2, <1>3, PTL DEF Spec

\* When a file reports success, nothing its cleanup deletes is on the platform, left by
\* whomever, but for what came by itself after its deletion: for any number of faults.
THEOREM SuccessIsCleanButForLateThings == Spec => []OnlyLateThingsStay
<1>1. ProbeInv => OnlyLateThingsStay
  <2> SUFFICES ASSUME ProbeInv, phase = "idle", step > Len(Tests), failedTests = 0
               PROVE  stored \cap Cleaned \subseteq arrived
      BY DEF OnlyLateThingsStay
  <2>1. undeleted = {} /\ Owed(stored \ arrived)
        BY DEF ProbeInv, Cleaning
  <2>2. step \in Nat /\ Len(Tests) \in Nat
        BY TestsOrderly DEF ProbeInv, Placed
  <2>3. step .. Len(Tests) = {}
        BY <2>2
  <2> QED BY <2>1, <2>3 DEF Owed
<1> QED BY <1>1, ProbeInvariant, PTL

\* A legal tag goes only after the records that carry it, but for those the file has
\* failed to delete: in every file, for any number of failing calls.
THEOREM RecordsGoBeforeTags == Spec => CleanupOrder
<1>1. ASSUME ProbeInv, [Next]_vars, NEW t \in {"checkTag", "probeTag"}, t \in mine \ mine', file' = file,
             NEW r \in mine \cap Records \cap Cleaned, TagOf(r) = t
      PROVE  r \in undeleted
  <2>1. file \in Nat /\ file + 1 # file
        BY <1>1 DEF ProbeInv, Placed
  <2>2. phase = "waiting" /\ t \in Deleted(Current)
    <3>1. Answer \/ OtherBody \/ AnswerLost
          BY <1>1, <2>1 DEF Next, Mocha, SkipFile, NextFile, TokenFetched, TokenRefused, FetchToken, TokenFails,
             RunCheck, TestThrows, Call, Refused, TimedOut, SlowWorkflow, FinishFile, LateAnswer,
             WorkflowEnds, Ended, vars, fileVars
    <3>2. mine' = mine \/ mine' = (mine \cup Created(Current)) \ Deleted(Current)
          BY <3>1 DEF Answer, OtherBody, AnswerLost, Carry
    <3> QED BY <1>1, <3>1, <3>2 DEF Answer, OtherBody, AnswerLost
  <2>3. step <= Len(Tests)
        BY <1>1, <2>2 DEF ProbeInv, Placed
  <2>4. ~ \E j \in step .. Len(Tests) : r \in Deleted(Tests[j])
        BY <1>1, <2>2, <2>3, TestAtHand DEF ProbeInv
  <2> QED BY <1>1, <2>4 DEF ProbeInv, Cleaning, Owed
<1>2. ProbeInv /\ [Next]_vars =>
        [\A t \in {"checkTag", "probeTag"} :
           t \in mine \ mine' /\ file' = file =>
             \A r \in mine \cap Records \cap Cleaned : TagOf(r) = t => r \in undeleted]_vars
      BY <1>1
<1> QED BY <1>2, ProbeInvariant, PTL DEF Spec, CleanupOrder

-----------------------------------------------------------------------------
(* tests that pass *)

\* All there is to a test.
Is(t, do, res, needs, uses, gives, body) ==
  /\ DOMAIN t = Fields
  /\ t.do = do /\ t.res = res /\ t.needs = needs /\ t.uses = uses /\ t.gives = gives /\ t.body = body

LEMMA TestIs == Is(Test, "read", {}, {}, None, None, None)
<1> QED BY DEF Is, Test, Fields

LEMMA KindsOfTests ==
  /\ Is(Read, "read", {}, {}, None, None, None) /\ Is(Same, "same", {}, {}, None, None, None)
  /\ \A b : Is(Fetch(b), "read", {}, {}, None, None, b) /\ Is(Check(b), "check", {}, {}, None, None, b)
  /\ \A r : /\ Is(Get(r), "get", {r}, {}, None, None, None) /\ Is(Absent(r), "absent", {r}, {}, None, None, None)
            /\ Is(Make(r), "make", {r}, {}, None, None, None) /\ Is(New(r), "new", {r}, {}, None, None, None)
            /\ Is(Delete(r), "delete", {r}, {}, None, None, None) /\ Is(Remove(r), "remove", {r}, {}, None, None, None)
  /\ \A r, b : Is(List(r, b), "get", {r}, {}, None, None, b)
  /\ \A rs, id : Is(Run(rs, id), "run", rs, {}, None, id, None)
  /\ \A rs : Is(Search(rs), "search", rs, {}, None, None, None)
<1>1. \A r : Is(Get(r), "get", {r}, {}, None, None, None)
      BY TestIs DEF Is, Fields, Get
<1>2. \A r, b : Is(List(r, b), "get", {r}, {}, None, None, b)
      BY <1>1 DEF Is, Fields, List
<1> QED BY TestIs, <1>1, <1>2
        DEF Is, Fields, Read, Same, Fetch, Check, Absent, Make, New, Delete, Remove, Run, Search

LEMMA ModifiedKinds ==
  ASSUME NEW t, NEW do, NEW res, NEW needs, NEW uses, NEW gives, NEW body,
         Is(t, do, res, needs, uses, gives, body), NEW x
  PROVE  /\ Is(Through(t, x), do, res, needs, x, gives, body)
         /\ Is(For(t, x), do, res, needs, uses, x, body)
         /\ Is(With(t, x), do, res, needs \cup {x}, uses, gives, body)
         /\ Is(ByUrl(t, x), "url", res, needs, x, gives, body)
<1> QED BY DEF Is, Fields, Through, For, With, ByUrl

\* What is known of a file's variables and of the platform: what is stored, what is not,
\* which ids the file has, and what its variable data holds.
Ctx(has, lacks, got, body) == [has |-> has, lacks |-> lacks, got |-> got, body |-> body]

\* The test passes wherever the context holds.
Ready(t, c) ==
  /\ t.do = "check" => t.body = c.body
  /\ t.do = "same" => {"recordId", "foundId"} \subseteq c.got
  /\ t.do \in Local => t.gives = None /\ t.body \in {None, c.body}
  /\ t.do \notin Local =>
       /\ t.uses \in c.got \cup {None}
       /\ t.do # "throws" /\ (t.do = "url" => t.uses \in c.got)
       /\ t.needs \subseteq c.has
       /\ t.do \in {"get", "delete"} => t.res \subseteq c.has
       /\ t.do \in {"absent", "new"} => t.res \subseteq c.lacks
       /\ t.do = "search" => t.res \cap c.has # {}
       /\ t.do = "run" => \A r \in t.res : TagOf(r) \in c.has

\* The test passes wherever c holds, and d holds after it.
Leads(t, c, d) ==
  /\ Ready(t, c)
  /\ d.has \subseteq (c.has \cup MayCreate(t)) \ Deleted(t)
  /\ d.lacks \subseteq (c.lacks \cup Deleted(t)) \ MayCreate(t)
  /\ d.got \subseteq c.got \cup ({t.gives} \ {None})
  /\ d.body = IF t.body = None THEN c.body ELSE t.body

\* The tests of a sequence pass one after the other, from c to d.
Passes(s, c, d) ==
  /\ \E T : s \in Seq(T)
  /\ \E C : /\ C[1] = c /\ C[Len(s) + 1] = d
            /\ \A i \in 1 .. Len(s) : Leads(s[i], C[i], C[i + 1])

LEMMA PassesEmpty == \A c : Passes(<<>>, c, c)
<1> TAKE c
<1> DEFINE C == [i \in 1 .. 1 |-> c]
<1>1. <<>> \in Seq({}) /\ Len(<<>>) = 0
      OBVIOUS
<1>2. C[1] = c /\ C[Len(<<>>) + 1] = c
      OBVIOUS
<1>3. \A i \in 1 .. Len(<<>>) : Leads(<<>>[i], C[i], C[i + 1])
      OBVIOUS
<1> HIDE DEF C
<1> QED BY <1>1, <1>2, <1>3, Zenon DEF Passes

LEMMA PassesConcat ==
  ASSUME NEW a, NEW b, NEW c, NEW d, NEW e, Passes(a, c, d), Passes(b, d, e)
  PROVE  Passes(a \o b, c, e)
<1> DEFINE s == a \o b
           m == Len(a)
           n == Len(b)
<1>1. /\ \E T : s \in Seq(T)
      /\ Len(s) = m + n /\ m \in Nat /\ n \in Nat
      /\ \A i \in 1 .. m + n : s[i] = IF i <= m THEN a[i] ELSE b[i - m]
  <2>1. PICK T1 : a \in Seq(T1)
        BY DEF Passes
  <2>2. PICK T2 : b \in Seq(T2)
        BY DEF Passes
  <2>3. s \in Seq(T1 \cup T2)
        BY <2>1, <2>2
  <2> QED BY <2>1, <2>2, <2>3
<1>2. PICK C : C[1] = c /\ C[m + 1] = d /\ \A i \in 1 .. m : Leads(a[i], C[i], C[i + 1])
      BY DEF Passes
<1>3. PICK D : D[1] = d /\ D[n + 1] = e /\ \A i \in 1 .. n : Leads(b[i], D[i], D[i + 1])
      BY DEF Passes
<1> DEFINE E == [i \in 1 .. m + n + 1 |-> IF i <= m THEN C[i] ELSE D[i - m]]
<1> HIDE DEF s, m, n
<1>4. E[m + 1] = d /\ E[1] = c /\ E[m + n + 1] = e
      BY <1>1, <1>2, <1>3
<1>5. ASSUME NEW i \in 1 .. m + n
      PROVE  Leads(s[i], E[i], E[i + 1])
  <2>1. CASE i < m
    <3>1. i \in 1 .. m /\ s[i] = a[i] /\ E[i] = C[i] /\ E[i + 1] = C[i + 1]
          BY <1>1, <2>1
    <3> QED BY <1>2, <3>1
  <2>2. CASE i = m
    <3>1. i \in 1 .. m /\ s[i] = a[i]
          BY <1>1, <2>2
    <3>2. E[i] = C[i]
          BY <1>1, <2>2
    <3>3. E[i + 1] = C[i + 1]
          BY <1>2, <1>4, <2>2
    <3> QED BY <1>2, <3>1, <3>2, <3>3
  <2>3. CASE i > m
    <3>1. i - m \in 1 .. n /\ (i - m) + 1 = (i + 1) - m
          BY <1>1, <2>3
    <3>2. s[i] = b[i - m] /\ E[i] = D[i - m] /\ E[i + 1] = D[(i - m) + 1]
          BY <1>1, <2>3, <3>1
    <3> QED BY <1>3, <3>1, <3>2
  <2> QED BY <1>1, <2>1, <2>2, <2>3
<1> HIDE DEF E
<1>6. Passes(s, c, e)
      BY <1>1, <1>4, <1>5 DEF Passes
<1> QED BY <1>6 DEF s

LEMMA PassesOne == \A t, c, d : Leads(t, c, d) => Passes(<<t>>, c, d)
<1> SUFFICES ASSUME NEW t, NEW c, NEW d, Leads(t, c, d)
             PROVE  Passes(<<t>>, c, d)
    OBVIOUS
<1>1. <<t>> \in Seq({t}) /\ Len(<<t>>) = 1 /\ <<t>>[1] = t
      OBVIOUS
<1> DEFINE C == [i \in 1 .. 2 |-> IF i = 1 THEN c ELSE d]
<1>2. C[1] = c /\ C[Len(<<t>>) + 1] = d
      BY <1>1
<1>3. \A i \in 1 .. Len(<<t>>) : Leads(<<t>>[i], C[i], C[i + 1])
      BY <1>1
<1> HIDE DEF C
<1> QED BY <1>1, <1>2, <1>3, Zenon DEF Passes

LEMMA PassesTuples ==
  /\ \A s, t, c, d, e : Leads(s, c, d) /\ Leads(t, d, e) => Passes(<<s, t>>, c, e)
  /\ \A s, t, u, c, d, e, f : Leads(s, c, d) /\ Leads(t, d, e) /\ Leads(u, e, f) => Passes(<<s, t, u>>, c, f)
  /\ \A s, t, u, v, c, d, e, f, g :
       Leads(s, c, d) /\ Leads(t, d, e) /\ Leads(u, e, f) /\ Leads(v, f, g) => Passes(<<s, t, u, v>>, c, g)
<1>1. ASSUME NEW s, NEW t, NEW c, NEW d, NEW e,
             Leads(s, c, d), Leads(t, d, e)
      PROVE  Passes(<<s, t>>, c, e)
  <2> DEFINE q == <<s, t>>
             C == [i \in 1 .. 3 |-> IF i = 1 THEN c ELSE IF i = 2 THEN d ELSE e]
  <2>1. q \in Seq({s, t}) /\ Len(q) = 2
        OBVIOUS
  <2>2. \A i \in 1 .. 2 : Leads(q[i], C[i], C[i + 1])
        BY <1>1
  <2>3. C[1] = c /\ C[2 + 1] = e
        OBVIOUS
  <2> HIDE DEF C, q
  <2>4. \A i \in 1 .. Len(q) : Leads(q[i], C[i], C[i + 1])
        BY <2>1, <2>2
  <2>5. Passes(q, c, e)
        BY <2>1, <2>3, <2>4, Zenon DEF Passes
  <2> QED BY <2>5 DEF q
<1>2. ASSUME NEW s, NEW t, NEW u, NEW c, NEW d, NEW e, NEW f,
             Leads(s, c, d), Leads(t, d, e), Leads(u, e, f)
      PROVE  Passes(<<s, t, u>>, c, f)
  <2> DEFINE q == <<s, t, u>>
             C == [i \in 1 .. 4 |-> IF i = 1 THEN c ELSE IF i = 2 THEN d ELSE IF i = 3 THEN e ELSE f]
  <2>1. q \in Seq({s, t, u}) /\ Len(q) = 3
        OBVIOUS
  <2>2. \A i \in 1 .. 3 : Leads(q[i], C[i], C[i + 1])
        BY <1>2
  <2>3. C[1] = c /\ C[3 + 1] = f
        OBVIOUS
  <2> HIDE DEF C, q
  <2>4. \A i \in 1 .. Len(q) : Leads(q[i], C[i], C[i + 1])
        BY <2>1, <2>2
  <2>5. Passes(q, c, f)
        BY <2>1, <2>3, <2>4, Zenon DEF Passes
  <2> QED BY <2>5 DEF q
<1>3. ASSUME NEW s, NEW t, NEW u, NEW v, NEW c, NEW d, NEW e, NEW f, NEW g,
             Leads(s, c, d), Leads(t, d, e), Leads(u, e, f), Leads(v, f, g)
      PROVE  Passes(<<s, t, u, v>>, c, g)
  <2> DEFINE q == <<s, t, u, v>>
             C == [i \in 1 .. 5 |-> IF i = 1 THEN c ELSE IF i = 2 THEN d ELSE IF i = 3 THEN e
                              ELSE IF i = 4 THEN f ELSE g]
  <2>1. q \in Seq({s, t, u, v}) /\ Len(q) = 4
        OBVIOUS
  <2>2. \A i \in 1 .. 4 : Leads(q[i], C[i], C[i + 1])
        BY <1>3
  <2>3. C[1] = c /\ C[4 + 1] = g
        OBVIOUS
  <2> HIDE DEF C, q
  <2>4. \A i \in 1 .. Len(q) : Leads(q[i], C[i], C[i + 1])
        BY <2>1, <2>2
  <2>5. Passes(q, c, g)
        BY <2>1, <2>3, <2>4, Zenon DEF Passes
  <2> QED BY <2>5 DEF q
<1> QED BY <1>1, <1>2, <1>3

\* A sequence is told by its elements.
LEMMA Joined ==
  ASSUME NEW T, NEW a \in Seq(T), NEW b \in Seq(T), NEW q \in Seq(T),
         Len(q) = Len(a) + Len(b),
         \A i \in 1 .. Len(a) : q[i] = a[i],
         \A i \in 1 .. Len(b) : q[Len(a) + i] = b[i]
  PROVE  q = a \o b
<1> DEFINE p == a \o b
<1>1. p \in Seq(T) /\ Len(p) = Len(q)
      OBVIOUS
<1>2. \A i \in 1 .. Len(q) : p[i] = q[i]
  <2> SUFFICES ASSUME NEW i \in 1 .. Len(q)
               PROVE  p[i] = q[i]
      OBVIOUS
  <2>1. CASE i <= Len(a)
        BY <2>1
  <2>2. CASE i > Len(a)
    <3>1. i - Len(a) \in 1 .. Len(b) /\ Len(a) + (i - Len(a)) = i
          BY <2>2
    <3> QED BY <2>2, <3>1
  <2> QED BY <2>1, <2>2
<1> HIDE DEF p
<1>3. p = [i \in 1 .. Len(p) |-> p[i]] /\ q = [i \in 1 .. Len(q) |-> q[i]]
      BY <1>1
<1>4. p = q
      BY ONLY <1>1, <1>2, <1>3
<1> QED BY <1>4 DEF p

\* Sequences longer than four tests, in two parts.
LEMMA PassesFive ==
  ASSUME NEW s, NEW t, NEW u, NEW v, NEW w, NEW c, NEW d, NEW e,
         Passes(<<s, t>>, c, d), Passes(<<u, v, w>>, d, e)
  PROVE  Passes(<<s, t, u, v, w>>, c, e)
<1> DEFINE T == {s, t, u, v, w}
           q == <<s, t, u, v, w>>
           a == <<s, t>>
           b == <<u, v, w>>
<1>1. q \in Seq(T) /\ a \in Seq(T) /\ b \in Seq(T) /\ Len(q) = 5 /\ Len(a) = 2 /\ Len(b) = 3
      OBVIOUS
<1>2. /\ \A i \in 1 .. 2 : q[i] = a[i]
      /\ \A i \in 1 .. 3 : q[2 + i] = b[i]
      OBVIOUS
<1> HIDE DEF q, a, b, T
<1>3. /\ Len(q) = Len(a) + Len(b)
      /\ \A i \in 1 .. Len(a) : q[i] = a[i]
      /\ \A i \in 1 .. Len(b) : q[Len(a) + i] = b[i]
      BY <1>1, <1>2
<1>4. q = a \o b
      BY ONLY <1>1, <1>3, Joined
<1>5. Passes(q, c, e)
      BY <1>4, PassesConcat DEF a, b
<1> QED BY <1>5 DEF q

LEMMA PassesSix ==
  ASSUME NEW s, NEW t, NEW u, NEW v, NEW w, NEW x, NEW c, NEW d, NEW e,
         Passes(<<s, t, u>>, c, d), Passes(<<v, w, x>>, d, e)
  PROVE  Passes(<<s, t, u, v, w, x>>, c, e)
<1> DEFINE T == {s, t, u, v, w, x}
           q == <<s, t, u, v, w, x>>
           a == <<s, t, u>>
           b == <<v, w, x>>
<1>1. q \in Seq(T) /\ a \in Seq(T) /\ b \in Seq(T) /\ Len(q) = 6 /\ Len(a) = 3 /\ Len(b) = 3
      OBVIOUS
<1>2. /\ \A i \in 1 .. 3 : q[i] = a[i]
      /\ \A i \in 1 .. 3 : q[3 + i] = b[i]
      OBVIOUS
<1> HIDE DEF q, a, b, T
<1>3. /\ Len(q) = Len(a) + Len(b)
      /\ \A i \in 1 .. Len(a) : q[i] = a[i]
      /\ \A i \in 1 .. Len(b) : q[Len(a) + i] = b[i]
      BY <1>1, <1>2
<1>4. q = a \o b
      BY ONLY <1>1, <1>3, Joined
<1>5. Passes(q, c, e)
      BY <1>4, PassesConcat DEF a, b
<1> QED BY <1>5 DEF q

LEMMA PassesSeven ==
  ASSUME NEW s, NEW t, NEW u, NEW v, NEW w, NEW x, NEW y, NEW c, NEW d, NEW e,
         Passes(<<s, t, u, v>>, c, d), Passes(<<w, x, y>>, d, e)
  PROVE  Passes(<<s, t, u, v, w, x, y>>, c, e)
<1> DEFINE T == {s, t, u, v, w, x, y}
           q == <<s, t, u, v, w, x, y>>
           a == <<s, t, u, v>>
           b == <<w, x, y>>
<1>1. q \in Seq(T) /\ a \in Seq(T) /\ b \in Seq(T) /\ Len(q) = 7 /\ Len(a) = 4 /\ Len(b) = 3
      OBVIOUS
<1>2. /\ \A i \in 1 .. 4 : q[i] = a[i]
      /\ \A i \in 1 .. 3 : q[4 + i] = b[i]
      OBVIOUS
<1> HIDE DEF q, a, b, T
<1>3. /\ Len(q) = Len(a) + Len(b)
      /\ \A i \in 1 .. Len(a) : q[i] = a[i]
      /\ \A i \in 1 .. Len(b) : q[Len(a) + i] = b[i]
      BY <1>1, <1>2
<1>4. q = a \o b
      BY ONLY <1>1, <1>3, Joined
<1>5. Passes(q, c, e)
      BY <1>4, PassesConcat DEF a, b
<1> QED BY <1>5 DEF q

LEMMA PassesEight ==
  ASSUME NEW s, NEW t, NEW u, NEW v, NEW w, NEW x, NEW y, NEW z, NEW c, NEW d, NEW e,
         Passes(<<s, t, u, v>>, c, d), Passes(<<w, x, y, z>>, d, e)
  PROVE  Passes(<<s, t, u, v, w, x, y, z>>, c, e)
<1> DEFINE T == {s, t, u, v, w, x, y, z}
           q == <<s, t, u, v, w, x, y, z>>
           a == <<s, t, u, v>>
           b == <<w, x, y, z>>
<1>1. q \in Seq(T) /\ a \in Seq(T) /\ b \in Seq(T) /\ Len(q) = 8 /\ Len(a) = 4 /\ Len(b) = 4
      OBVIOUS
<1>2. /\ \A i \in 1 .. 4 : q[i] = a[i]
      /\ \A i \in 1 .. 4 : q[4 + i] = b[i]
      OBVIOUS
<1> HIDE DEF q, a, b, T
<1>3. /\ Len(q) = Len(a) + Len(b)
      /\ \A i \in 1 .. Len(a) : q[i] = a[i]
      /\ \A i \in 1 .. Len(b) : q[Len(a) + i] = b[i]
      BY <1>1, <1>2
<1>4. q = a \o b
      BY ONLY <1>1, <1>3, Joined
<1>5. Passes(q, c, e)
      BY <1>4, PassesConcat DEF a, b
<1> QED BY <1>5 DEF q

\* What the tests that need no id do, one by one.
LEMMA PlainLeads ==
  ASSUME NEW H, NEW N, NEW G, NEW x
  PROVE  /\ \A r \in H : Leads(Get(r), Ctx(H, N, G, x), Ctx(H, N, G, x))
         /\ \A r \in N : Leads(Absent(r), Ctx(H, N, G, x), Ctx(H, N, G, x))
         /\ \A r \in H : \A b : b # None => Leads(List(r, b), Ctx(H, N, G, x), Ctx(H, N, G, b))
         /\ \A r : Leads(Make(r), Ctx(H, N, G, x), Ctx(H \cup {r}, N \ {r}, G, x))
         /\ \A r \in N : Leads(New(r), Ctx(H, N, G, x), Ctx(H \cup {r}, N \ {r}, G, x))
         /\ \A r \in H : Leads(Delete(r), Ctx(H, N, G, x), Ctx(H \ {r}, N \cup {r}, G, x))
         /\ \A r : Leads(Remove(r), Ctx(H, N, G, x), Ctx(H \ {r}, N \cup {r}, G, x))
         /\ Leads(Check(x), Ctx(H, N, G, x), Ctx(H, N, G, x))
<1> USE KindsOfTests DEF Is, Leads, Ready, Ctx, Local, MayCreate, Deleted, Deletions
<1>1. \A r \in H : Leads(Get(r), Ctx(H, N, G, x), Ctx(H, N, G, x))
      OBVIOUS
<1>2. \A r \in N : Leads(Absent(r), Ctx(H, N, G, x), Ctx(H, N, G, x))
      OBVIOUS
<1>3. \A r \in H : \A b : b # None => Leads(List(r, b), Ctx(H, N, G, x), Ctx(H, N, G, b))
      OBVIOUS
<1>4. \A r : Leads(Make(r), Ctx(H, N, G, x), Ctx(H \cup {r}, N \ {r}, G, x))
      OBVIOUS
<1>5. \A r \in N : Leads(New(r), Ctx(H, N, G, x), Ctx(H \cup {r}, N \ {r}, G, x))
      OBVIOUS
<1>6. \A r \in H : Leads(Delete(r), Ctx(H, N, G, x), Ctx(H \ {r}, N \cup {r}, G, x))
      BY SMTT(30)
<1>7. \A r : Leads(Remove(r), Ctx(H, N, G, x), Ctx(H \ {r}, N \cup {r}, G, x))
      OBVIOUS
<1>8. Leads(Check(x), Ctx(H, N, G, x), Ctx(H, N, G, x))
      OBVIOUS
<1> HIDE KindsOfTests DEF Is, Leads, Ready, Ctx, Local, MayCreate, Deleted, Deletions
<1> QED BY <1>1, <1>2, <1>3, <1>4, <1>5, <1>6, <1>7, <1>8

\* What the tests with an id do, of those that keep what must be fresh.
LEMMA IdLeads ==
  ASSUME NEW H, NEW N, NEW G, NEW x
  PROVE  /\ \A id : id # None => Leads(For(Read, id), Ctx(H, N, G, x), Ctx(H, N, G \cup {id}, x))
         /\ \A id \in G : Leads(ByUrl(Test, id), Ctx(H, N, G, x), Ctx(H, N, G, x))
         /\ \A id \in G : \A r \in H :
              /\ Leads(Through(Get(r), id), Ctx(H, N, G, x), Ctx(H, N, G, x))
              /\ Leads(Through(With(Read, r), id), Ctx(H, N, G, x), Ctx(H, N, G, x))
              /\ Leads(Through(Delete(r), id), Ctx(H, N, G, x), Ctx(H \ {r}, N, G, x))
              /\ \A new : new # None =>
                   Leads(For(Through(Get(r), id), new), Ctx(H, N, G, x), Ctx(H, N, G \cup {new}, x))
         /\ \A rs : rs \cap H # {} => \A id : id # None =>
              Leads(For(Search(rs), id), Ctx(H, N, G, x), Ctx(H, N, G \cup {id}, x))
         /\ \A r, id : r \notin N /\ id # None => \A t \in H :
              /\ Leads(With(For(Make(r), id), t), Ctx(H, N, G, x), Ctx(H \cup {r}, N, G \cup {id}, x))
              /\ \A old \in G : Leads(Through(With(For(Make(r), id), t), old),
                                      Ctx(H, N, G, x), Ctx(H \cup {r}, N, G \cup {id}, x))
         /\ \A rs, id : rs \cap N = {} /\ id # None /\ (\A r \in rs : TagOf(r) \in H) =>
              \A w \in H : Leads(With(Run(rs, id), w), Ctx(H, N, G, x), Ctx(H \cup rs, N, G \cup {id}, x))
<1> USE DEF Leads, Ready, Ctx, Local, MayCreate, Deleted, Deletions
<1>1. \A id : id # None => Leads(For(Read, id), Ctx(H, N, G, x), Ctx(H, N, G \cup {id}, x))
  <2>1. \A id : Is(For(Read, id), "read", {}, {}, None, id, None)
        BY KindsOfTests, ModifiedKinds
  <2> QED BY <2>1 DEF Is
<1>2. \A id \in G : Leads(ByUrl(Test, id), Ctx(H, N, G, x), Ctx(H, N, G, x))
  <2>1. \A id : Is(ByUrl(Test, id), "url", {}, {}, id, None, None)
        BY TestIs, ModifiedKinds
  <2> QED BY <2>1 DEF Is
<1>3. ASSUME NEW id \in G, NEW r \in H
      PROVE  /\ Leads(Through(Get(r), id), Ctx(H, N, G, x), Ctx(H, N, G, x))
             /\ Leads(Through(With(Read, r), id), Ctx(H, N, G, x), Ctx(H, N, G, x))
             /\ Leads(Through(Delete(r), id), Ctx(H, N, G, x), Ctx(H \ {r}, N, G, x))
             /\ \A new : new # None =>
                  Leads(For(Through(Get(r), id), new), Ctx(H, N, G, x), Ctx(H, N, G \cup {new}, x))
  <2>1. /\ Is(Through(Get(r), id), "get", {r}, {}, id, None, None)
        /\ Is(Through(Delete(r), id), "delete", {r}, {}, id, None, None)
        BY KindsOfTests, ModifiedKinds
  <2>2. Is(Through(With(Read, r), id), "read", {}, {r}, id, None, None)
    <3>1. Is(With(Read, r), "read", {}, {} \cup {r}, None, None, None)
          BY KindsOfTests, ModifiedKinds
    <3>2. {} \cup {r} = {r}
          OBVIOUS
    <3> QED BY <3>1, <3>2, ModifiedKinds
  <2>3. \A new : Is(For(Through(Get(r), id), new), "get", {r}, {}, id, new, None)
        BY <2>1, ModifiedKinds
  <2>4. Leads(Through(Get(r), id), Ctx(H, N, G, x), Ctx(H, N, G, x))
        BY <2>1 DEF Is
  <2>5. Leads(Through(With(Read, r), id), Ctx(H, N, G, x), Ctx(H, N, G, x))
        BY <2>2 DEF Is
  <2>6. Leads(Through(Delete(r), id), Ctx(H, N, G, x), Ctx(H \ {r}, N, G, x))
        BY <2>1 DEF Is
  <2>7. \A new : new # None =>
          Leads(For(Through(Get(r), id), new), Ctx(H, N, G, x), Ctx(H, N, G \cup {new}, x))
        BY <2>3 DEF Is
  <2> QED BY ONLY <2>4, <2>5, <2>6, <2>7
<1>4. \A rs : rs \cap H # {} => \A id : id # None =>
        Leads(For(Search(rs), id), Ctx(H, N, G, x), Ctx(H, N, G \cup {id}, x))
  <2>1. \A rs, id : Is(For(Search(rs), id), "search", rs, {}, None, id, None)
        BY KindsOfTests, ModifiedKinds
  <2> QED BY <2>1 DEF Is
<1>5. ASSUME NEW r, NEW id, r \notin N, id # None, NEW t \in H
      PROVE  /\ Leads(With(For(Make(r), id), t), Ctx(H, N, G, x), Ctx(H \cup {r}, N, G \cup {id}, x))
             /\ \A old \in G : Leads(Through(With(For(Make(r), id), t), old),
                                     Ctx(H, N, G, x), Ctx(H \cup {r}, N, G \cup {id}, x))
  <2>1. Is(For(Make(r), id), "make", {r}, {}, None, id, None)
        BY KindsOfTests, ModifiedKinds
  <2>2. Is(With(For(Make(r), id), t), "make", {r}, {t}, None, id, None)
        BY <2>1, ModifiedKinds
  <2>3. \A old : Is(Through(With(For(Make(r), id), t), old), "make", {r}, {t}, old, id, None)
        BY <2>2, ModifiedKinds
  <2> QED BY <1>5, <2>2, <2>3 DEF Is
<1>6. ASSUME NEW rs, NEW id, rs \cap N = {}, id # None, \A r \in rs : TagOf(r) \in H, NEW w \in H
      PROVE  Leads(With(Run(rs, id), w), Ctx(H, N, G, x), Ctx(H \cup rs, N, G \cup {id}, x))
  <2>1. Is(Run(rs, id), "run", rs, {}, None, id, None)
        BY KindsOfTests
  <2>2. Is(With(Run(rs, id), w), "run", rs, {w}, None, id, None)
        BY <2>1, ModifiedKinds
  <2>3. \A r \in N : r \notin rs
        BY <1>6
  <2> HIDE DEF Ctx
  <2>4. LET t == With(Run(rs, id), w)
            c == Ctx(H, N, G, x)
            d == Ctx(H \cup rs, N, G \cup {id}, x)
        IN  /\ Ready(t, c)
            /\ MayCreate(t) = rs /\ Deleted(t) = {} /\ t.gives = id /\ t.body = None
            /\ c.has = H /\ c.lacks = N /\ c.got = G /\ c.body = x
            /\ d.has = H \cup rs /\ d.lacks = N /\ d.got = G \cup {id} /\ d.body = x
        BY <1>6, <2>2 DEF Is, Ctx
  <2> QED BY <1>6, <2>3, <2>4
<1> HIDE DEF Leads, Ready, Ctx, Local, MayCreate, Deleted, Deletions
<1> QED BY <1>1, <1>2, <1>3, <1>4, <1>5, <1>6

-----------------------------------------------------------------------------
(* the scenarios with the flags of config.js *)

\* what no test may find on the platform when its file begins
Fresh == {"workflow", "partition"} \cup Roles

Start == Ctx({}, Fresh, {}, None)

\* All tests of the file pass, whatever is stored of the names that need not be fresh,
\* and it leaves none that must be.
Green(s) == \E d : Passes(s, Start, d) /\ Fresh \subseteq d.lacks

LEMMA GreenBy ==
  ASSUME NEW s, NEW H, NEW G, NEW b, Passes(s, Start, Ctx(H, Fresh, G, b))
  PROVE  Green(s)
<1> QED BY DEF Green, Ctx

\* A block of tests passes if its flag is on, and is not there if it is off.
LEMMA PassesWhen ==
  ASSUME NEW flag, NEW s, NEW c, NEW d,
         flag \in Configured => d = c, flag \notin Configured => Passes(s, c, d)
  PROVE  Passes(When(flag, Configured, s), c, d)
<1> QED BY PassesEmpty DEF When

LEMMA ReadPasses == \A c : Leads(Read, c, c)
<1> QED BY KindsOfTests DEF Is, Leads, Ready, Local, MayCreate, Deleted, Deletions

\* A fetch and the check of what it fetched.
LEMMA FetchCheckPasses ==
  ASSUME NEW H, NEW N, NEW G, NEW x, NEW b, b # None
  PROVE  Passes(<<Fetch(b), Check(b)>>, Ctx(H, N, G, x), Ctx(H, N, G, b))
<1>1. Leads(Fetch(b), Ctx(H, N, G, x), Ctx(H, N, G, b))
      BY KindsOfTests DEF Is, Leads, Ready, Ctx, Local, MayCreate, Deleted, Deletions
<1>2. Leads(Check(b), Ctx(H, N, G, b), Ctx(H, N, G, b))
      BY KindsOfTests DEF Is, Leads, Ready, Ctx, Local, MayCreate, Deleted, Deletions
<1> QED BY <1>1, <1>2, PassesTuples

\* Blocks of a fetch and its check, one after the other.
LEMMA CrsIsGreen == Green(CrsCatalog(Configured)) /\ Green(CrsConversion(Configured))
<1> DEFINE C(b) == Ctx({}, Fresh, {}, b)
<1>1. \A x, b : b # None => Passes(<<Fetch(b), Check(b)>>, C(x), C(b))
      BY FetchCheckPasses
<1> HIDE DEF C
<1>2. {"getArea", "getCatalog", "getCRS", "pointConversion", "trajectoryConversion"} \cap Configured = {}
      /\ "geoJsonConversion" \in Configured
      BY DEF Configured
<1>3. Passes(CrsCatalog(Configured), C(None), C("crs"))
  <2>1. Passes(When("getArea", Configured, <<Fetch("area"), Check("area")>>), C(None), C("area"))
        BY <1>1, <1>2, PassesWhen DEF None
  <2>2. Passes(When("getCatalog", Configured, <<Fetch("catalog"), Check("catalog")>>), C("area"), C("catalog"))
        BY <1>1, <1>2, PassesWhen DEF None
  <2>3. Passes(When("getCRS", Configured, <<Fetch("crs"), Check("crs")>>), C("catalog"), C("crs"))
        BY <1>1, <1>2, PassesWhen DEF None
  <2> QED BY <2>1, <2>2, <2>3, PassesConcat DEF CrsCatalog
<1>4. Passes(CrsConversion(Configured), C(None), C("trajectory"))
  <2>1. Passes(When("pointConversion", Configured, <<Fetch("point"), Check("point")>>), C(None), C("point"))
        BY <1>1, <1>2, PassesWhen DEF None
  <2>2. Passes(When("geoJsonConversion", Configured, <<Read>>), C("point"), C("point"))
        BY <1>2, PassesWhen
  <2>3. Passes(When("trajectoryConversion", Configured, <<Fetch("trajectory"), Check("trajectory")>>),
               C("point"), C("trajectory"))
        BY <1>1, <1>2, PassesWhen DEF None
  <2> QED BY <2>1, <2>2, <2>3, PassesConcat DEF CrsConversion
<1> QED BY <1>3, <1>4, GreenBy DEF C, Start

LEMMA UnitIsGreen == Green(Unit(Configured))
<1> DEFINE C(b) == Ctx({}, Fresh, {}, b)
<1>1. \A x, b : b # None => Passes(<<Fetch(b), Check(b)>>, C(x), C(b))
      BY FetchCheckPasses
<1> HIDE DEF C
<1>2. {"getUnits", "getUnitCatalog", "getMeasurements", "getUnitMaps", "getUnitSystems"} \cap Configured = {}
      BY DEF Configured
<1>3. Passes(When("getUnits", Configured, <<Fetch("units"), Check("units")>>), C(None), C("units"))
      BY <1>1, <1>2, PassesWhen DEF None
<1>4. Passes(When("getUnitCatalog", Configured, <<Fetch("unitCatalog"), Check("unitCatalog")>>),
             C("units"), C("unitCatalog"))
      BY <1>1, <1>2, PassesWhen DEF None
<1>5. Passes(When("getMeasurements", Configured, <<Fetch("measurements"), Check("measurements")>>),
             C("unitCatalog"), C("measurements"))
      BY <1>1, <1>2, PassesWhen DEF None
<1>6. Passes(When("getUnitMaps", Configured, <<Fetch("unitMaps"), Check("unitMaps")>>),
             C("measurements"), C("unitMaps"))
      BY <1>1, <1>2, PassesWhen DEF None
<1>7. Passes(When("getUnitSystems", Configured, <<Fetch("unitSystems"), Check("unitSystems")>>),
             C("unitMaps"), C("unitSystems"))
      BY <1>1, <1>2, PassesWhen DEF None
<1>8. Passes(Unit(Configured), C(None), C("unitSystems"))
  <2>1. Passes(When("getUnits", Configured, <<Fetch("units"), Check("units")>>)
               \o When("getUnitCatalog", Configured, <<Fetch("unitCatalog"), Check("unitCatalog")>>)
               \o When("getMeasurements", Configured, <<Fetch("measurements"), Check("measurements")>>),
               C(None), C("measurements"))
        BY <1>3, <1>4, <1>5, PassesConcat
  <2> QED BY <2>1, <1>6, <1>7, PassesConcat DEF Unit
<1> QED BY <1>8, GreenBy DEF C, Start

LEMMA QueriesPass == \A n \in Nat : \A c : Passes(Queries(n), c, c)
<1> SUFFICES ASSUME NEW n \in Nat, NEW c
             PROVE  Passes(Queries(n), c, c)
    OBVIOUS
<1> DEFINE C == [i \in 1 .. n + 1 |-> c]
<1>1. Queries(n) \in Seq({Read}) /\ Len(Queries(n)) = n /\ \A i \in 1 .. n : Queries(n)[i] = Read
      BY DEF Queries
<1>2. C[1] = c /\ C[n + 1] = c /\ \A i \in 1 .. n : C[i] = c /\ C[i + 1] = c
      OBVIOUS
<1> HIDE DEF C
<1> QED BY <1>1, <1>2, ReadPasses DEF Passes

\* The searches only read.
LEMMA SearchIsGreen == Green(SearchCrud(Configured))
<1> DEFINE P(s) == Passes(s, Start, Start)
<1>1. \A n \in Nat : P(Queries(n))
      BY QueriesPass
<1>2. \A a, b : P(a) /\ P(b) => P(a \o b)
      BY PassesConcat
<1> HIDE DEF P
<1>3. P(StandardTextQueries \o StandardWellQueries \o StandardAggregateQueries)
      BY <1>1, <1>2 DEF StandardTextQueries, StandardWellQueries, StandardAggregateQueries
<1>4. P(EnrichedTextQueries \o EnrichedWellQueries \o EnrichedSpatialQueries \o EnrichedRangeQueries)
      BY <1>1, <1>2
      DEF EnrichedTextQueries, EnrichedWellQueries, EnrichedSpatialQueries, EnrichedRangeQueries
<1>5. P(SeismicNameQueries \o SeismicRegionQueries)
      BY <1>1, <1>2 DEF SeismicNameQueries, SeismicRegionQueries
<1>6. \A flag, s : P(s) => P(When(flag, Configured, s))
      BY PassesWhen DEF P
<1>7. P(SearchCrud(Configured))
      BY <1>2, <1>3, <1>4, <1>5, <1>6 DEF SearchCrud
<1> QED BY <1>7, GreenBy DEF P, Start

\* Files of which config.js turns off every test.
LEMMA NoTestIsGreen ==
  /\ Green(Notification(Configured)) /\ Green(Policy(Configured)) /\ Green(CsvIngest(Configured))
<1>1. {"createSubscription", "getAllPolicies", "evaluatePolicy", "createTestPolicy", "csvIngest"}
        \subseteq Configured
      BY DEF Configured
<1>2. \A flag \in Configured : \A s : Passes(When(flag, Configured, s), Start, Start)
      BY PassesWhen
<1>3. Passes(Notification(Configured), Start, Start) /\ Passes(CsvIngest(Configured), Start, Start)
      BY <1>1, <1>2 DEF Notification, CsvIngest
<1>4. Passes(Policy(Configured), Start, Start)
      BY <1>1, <1>2, PassesConcat DEF Policy
<1> QED BY <1>3, <1>4, GreenBy DEF Start

\* What is made can be looked at, and when it is deleted the context is what it was.
LEMMA MadeAndDeleted ==
  ASSUME NEW r, NEW H, NEW N, NEW G, NEW x, r \notin H
  PROVE  /\ Leads(Make(r), Ctx(H, N, G, x), Ctx(H \cup {r}, N \ {r}, G, x))
         /\ r \in N => Leads(New(r), Ctx(H, N, G, x), Ctx(H \cup {r}, N \ {r}, G, x))
         /\ Leads(Get(r), Ctx(H \cup {r}, N \ {r}, G, x), Ctx(H \cup {r}, N \ {r}, G, x))
         /\ \A b : b # None =>
              Passes(<<List(r, b), Check(b)>>, Ctx(H \cup {r}, N \ {r}, G, x), Ctx(H \cup {r}, N \ {r}, G, b))
         /\ Leads(Delete(r), Ctx(H \cup {r}, N \ {r}, G, x), Ctx(H, N, G, x))
<1> DEFINE I == H \cup {r}
           M == N \ {r}
<1>1. r \in I
      OBVIOUS
<1>2. I \ {r} = H /\ M \cup {r} = N \cup {r}
      OBVIOUS
<1> HIDE DEF I, M
<1>3. \A b : b # None => Passes(<<List(r, b), Check(b)>>, Ctx(I, M, G, x), Ctx(I, M, G, b))
  <2> SUFFICES ASSUME NEW b, b # None
               PROVE  Passes(<<List(r, b), Check(b)>>, Ctx(I, M, G, x), Ctx(I, M, G, b))
      OBVIOUS
  <2>1. Leads(List(r, b), Ctx(I, M, G, x), Ctx(I, M, G, b)) /\ Leads(Check(b), Ctx(I, M, G, b), Ctx(I, M, G, b))
        BY <1>1, PlainLeads
  <2> QED BY <2>1, PassesTuples
<1>4. Leads(Delete(r), Ctx(I, M, G, x), Ctx(H, N, G, x))
      BY <1>1, <1>2, KindsOfTests
      DEF Is, Leads, Ready, Ctx, Local, MayCreate, Deleted, Deletions
<1>5. Leads(Get(r), Ctx(I, M, G, x), Ctx(I, M, G, x))
      BY <1>1, PlainLeads
<1>6. /\ Leads(Make(r), Ctx(H, N, G, x), Ctx(I, M, G, x))
      /\ r \in N => Leads(New(r), Ctx(H, N, G, x), Ctx(I, M, G, x))
      BY PlainLeads DEF I, M
<1> QED BY <1>3, <1>4, <1>5, <1>6 DEF I, M

LEMMA LegalIsGreen == Green(Legal(Configured))
<1> DEFINE A == Ctx({} \cup {"crudTag"}, Fresh \ {"crudTag"}, {}, None)
           B == Ctx({} \cup {"crudTag"}, Fresh \ {"crudTag"}, {}, "tag")
           Z == Ctx({}, Fresh, {}, "tag")
<1>1. /\ Leads(Make("crudTag"), Start, A)
      /\ Passes(<<List("crudTag", "tag"), Check("tag")>>, A, B)
      /\ Leads(Delete("crudTag"), B, Z)
      BY MadeAndDeleted DEF Start, None
<1>2. {"getAllLegalTags", "createLegalTag", "getCreatedLegalTag"} \cap Configured = {}
      BY DEF Configured
<1> HIDE DEF A, B, Z
<1>3. Passes(When("getAllLegalTags", Configured, <<Read>>), Start, Start)
      BY <1>2, ReadPasses, PassesOne, PassesWhen
<1>4. Passes(<<Make("crudTag")>> \o When("getCreatedLegalTag", Configured, <<List("crudTag", "tag"), Check("tag")>>)
             \o <<Delete("crudTag")>>, Start, Z)
      BY <1>1, <1>2, PassesOne, PassesWhen, PassesConcat
<1>5. Passes(Legal(Configured), Start, Z)
      BY <1>2, <1>3, <1>4, PassesWhen, PassesConcat DEF Legal
<1> QED BY <1>5, GreenBy DEF Z

LEMMA WorkflowIsGreen == Green(IngestionWorkflow(Configured))
<1> DEFINE A == Ctx({} \cup {"workflow"}, Fresh \ {"workflow"}, {}, None)
           B == Ctx({} \cup {"workflow"}, Fresh \ {"workflow"}, {}, "workflow")
           Z == Ctx({}, Fresh, {}, "workflow")
<1>1. /\ Leads(New("workflow"), Start, A)
      /\ Passes(<<List("workflow", "workflow"), Check("workflow")>>, A, B)
      /\ Leads(Delete("workflow"), B, Z)
      BY MadeAndDeleted DEF Start, None, Fresh
<1>2. {"getAllWorkflows", "createWorkflow", "getCreatedWorkflow"} \cap Configured = {}
      BY DEF Configured
<1> HIDE DEF A, B, Z
<1>3. Passes(When("getAllWorkflows", Configured, <<Read>>), Start, Start)
      BY <1>2, ReadPasses, PassesOne, PassesWhen
<1>4. Passes(<<New("workflow")>>
             \o When("getCreatedWorkflow", Configured, <<List("workflow", "workflow"), Check("workflow")>>)
             \o <<Delete("workflow")>>, Start, Z)
      BY <1>1, <1>2, PassesOne, PassesWhen, PassesConcat
<1>5. Passes(IngestionWorkflow(Configured), Start, Z)
      BY <1>2, <1>3, <1>4, PassesWhen, PassesConcat DEF IngestionWorkflow
<1> QED BY <1>5, GreenBy DEF Z

LEMMA PartitionIsGreen == Green(Partition(Configured))
<1> DEFINE A == Ctx({} \cup {"partition"}, Fresh \ {"partition"}, {}, None)
           B == Ctx({} \cup {"partition"}, Fresh \ {"partition"}, {}, "partition")
           Z == Ctx({}, Fresh, {}, "partition")
<1>1. /\ Leads(New("partition"), Start, A)
      /\ Passes(<<List("partition", "partition"), Check("partition")>>, A, B)
      /\ Leads(Delete("partition"), B, Z)
      BY MadeAndDeleted DEF Start, None, Fresh
<1>2. {"preCreateGetPartition", "createPartition", "getCreatedPartition"} \cap Configured = {}
      BY DEF Configured
<1>6. Leads(Absent("partition"), Start, Start)
      BY PlainLeads DEF Start, Fresh
<1> HIDE DEF A, B, Z
<1>3. Passes(When("preCreateGetPartition", Configured, <<Absent("partition")>>), Start, Start)
      BY <1>2, <1>6, PassesOne, PassesWhen
<1>4. Passes(<<New("partition")>>
             \o When("getCreatedPartition", Configured, <<List("partition", "partition"), Check("partition")>>)
             \o <<Delete("partition")>>, Start, Z)
      BY <1>1, <1>2, PassesOne, PassesWhen, PassesConcat
<1>5. Passes(Partition(Configured), Start, Z)
      BY <1>2, <1>3, <1>4, PassesWhen, PassesConcat DEF Partition
<1> QED BY <1>5, GreenBy DEF Z

LEMMA SchemaIsGreen == Green(Schema(Configured))
<1> DEFINE A == Ctx({} \cup {"schema"}, Fresh \ {"schema"}, {}, None)
<1>1. Leads(Make("schema"), Start, A) /\ Leads(Get("schema"), A, A) /\ Fresh \ {"schema"} = Fresh
      BY MadeAndDeleted DEF Start, Fresh, Roles
<1>2. {"getSchemaById", "getAllSchemas", "createSchema", "getCreatedSchemaById"} \cap Configured = {}
      /\ "deleteSchema" \in Configured
      BY DEF Configured
<1> HIDE DEF A
<1>3. /\ Passes(When("getSchemaById", Configured, <<Read>>), Start, Start)
      /\ Passes(When("getAllSchemas", Configured, <<Read>>), Start, Start)
      /\ Passes(When("createSchema", Configured, <<Make("schema")>>), Start, A)
      /\ Passes(When("getCreatedSchemaById", Configured, <<Get("schema")>>), A, A)
      /\ Passes(When("deleteSchema", Configured, <<Get("schema")>>), A, A)
      BY <1>1, <1>2, ReadPasses, PassesOne, PassesWhen
<1>4. Passes(When("getSchemaById", Configured, <<Read>>)
             \o When("getAllSchemas", Configured, <<Read>>)
             \o When("createSchema", Configured, <<Make("schema")>>), Start, A)
      BY <1>3, PassesConcat
<1>5. Passes(Schema(Configured), Start, A)
      BY <1>3, <1>4, PassesConcat DEF Schema
<1> QED BY <1>1, <1>5, GreenBy DEF A

LEMMA RegisterIsGreen == Green(Register(Configured))
<1> DEFINE A(r) == Ctx({} \cup {r}, Fresh \ {r}, {}, None)
<1>1. \A r : Leads(Make(r), Start, A(r)) /\ Leads(Get(r), A(r), A(r)) /\ Leads(Delete(r), A(r), Start)
      BY MadeAndDeleted DEF Start
<1> HIDE DEF A
<1>2. \A r : Passes(<<Make(r), Get(r), Delete(r)>>, Start, Start)
      BY <1>1, PassesTuples
<1>3. {"ddmsScenario", "actionScenario"} \cap Configured = {} /\ "subscriptionScenario" \in Configured
      BY DEF Configured
<1>4. /\ Passes(RegisterSubscription(Configured), Start, Start)
      /\ Passes(RegisterDdms(Configured), Start, Start)
      /\ Passes(RegisterAction(Configured), Start, Start)
      BY <1>2, <1>3, PassesWhen DEF RegisterSubscription, RegisterDdms, RegisterAction
<1>5. Passes(Register(Configured), Start, Start)
      BY <1>4, PassesConcat DEF Register
<1> QED BY <1>5, GreenBy DEF Start

\* The tests of a legal tag that may be there already.
LEMMA TagPasses ==
  \A t : t \notin Fresh => Passes(TagTests(t), Start, Ctx({t}, Fresh, {}, "tag"))
<1> SUFFICES ASSUME NEW t, t \notin Fresh
             PROVE  Passes(TagTests(t), Start, Ctx({t}, Fresh, {}, "tag"))
    OBVIOUS
<1> DEFINE A == Ctx({t}, Fresh, {}, None)
           B == Ctx({t}, Fresh, {}, "tag")
<1>1. Leads(Make(t), Start, A)
  <2>1. Leads(Make(t), Start, Ctx({} \cup {t}, Fresh \ {t}, {}, None))
        BY PlainLeads DEF Start
  <2> QED BY <2>1, {} \cup {t} = {t}, Fresh \ {t} = Fresh
<1>2. Leads(List(t, "tag"), A, B) /\ Leads(Check("tag"), B, B)
      BY PlainLeads DEF None
<1> HIDE DEF A
<1> QED BY <1>1, <1>2, ReadPasses, PassesTuples DEF TagTests

LEMMA FileIsGreen == Green(FileUpload(Configured))
<1> DEFINE C(H, G) == Ctx(H, Fresh, G, "tag")
           A == C({"checkTag"}, {})
           B == C({"checkTag"}, {"fileUrl"})
           D == C({"checkTag", "file"}, {"fileUrl", "metadataId"})
           E == C({"checkTag", "file"}, {"fileUrl", "metadataId", "downloadUrl"})
           Z == C({"file"}, {"fileUrl", "metadataId", "downloadUrl"})
<1>1. "checkTag" \notin Fresh /\ "file" \notin Fresh
      /\ "fileUrl" # None /\ "metadataId" # None /\ "downloadUrl" # None
      BY DEF Fresh, Roles, None
<1>2. Passes(TagTests("checkTag"), Start, A)
      BY <1>1, TagPasses
<1>3. /\ Leads(For(Read, "fileUrl"), A, B)
      /\ Leads(ByUrl(Test, "fileUrl"), B, B)
      /\ Leads(Through(With(For(Make("file"), "metadataId"), "checkTag"), "fileUrl"), B, D)
      /\ Leads(Through(Get("file"), "metadataId"), D, D)
  <2>1. /\ {} \cup {"fileUrl"} = {"fileUrl"}
        /\ {"checkTag"} \cup {"file"} = {"checkTag", "file"}
        /\ {"fileUrl"} \cup {"metadataId"} = {"fileUrl", "metadataId"}
        OBVIOUS
  <2>2. Leads(For(Read, "fileUrl"), A, C({"checkTag"}, {} \cup {"fileUrl"}))
        BY <1>1, IdLeads
  <2>3. Leads(ByUrl(Test, "fileUrl"), B, B)
        BY IdLeads
  <2>4. Leads(Through(With(For(Make("file"), "metadataId"), "checkTag"), "fileUrl"), B,
              C({"checkTag"} \cup {"file"}, {"fileUrl"} \cup {"metadataId"}))
        BY <1>1, IdLeads
  <2>5. Leads(Through(Get("file"), "metadataId"), D, D)
        BY IdLeads
  <2> HIDE DEF C
  <2> QED BY <2>1, <2>2, <2>3, <2>4, <2>5
<1>4. Passes(FileTransfer, A, D)
  <2> HIDE DEF A, B, D
  <2>1. Passes(<<Read, For(Read, "fileUrl"), Read>>, A, B)
        BY <1>3, ReadPasses, PassesTuples
  <2>2. Passes(<<ByUrl(Test, "fileUrl"), Through(With(For(Make("file"), "metadataId"), "checkTag"), "fileUrl"),
                 Through(Get("file"), "metadataId")>>, B, D)
        BY <1>3, PassesTuples
  <2> QED BY <2>1, <2>2, PassesSix DEF FileTransfer
<1>5. Passes(FileDownload, D, Z)
  <2>1. /\ {"fileUrl", "metadataId"} \cup {"downloadUrl"} = {"fileUrl", "metadataId", "downloadUrl"}
        /\ {"checkTag", "file"} \ {"checkTag"} = {"file"}
        OBVIOUS
  <2>2. Leads(For(Through(Get("file"), "metadataId"), "downloadUrl"), D,
              C({"checkTag", "file"}, {"fileUrl", "metadataId"} \cup {"downloadUrl"}))
        BY <1>1, IdLeads
  <2>3. Leads(ByUrl(Test, "downloadUrl"), E, E)
        BY IdLeads
  <2>4. Leads(Delete("checkTag"), E, Z)
        BY KindsOfTests, <2>1 DEF Is, Leads, Ready, Ctx, Local, MayCreate, Deleted, Deletions
  <2> HIDE DEF C
  <2> QED BY <2>1, <2>2, <2>3, <2>4, PassesTuples DEF FileDownload
<1> HIDE DEF A, D
<1>6. Passes(TagTests("checkTag") \o FileTransfer \o FileDownload, Start, Z)
      BY <1>2, <1>4, <1>5, PassesConcat
<1>7. "fileUpload" \notin Configured
      BY DEF Configured
<1> HIDE DEF Z
<1>8. Passes(FileUpload(Configured), Start, Z)
      BY <1>6, <1>7, PassesWhen DEF FileUpload
<1> QED BY <1>8, GreenBy DEF Z

\* A manifest leaves what it needs, and the records nobody deletes.
LEMMA ManifestPasses ==
  ASSUME NEW r, NEW rest, NEW runId, NEW recordId,
         runId # None, recordId # None, runId # recordId,
         r \notin rest \cup {"checkTag", "osduIngest"},
         ({r} \cup rest) \cap Fresh = {},
         \A s \in {r} \cup rest : TagOf(s) = "checkTag"
  PROVE  LET K == Ctx({"checkTag", "osduIngest"}, Fresh, {}, "tag")
         IN  Passes(Manifest(r, rest, runId, recordId), K, K)
<1> DEFINE C(H, G) == Ctx(H, Fresh, G, "tag")
           H0 == {"checkTag", "osduIngest"}
           H1 == H0 \cup ({r} \cup rest)
           G1 == {} \cup {runId}
           G2 == G1 \cup {recordId}
           K == C(H0, {})
<1>1. Leads(With(Run({r} \cup rest, runId), "osduIngest"), K, C(H1, G1))
      BY IdLeads
<1>2. Leads(Through(With(Read, "osduIngest"), runId), C(H1, G1), C(H1, G1))
      BY IdLeads
<1>3. Leads(For(Search({r}), recordId), C(H1, G1), C(H1, G2))
  <2>1. {r} \cap H1 # {}
        OBVIOUS
  <2> QED BY <2>1, IdLeads
<1>4. Leads(Through(Get(r), recordId), C(H1, G2), C(H1, G2))
      BY IdLeads
<1>5. Leads(Through(Delete(r), recordId), C(H1, G2), K)
  <2>1. Is(Through(Delete(r), recordId), "delete", {r}, {}, recordId, None, None)
        BY KindsOfTests, ModifiedKinds
  <2>2. H0 \subseteq H1 \ {r} /\ r \in H1 /\ recordId \in G2
        OBVIOUS
  <2> HIDE DEF H0, H1, G2
  <2> QED BY <2>1, <2>2 DEF Is, Leads, Ready, Ctx, Local, MayCreate, Deleted, Deletions
<1> HIDE DEF C, H0, H1, G1, G2, K
<1>6. Passes(<<With(Run({r} \cup rest, runId), "osduIngest"), Through(With(Read, "osduIngest"), runId)>>,
             K, C(H1, G1))
      BY <1>1, <1>2, PassesTuples
<1>7. Passes(<<For(Search({r}), recordId), Through(Get(r), recordId), Through(Delete(r), recordId)>>,
             C(H1, G1), K)
      BY <1>3, <1>4, <1>5, PassesTuples
<1>8. Passes(Manifest(r, rest, runId, recordId), K, K)
      BY <1>6, <1>7, PassesFive DEF Manifest
<1> QED BY <1>8 DEF K, C, H0

LEMMA ManifestsAreGreen == Green(ManifestIngest(Configured))
<1> DEFINE A == Ctx({"checkTag"}, Fresh, {}, "tag")
           K == Ctx({"checkTag", "osduIngest"}, Fresh, {}, "tag")
           Z == Ctx({"osduIngest"}, Fresh, {}, "tag")
<1>1. Passes(TagTests("checkTag"), Start, A)
      BY TagPasses DEF Fresh, Roles
<1>2. Leads(Make("osduIngest"), A, K) /\ Leads(Get("osduIngest"), K, K) /\ Leads(Delete("checkTag"), K, Z)
  <2>1. Fresh \ {"osduIngest"} = Fresh
        BY DEF Fresh, Roles
  <2>2. /\ {"checkTag"} \cup {"osduIngest"} = {"checkTag", "osduIngest"}
        /\ {"checkTag", "osduIngest"} \ {"checkTag"} = {"osduIngest"}
        OBVIOUS
  <2>3. Leads(Make("osduIngest"), A, Ctx({"checkTag"} \cup {"osduIngest"}, Fresh \ {"osduIngest"}, {}, "tag"))
        BY PlainLeads
  <2>4. Leads(Get("osduIngest"), K, K)
        BY PlainLeads
  <2>5. Leads(Delete("checkTag"), K, Z)
        BY KindsOfTests, <2>2 DEF Is, Leads, Ready, Ctx, Local, MayCreate, Deleted, Deletions
  <2> QED BY <2>1, <2>2, <2>3, <2>4, <2>5
<1>3. Passes(ManifestTC1, K, K)
      BY ManifestPasses DEF ManifestTC1, None, Fresh, Roles, TagOf
<1>4. Passes(ManifestTC2, K, K)
      BY ManifestPasses DEF ManifestTC2, None, Fresh, Roles, TagOf
<1>5. Passes(ManifestTC3, K, K)
      BY ManifestPasses DEF ManifestTC3, None, Fresh, Roles, TagOf
<1>6. Passes(ManifestTC4, K, K)
      BY ManifestPasses DEF ManifestTC4, None, Fresh, Roles, TagOf
<1>7. "manifestIngest" \notin Configured
      BY DEF Configured
<1> HIDE DEF A, K, Z
<1>8. Passes(ManifestWorkflow, A, K)
      BY <1>2, ReadPasses, PassesTuples DEF ManifestWorkflow
<1>9. Passes(TagTests("checkTag") \o ManifestWorkflow \o ManifestTC1 \o ManifestTC2
             \o ManifestTC3 \o ManifestTC4 \o <<Delete("checkTag")>>, Start, Z)
  <2>1. Passes(TagTests("checkTag") \o ManifestWorkflow \o ManifestTC1 \o ManifestTC2, Start, K)
        BY <1>1, <1>3, <1>4, <1>8, PassesConcat
  <2> QED BY <2>1, <1>2, <1>5, <1>6, PassesOne, PassesConcat
<1>10. Passes(ManifestIngest(Configured), Start, Z)
      BY <1>7, <1>9, PassesWhen DEF ManifestIngest
<1> QED BY <1>10, GreenBy DEF Z

LEMMA RecordsAreGreen == Green(RecordSchema(Configured))
<1> DEFINE C(H, G) == Ctx(H, Fresh, G, "tag")
           A == C({"checkTag"}, {})
           B == C({"checkTag", "qaRecord"}, {"recordId"})
           D == C({"checkTag", "qaRecord"}, {"recordId", "version"})
           E == C({"checkTag"}, {"recordId", "version"})
           Z == C({}, {"recordId", "version"})
<1>1. "checkTag" \notin Fresh /\ "qaRecord" \notin Fresh /\ "recordId" # None /\ "version" # None
      BY DEF Fresh, Roles, None
<1>2. Passes(TagTests("checkTag"), Start, A)
      BY <1>1, TagPasses
<1>3. /\ Leads(With(For(Make("qaRecord"), "recordId"), "checkTag"), A, B)
      /\ Leads(Through(Get("qaRecord"), "recordId"), B, B)
      /\ Leads(For(Through(Get("qaRecord"), "recordId"), "version"), B, D)
      /\ Leads(Through(Get("qaRecord"), "recordId"), D, D)
  <2>1. /\ {} \cup {"recordId"} = {"recordId"}
        /\ {"recordId"} \cup {"version"} = {"recordId", "version"}
        /\ {"checkTag"} \cup {"qaRecord"} = {"checkTag", "qaRecord"}
        OBVIOUS
  <2>2. Leads(With(For(Make("qaRecord"), "recordId"), "checkTag"), A,
              C({"checkTag"} \cup {"qaRecord"}, {} \cup {"recordId"}))
        BY <1>1, IdLeads
  <2>3. Leads(Through(Get("qaRecord"), "recordId"), B, B)
        BY IdLeads
  <2>4. Leads(For(Through(Get("qaRecord"), "recordId"), "version"), B,
              C({"checkTag", "qaRecord"}, {"recordId"} \cup {"version"}))
        BY <1>1, IdLeads
  <2>5. Leads(Through(Get("qaRecord"), "recordId"), D, D)
        BY IdLeads
  <2> HIDE DEF C
  <2> QED BY <2>1, <2>2, <2>3, <2>4, <2>5
<1>4. /\ Leads(Search({"qaRecord", "kirchhoff", "angleMute", "conversions"}), D, D)
      /\ Leads(Through(Delete("qaRecord"), "recordId"), D, E)
      /\ Leads(Delete("checkTag"), E, Z)
  <2>1. {"checkTag", "qaRecord"} \ {"qaRecord"} = {"checkTag"} /\ {"checkTag"} \ {"checkTag"} = {}
        OBVIOUS
  <2>2. Leads(Search({"qaRecord", "kirchhoff", "angleMute", "conversions"}), D, D)
        BY KindsOfTests DEF Is, Leads, Ready, Ctx, Local, MayCreate, Deleted, Deletions
  <2>3. Leads(Through(Delete("qaRecord"), "recordId"), D,
              C({"checkTag", "qaRecord"} \ {"qaRecord"}, {"recordId", "version"}))
        BY IdLeads
  <2>4. Leads(Delete("checkTag"), E, Z)
        BY <2>1, KindsOfTests DEF Is, Leads, Ready, Ctx, Local, MayCreate, Deleted, Deletions
  <2> HIDE DEF C
  <2> QED BY <2>1, <2>2, <2>3, <2>4
<1>5. "recordSchema" \notin Configured
      BY DEF Configured
<1> HIDE DEF C, A, B, D, E, Z
<1>6. Passes(RecordTests, A, D)
  <2>1. Passes(<<With(For(Make("qaRecord"), "recordId"), "checkTag"), Through(Get("qaRecord"), "recordId")>>,
               A, B)
        BY <1>3, PassesTuples
  <2>2. Passes(<<Read, For(Through(Get("qaRecord"), "recordId"), "version"),
                 Through(Get("qaRecord"), "recordId")>>, B, D)
        BY <1>3, ReadPasses, PassesTuples
  <2> QED BY <2>1, <2>2, PassesFive DEF RecordTests
<1>7. Passes(RecordSearchAndCleanup, D, Z)
      BY <1>4, PassesTuples DEF RecordSearchAndCleanup
<1>8. Passes(<<Read>>, A, A)
      BY ReadPasses, PassesOne
<1>9. Passes(TagTests("checkTag") \o <<Read>> \o RecordTests \o RecordSearchAndCleanup, Start, Z)
      BY <1>2, <1>6, <1>7, <1>8, PassesConcat
<1>10. Passes(RecordSchema(Configured), Start, Z)
      BY <1>5, <1>9, PassesWhen DEF RecordSchema
<1> QED BY <1>10, GreenBy DEF Z, C

LEMMA InsertedIsGreen == Green(SearchInserted(Configured))
<1> DEFINE C(H, G) == Ctx(H, Fresh, G, "tag")
           A == C({"probeTag"}, {})
           B == C({"probeTag", "probeRecord"}, {"recordId"})
           D == C({"probeTag", "probeRecord"}, {"recordId", "foundId"})
           E == C({"probeTag"}, {"recordId", "foundId"})
           Z == C({}, {"recordId", "foundId"})
<1>1. "probeTag" \notin Fresh /\ "probeRecord" \notin Fresh /\ "recordId" # None /\ "foundId" # None
      BY DEF Fresh, Roles, None
<1>2. Passes(TagTests("probeTag"), Start, A)
      BY <1>1, TagPasses
<1>3. /\ Leads(With(For(Make("probeRecord"), "recordId"), "probeTag"), A, B)
      /\ Leads(Through(Get("probeRecord"), "recordId"), B, B)
      /\ Leads(For(Search({"probeRecord"}), "foundId"), B, D)
      /\ Leads(Same, D, D)
      /\ Leads(Through(Delete("probeRecord"), "recordId"), D, E)
      /\ Leads(Delete("probeTag"), E, Z)
  <2>1. /\ {} \cup {"recordId"} = {"recordId"}
        /\ {"recordId"} \cup {"foundId"} = {"recordId", "foundId"}
        /\ {"probeTag"} \cup {"probeRecord"} = {"probeTag", "probeRecord"}
        /\ {"probeTag", "probeRecord"} \ {"probeRecord"} = {"probeTag"}
        OBVIOUS
  <2>2. Leads(With(For(Make("probeRecord"), "recordId"), "probeTag"), A,
              C({"probeTag"} \cup {"probeRecord"}, {} \cup {"recordId"}))
        BY <1>1, IdLeads
  <2>3. Leads(Through(Get("probeRecord"), "recordId"), B, B)
        BY IdLeads
  <2>4. Leads(For(Search({"probeRecord"}), "foundId"), B,
              C({"probeTag", "probeRecord"}, {"recordId"} \cup {"foundId"}))
    <3>1. {"probeRecord"} \cap {"probeTag", "probeRecord"} # {}
          OBVIOUS
    <3> QED BY <3>1, <1>1, IdLeads
  <2>5. Leads(Same, D, D)
        BY KindsOfTests DEF Is, Leads, Ready, Ctx, Local, MayCreate, Deleted, Deletions
  <2>6. Leads(Through(Delete("probeRecord"), "recordId"), D,
              C({"probeTag", "probeRecord"} \ {"probeRecord"}, {"recordId", "foundId"}))
        BY IdLeads
  <2>7. Leads(Delete("probeTag"), E, Z)
        BY KindsOfTests DEF Is, Leads, Ready, Ctx, Local, MayCreate, Deleted, Deletions
  <2> HIDE DEF C
  <2> QED BY <2>1, <2>2, <2>3, <2>4, <2>5, <2>6, <2>7
<1>4. "searchInsertedRecord" \notin Configured
      BY DEF Configured
<1> HIDE DEF C, A, B, D, E, Z
<1>5. Passes(InsertRecord, A, B) /\ Passes(FindRecord, B, Z)
      BY <1>3, PassesTuples DEF InsertRecord, FindRecord
<1>6. Passes(TagTests("probeTag") \o InsertRecord \o FindRecord, Start, Z)
      BY <1>2, <1>5, PassesConcat
<1>7. Passes(SearchInserted(Configured), Start, Z)
      BY <1>4, <1>6, PassesWhen DEF SearchInserted
<1> QED BY <1>7, GreenBy DEF Z, C

\* The groups of the roles are made, looked at and deleted; each passes only if it was not there.
LEMMA EntitlementsAreGreen == Green(Entitlements(Configured))
<1> DEFINE C(H, N, b) == Ctx(H, N, {}, b)
           N0 == {"workflow", "partition", "viewers", "editors", "admins", "ops"}
           N1 == {"workflow", "partition", "editors", "admins", "ops"}
           N2 == {"workflow", "partition", "admins", "ops"}
           N3 == {"workflow", "partition", "ops"}
           N4 == {"workflow", "partition"}
           H0 == {"group", "user"}
           H1 == {"group", "user", "viewers"}
           H2 == {"group", "user", "viewers", "editors"}
           H3 == {"group", "user", "viewers", "editors", "admins"}
           H4 == {"group", "user", "viewers", "editors", "admins", "ops"}
<1> USE DEF Is, Leads, Ready, Ctx, Local, MayCreate, Deleted, Deletions
<1>1. Start = C({}, N0, None)
      BY DEF Start, Fresh, Roles
<1>2. /\ Leads(Make("group"), C({}, N0, None), C({"group"}, N0, None))
      /\ Leads(With(Make("groupAdmin"), "group"), C({"group"}, N0, None), C({"group"}, N0, None))
      /\ Leads(Make("user"), C({"group"}, N0, None), C(H0, N0, None))
  <2>1. Is(With(Make("groupAdmin"), "group"), "make", {"groupAdmin"}, {} \cup {"group"}, None, None, None)
        BY ONLY KindsOfTests, ModifiedKinds
  <2> QED BY <2>1, KindsOfTests
<1>3. /\ Leads(With(Read, "user"), C(H0, N0, None), C(H0, N0, None))
      /\ Leads(With(New("viewers"), "user"), C(H0, N0, None), C(H1, N1, None))
      /\ Leads(With(New("editors"), "user"), C(H1, N1, None), C(H2, N2, None))
      /\ Leads(With(New("admins"), "user"), C(H2, N2, None), C(H3, N3, None))
      /\ Leads(With(New("ops"), "user"), C(H3, N3, None), C(H4, N4, None))
  <2>1. /\ Is(With(Read, "user"), "read", {}, {} \cup {"user"}, None, None, None)
        /\ \A r : Is(With(New(r), "user"), "new", {r}, {} \cup {"user"}, None, None, None)
        BY ONLY KindsOfTests, ModifiedKinds
  <2>2. Leads(With(Read, "user"), C(H0, N0, None), C(H0, N0, None))
        BY <2>1
  <2>3. Leads(With(New("viewers"), "user"), C(H0, N0, None), C(H1, N1, None))
        BY <2>1
  <2>4. Leads(With(New("editors"), "user"), C(H1, N1, None), C(H2, N2, None))
        BY <2>1
  <2>5. Leads(With(New("admins"), "user"), C(H2, N2, None), C(H3, N3, None))
        BY <2>1
  <2>6. Leads(With(New("ops"), "user"), C(H3, N3, None), C(H4, N4, None))
        BY <2>1
  <2> QED BY ONLY <2>2, <2>3, <2>4, <2>5, <2>6
<1>4. /\ \A r \in {"viewers", "editors", "admins", "ops"} : \A b :
           Leads(List(r, "member"), C(H4, N4, b), C(H4, N4, "member"))
      /\ Leads(Check("member"), C(H4, N4, "member"), C(H4, N4, "member"))
      BY KindsOfTests DEF None
<1>5. /\ Leads(Delete("ops"), C(H4, N4, "member"), C(H3, N3, "member"))
      /\ Leads(Delete("admins"), C(H3, N3, "member"), C(H2, N2, "member"))
      /\ Leads(Delete("editors"), C(H2, N2, "member"), C(H1, N1, "member"))
      /\ Leads(Delete("viewers"), C(H1, N1, "member"), C(H0, N0, "member"))
      /\ Leads(Delete("user"), C(H0, N0, "member"), C({"group"}, N0, "member"))
      /\ Leads(Remove("group"), C({"group"}, N0, "member"), C({}, N0, "member"))
      /\ Leads(Remove("group"), C({}, N0, "member"), C({}, N0, "member"))
  <2>1. Leads(Delete("ops"), C(H4, N4, "member"), C(H3, N3, "member"))
        BY KindsOfTests
  <2>2. Leads(Delete("admins"), C(H3, N3, "member"), C(H2, N2, "member"))
        BY KindsOfTests
  <2>3. Leads(Delete("editors"), C(H2, N2, "member"), C(H1, N1, "member"))
        BY KindsOfTests
  <2>4. Leads(Delete("viewers"), C(H1, N1, "member"), C(H0, N0, "member"))
        BY KindsOfTests
  <2>5. Leads(Delete("user"), C(H0, N0, "member"), C({"group"}, N0, "member"))
        BY KindsOfTests
  <2>6. Leads(Remove("group"), C({"group"}, N0, "member"), C({}, N0, "member"))
        BY KindsOfTests
  <2>7. Leads(Remove("group"), C({}, N0, "member"), C({}, N0, "member"))
        BY KindsOfTests
  <2> QED BY ONLY <2>1, <2>2, <2>3, <2>4, <2>5, <2>6, <2>7
<1>6. "entitlements" \notin Configured /\ "privilegedAccess" \in Configured
      BY DEF Configured
<1>7. Fresh \subseteq C({}, N0, "member").lacks
      BY DEF Fresh, Roles
<1> HIDE DEF Is, Leads, Ready, Ctx, Local, MayCreate, Deleted, Deletions,
             C, N0, N1, N2, N3, N4, H0, H1, H2, H3, H4
<1>8. Passes(EntitlementsCreate(Configured), Start, C(H0, N0, None))
  <2>1. Passes(When("privilegedAccess", Configured, <<Read, Read>>), Start, Start)
        BY <1>6, PassesWhen
  <2>2. Passes(<<Make("group"), With(Make("groupAdmin"), "group"), Read, Make("user")>>,
               Start, C(H0, N0, None))
        BY <1>1, <1>2, ReadPasses, PassesTuples
  <2> QED BY <2>1, <2>2, PassesConcat DEF EntitlementsCreate
<1>9. Passes(EntitlementsRoles, C(H0, N0, None), C(H4, N4, None))
      BY <1>3, PassesOne, PassesTuples, PassesConcat DEF EntitlementsRoles
<1>10. Passes(EntitlementsLists, C(H4, N4, None), C(H4, N4, "member"))
  <2>1. Passes(<<List("viewers", "member"), Check("member"), List("editors", "member"), Check("member")>>,
               C(H4, N4, None), C(H4, N4, "member"))
        BY <1>4, PassesTuples
  <2>2. Passes(<<List("admins", "member"), Check("member"), List("ops", "member"), Check("member")>>,
               C(H4, N4, "member"), C(H4, N4, "member"))
        BY <1>4, PassesTuples
  <2> QED BY <2>1, <2>2, PassesEight DEF EntitlementsLists
<1>11. Passes(EntitlementsCleanup, C(H4, N4, "member"), C({}, N0, "member"))
  <2>1. Passes(<<Delete("ops"), Delete("admins"), Delete("editors"), Delete("viewers")>>,
               C(H4, N4, "member"), C(H0, N0, "member"))
        BY <1>5, PassesTuples
  <2>2. Passes(<<Delete("user"), Remove("group"), Remove("group")>>,
               C(H0, N0, "member"), C({}, N0, "member"))
        BY <1>5, PassesTuples
  <2> QED BY <2>1, <2>2, PassesSeven DEF EntitlementsCleanup
<1>12. Passes(EntitlementsCreate(Configured) \o EntitlementsRoles \o EntitlementsLists
              \o EntitlementsCleanup, Start, C({}, N0, "member"))
      BY <1>8, <1>9, <1>10, <1>11, PassesConcat
<1>13. Passes(Entitlements(Configured), Start, C({}, N0, "member"))
      BY <1>6, <1>12, PassesWhen DEF Entitlements
<1> QED BY <1>7, <1>13 DEF Green

\* With the flags of config.js every file is green.
LEMMA FilesAreGreen == \A f \in 1 .. 17 : Green(Files(Configured)[f])
<1>1. \A f \in 1 .. 17 :
        Files(Configured)[f] \in
          {CrsCatalog(Configured), CrsConversion(Configured), Entitlements(Configured),
           IngestionWorkflow(Configured), Legal(Configured), Notification(Configured),
           Partition(Configured), Policy(Configured), Register(Configured), Schema(Configured),
           SearchCrud(Configured), Unit(Configured), CsvIngest(Configured), FileUpload(Configured),
           ManifestIngest(Configured), RecordSchema(Configured), SearchInserted(Configured)}
      BY DEF Files
<1> QED BY <1>1, CrsIsGreen, EntitlementsAreGreen, WorkflowIsGreen, LegalIsGreen, PartitionIsGreen,
           NoTestIsGreen, RegisterIsGreen, SchemaIsGreen, SearchIsGreen, UnitIsGreen, FileIsGreen,
           ManifestsAreGreen, RecordsAreGreen, InsertedIsGreen

-----------------------------------------------------------------------------
(* a run on a platform that does as it should *)

\* The context is that of the run.
Holding(c) ==
  /\ c.has \subseteq stored /\ c.lacks \cap stored = {}
  /\ c.got \subseteq ids /\ data.body = c.body

\* The run of which HealthyRunIsGreen speaks.
Undisturbed == faults = 0 /\ off = Configured /\ left \cap Unforgiven = {}

\* C is the way of the tests of the file.
Way(C) ==
  /\ Fresh \subseteq C[Len(Tests) + 1].lacks
  /\ \A i \in 1 .. Len(Tests) : Leads(Tests[i], C[i], C[i + 1])

\* All has gone well, and the tests of the file are where their way leads.
OnTheWay ==
  /\ exitFailed = FALSE /\ late = {} /\ pending = {}
  /\ phase = "token" => step = 1 /\ Holding(Start)
  /\ phase \in {"idle", "waiting"} => token = "good" /\ \E C : Way(C) /\ Holding(C[step])
  /\ phase = "waiting" => Current.do \notin Local

Healthy == Undisturbed => OnTheWay

LEMMA HealthyAtFirst == Init => Healthy
<1> SUFFICES ASSUME Init, Undisturbed
             PROVE  OnTheWay
    BY DEF Healthy
<1>1. /\ exitFailed = FALSE /\ late = {} /\ pending = {} /\ phase = "token" /\ step = 1
      /\ stored = left /\ left \subseteq FixedNames /\ ids = {} /\ data.body = None
      BY LeftoversAssumption DEF Init, NoData
<1>2. Fresh \cap stored = {}
      BY <1>1 DEF Undisturbed, Unforgiven, Fresh, FixedNames, Roles
<1>3. Holding(Start)
      BY <1>1, <1>2 DEF Holding, Start, Ctx
<1> QED BY <1>1, <1>3 DEF OnTheWay

\* Where a test is ready it is accepted, or holds, and the context after it holds.
LEMMA ReadyTestPasses ==
  ASSUME NEW t, NEW c, NEW d, Leads(t, c, d), Holding(c), token = "good"
  PROVE  /\ t.do \in Local => Holds(t)
         /\ t.do \notin Local => Accepts(t) /\ ~Throws(t)
         /\ t.do \notin Local /\ Carry(t) /\ Remember(t, step) => Holding(d)'
         /\ t.do \in Local /\ UNCHANGED <<stored, ids, data>> => Holding(d)'
<1>1. ASSUME t.do \in Local
      PROVE  Holds(t)
      BY <1>1 DEF Leads, Ready, Holding, Holds, Local
<1>2. ASSUME t.do \notin Local
      PROVE  Accepts(t) /\ ~Throws(t)
      BY <1>2 DEF Leads, Ready, Holding, Accepts, Throws
<1>3. ASSUME t.do \notin Local, Carry(t), Remember(t, step)
      PROVE  Holding(d)'
  <2>1. Created(t) = MayCreate(t)
    <3>1. t.do = "run" => \A r \in t.res : TagOf(r) \in stored
          BY <1>3 DEF Leads, Ready, Holding
    <3> QED BY <3>1 DEF Created, MayCreate, Storable
  <2>2. stored' = (stored \cup MayCreate(t)) \ Deleted(t)
        BY <1>3, <2>1 DEF Carry
  <2>3. d.has \subseteq stored'
        BY <2>2 DEF Leads, Holding
  <2>4. d.lacks \cap stored' = {}
        BY <2>2 DEF Leads, Holding
  <2>5. d.got \subseteq ids' /\ data'.body = d.body
        BY <1>3 DEF Leads, Holding, Remember
  <2> QED BY <2>3, <2>4, <2>5 DEF Holding
<1>4. ASSUME t.do \in Local, UNCHANGED <<stored, ids, data>>
      PROVE  Holding(d)'
  <2>1. MayCreate(t) = {} /\ Deleted(t) = {} /\ t.gives = None /\ d.body = c.body
        BY <1>4 DEF Leads, Ready, Local, MayCreate, Deleted, Deletions
  <2>2. d.has \subseteq stored /\ d.lacks \cap stored = {} /\ d.got \subseteq ids /\ data.body = d.body
        BY <2>1 DEF Leads, Holding
  <2> QED BY <1>4, <2>2 DEF Holding
<1> QED BY <1>1, <1>2, <1>3, <1>4

\* The next file begins where nothing it needs fresh is stored.
LEMMA NextFileHealthy ==
  ASSUME OnTheWay, NextFile, UNCHANGED <<stored, late, pending, exitFailed>>, Fresh \cap stored = {}
  PROVE  OnTheWay'
<1>1. phase' \in {"token", "ended"} /\ step' = 1 /\ ids' = {} /\ data'.body = None
      BY DEF NextFile, NoData
<1>2. Holding(Start)'
      BY <1>1 DEF Holding, Start, Ctx
<1> QED BY <1>1, <1>2 DEF OnTheWay

LEMMA StepHealthy == Placed /\ Healthy /\ [Next]_vars => Healthy'
<1> SUFFICES ASSUME Placed, Healthy, [Next]_vars, Undisturbed'
             PROVE  OnTheWay'
    BY DEF Healthy
<1>1. UNCHANGED <<off, left>> /\ (faults' = faults \/ Fault)
      BY DEF Next, Mocha, SkipFile, TokenFetched, TokenRefused, FetchToken, TokenFails, RunCheck, TestThrows,
             Call, Answer, OtherBody, Refused, AnswerLost, TimedOut, SlowWorkflow, FinishFile, LateAnswer,
             WorkflowEnds, Ended, vars
<1>2. ~ Fault /\ faults = 0
      BY <1>1 DEF Undisturbed, Fault, Placed
<1>3. Undisturbed
      BY <1>1, <1>2 DEF Undisturbed
<1>4. OnTheWay
      BY <1>3 DEF Healthy
<1>5. UNCHANGED file => Tests' = Tests
      BY <1>1 DEF Tests
<1>6. ASSUME UNCHANGED file, NEW C, Way(C)
      PROVE  Way(C)'
      BY <1>5, <1>6 DEF Way
<1>7. CASE SkipFile
  <2>1. Fresh \cap stored = {}
        BY <1>4, <1>7 DEF SkipFile, OnTheWay, Holding, Start, Ctx
  <2> QED BY <1>4, <1>7, <2>1, NextFileHealthy DEF SkipFile, platform
<1>8. CASE TokenFetched
  <2>1. file \in 1 .. 17 /\ Tests = Files(Configured)[file]
        BY <1>3, <1>8 DEF Placed, TokenFetched, FetchToken, Tests, TestsOf, Undisturbed
  <2>2. PICK C : C[1] = Start /\ Way(C)
        BY <2>1, FilesAreGreen DEF Green, Passes, Way
  <2>3. /\ phase' = "idle" /\ token' = "good" /\ step' = 1
        /\ UNCHANGED <<file, late, pending, stored, ids, data, exitFailed>> /\ Holding(Start)
        BY <1>4, <1>8 DEF TokenFetched, FetchToken, platform, fileVars, OnTheWay
  <2>4. Holding(Start)'
        BY <2>3 DEF Holding
  <2>5. Way(C)' /\ Holding(C[step])'
        BY <1>6, <2>2, <2>3, <2>4 DEF Holding
  <2> QED BY <1>4, <2>3, <2>5 DEF OnTheWay
<1>9. CASE Call
  <2>1. /\ phase = "idle" /\ phase' = "waiting" /\ Current.do \notin Local
        /\ UNCHANGED <<file, step, token, late, pending, stored, ids, data, exitFailed>>
        BY <1>9 DEF Call, platform, fileVars
  <2>2. PICK C : Way(C) /\ Holding(C[step])
        BY <1>4, <2>1 DEF OnTheWay
  <2>3. Way(C)' /\ Holding(C[step])'
        BY <1>6, <2>1, <2>2 DEF Holding
  <2>4. Current' = Current
        BY <1>5, <2>1 DEF Current
  <2> QED BY <1>4, <2>1, <2>3, <2>4 DEF OnTheWay
<1>10. CASE RunCheck \/ TestThrows \/ Answer
  <2>1. phase \in {"idle", "waiting"} /\ step \in 1 .. Len(Tests)
    <3>1. phase \in {"idle", "waiting"}
          BY <1>10 DEF RunCheck, TestThrows, Answer
    <3>2. step <= Len(Tests)
          BY <1>10 DEF RunCheck, TestThrows, Answer, Placed
    <3>3. step \in 1 .. Len(Tests) + 1 /\ Len(Tests) \in Nat
          BY <3>1, TestsOrderly DEF Placed
    <3> QED BY <3>1, <3>2, <3>3
  <2>2. token = "good"
        BY <1>4, <2>1 DEF OnTheWay
  <2>3. PICK C : Way(C) /\ Holding(C[step])
        BY <1>4, <2>1 DEF OnTheWay
  <2>4. PICK t, c, d : t = Current /\ c = C[step] /\ d = C[step + 1] /\ Leads(t, c, d)
        BY <2>1, <2>3 DEF Way, Current
  <2>5. /\ t.do \in Local => Holds(t)
        /\ t.do \notin Local => Accepts(t) /\ ~Throws(t)
        /\ t.do \notin Local /\ Carry(t) /\ Remember(t, step) => Holding(d)'
        /\ t.do \in Local /\ UNCHANGED <<stored, ids, data>> => Holding(d)'
        BY <2>2, <2>3, <2>4, ReadyTestPasses
  <2>6. UNCHANGED <<file, token, late, pending>> /\ Verdict(TRUE) /\ Holding(d)'
    <3>1. CASE RunCheck
      <4>1. Holds(t) = TRUE
        <5>1. Holds(t) \in BOOLEAN /\ Holds(t)
              BY <2>4, <2>5, <3>1 DEF RunCheck, Holds
        <5> QED BY <5>1
      <4> QED BY <2>4, <2>5, <3>1, <4>1 DEF RunCheck, platform
    <3>2. CASE TestThrows
          BY <2>4, <2>5, <3>2 DEF TestThrows, Throws, Local
    <3>3. CASE Answer
      <4>1. t.do \notin Local
            BY <1>4, <2>4, <3>3 DEF Answer, OnTheWay
      <4>2. Accepts(t) = TRUE
        <5>1. Accepts(t) \in BOOLEAN /\ Accepts(t)
              BY <2>5, <4>1 DEF Accepts
        <5> QED BY <5>1
      <4> QED BY <2>4, <2>5, <3>3, <4>1, <4>2 DEF Answer
    <3> QED BY <1>10, <3>1, <3>2, <3>3
  <2>7. phase' = "idle" /\ step' = step + 1 /\ exitFailed' = FALSE
        BY <1>4, <2>6 DEF Verdict, OnTheWay
  <2>8. Way(C)' /\ Holding(C[step])'
    <3>1. Way(C)'
          BY <1>6, <2>3, <2>6
    <3>2. C[step'] = d
          BY <2>4, <2>7
    <3> QED BY <2>6, <3>1, <3>2 DEF Holding
  <2> QED BY <1>4, <2>2, <2>6, <2>7, <2>8 DEF OnTheWay
<1>11. CASE FinishFile
  <2>1. phase = "idle" /\ step = Len(Tests) + 1
    <3>1. Len(Tests) \in Nat
          BY <1>11, TestsOrderly DEF FinishFile, Placed
    <3> QED BY <1>11, <3>1 DEF FinishFile, Placed
  <2>2. PICK C : Way(C) /\ Holding(C[step])
        BY <1>4, <2>1 DEF OnTheWay
  <2>3. Fresh \cap stored = {}
        BY <2>1, <2>2 DEF Way, Holding
  <2> QED BY <1>4, <1>11, <2>3, NextFileHealthy DEF FinishFile, platform
<1>12. CASE LateAnswer \/ WorkflowEnds
      BY <1>4, <1>12 DEF LateAnswer, WorkflowEnds, OnTheWay
<1>13. CASE TokenRefused \/ TokenFails \/ OtherBody \/ Refused \/ AnswerLost \/ TimedOut \/ SlowWorkflow
      BY <1>2, <1>13 DEF TokenRefused, TokenFails, OtherBody, Refused, AnswerLost, TimedOut, SlowWorkflow
<1>14. CASE Ended \/ UNCHANGED vars
  <2>1. UNCHANGED <<file, phase, step, token, late, pending, stored, ids, data, exitFailed>>
        BY <1>14 DEF Ended, vars, platform, fileVars
  <2>4. Current' = Current
        BY <1>5, <2>1 DEF Current
  <2>2. \A c : Holding(c) => Holding(c)'
        BY <2>1 DEF Holding
  <2>3. \A C : Way(C) /\ Holding(C[step]) => Way(C)' /\ Holding(C[step])'
        BY <1>6, <2>1 DEF Holding
  <2> QED BY <1>4, <2>1, <2>2, <2>3, <2>4 DEF OnTheWay
<1> QED BY <1>7, <1>8, <1>9, <1>10, <1>11, <1>12, <1>13, <1>14 DEF Next, Mocha

\* With the flags of config.js and a platform that does as it should, every test passes,
\* whatever earlier runs have left behind but for the names a test takes no existing for:
\* each test finds on the platform what it needs, and nothing of what must be fresh.
THEOREM HealthyIsGreen == Spec => []HealthyRunIsGreen
<1>1. Placed /\ Healthy => HealthyRunIsGreen
      BY DEF Healthy, Undisturbed, OnTheWay, HealthyRunIsGreen
<1>2. Init => Placed /\ Healthy
      BY PlacedAtFirst, HealthyAtFirst
<1>3. Placed /\ Healthy /\ [Next]_vars => (Placed /\ Healthy)'
      BY StepPlaced, StepHealthy
<1> QED BY <1>1, <1>2, <1>3, PTL DEF Spec
=============================================================================
