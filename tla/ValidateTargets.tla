-------------------------- MODULE ValidateTargets --------------------------
(***************************************************************************)
(* test-harness/infratests/validate.go: the attributes a plan or an output *)
(* has are compared with those a test expects by a search through maps and *)
(* lists in parallel.  A value is a record of its type with a scalar, a    *)
(* sequence and a function, of which its type uses one.  Values come from  *)
(* JSON and from literals: they are finite trees.                          *)
(***************************************************************************)
EXTENDS Naturals, Sequences

CONSTANTS
  Values,      \* the values that occur, with all their parts
  Depth,       \* how deep each value is
  Documents    \* bound: the maps that are compared

ScalarTypes == {"bool", "int", "string"}
Types == ScalarTypes \cup {"nil", "list", "map"}

Elements(v) == {v.list[k] : k \in 1 .. Len(v.list)}
Entries(v) == {v.map[k] : k \in DOMAIN v.map}

ASSUME ValidateAssumption ==
  /\ Depth \in [Values -> Nat]
  /\ Documents \subseteq {v \in Values : v.type = "map"}
  /\ \A v \in Values :
       /\ v.type \in Types
       /\ v.list \in Seq(Values)
       /\ \A w \in Elements(v) \cup Entries(v) : w \in Values /\ Depth[w] < Depth[v]
       /\ v.type # "list" => v.list = <<>>
       /\ v.type # "map" => DOMAIN v.map = {}
       /\ v.type \notin ScalarTypes => v.scalar = ""

VARIABLES
  dataSource, searchTargets,  \* of the call
  found                       \* "none" yet, "match" for nil, "error"

validateVars == <<dataSource, searchTargets, found>>

ValidateInit ==
  /\ dataSource \in Documents /\ searchTargets \in Documents
  /\ found = "none"

IsSameType(a, b) == a.type = b.type

\* mutant: only the first element is a candidate
InListAtPlace(inMap, source, targets) ==
  \A target \in Elements(targets) :
    /\ Len(source.list) > 0
    /\ LET candidate == source.list[1]
       IN  /\ IsSameType(candidate, target)
           /\ \/ target.type \in ScalarTypes /\ candidate.scalar = target.scalar
              \/ target.type = "map" /\ inMap[<<candidate, target>>]

\* verifyTargetsExistInList: some element is enough, and one may serve several targets
InList(inMap, source, targets) ==
  \A target \in Elements(targets) : \E candidate \in Elements(source) :
    /\ IsSameType(candidate, target)
    /\ \/ target.type \in ScalarTypes /\ candidate.scalar = target.scalar
       \/ target.type = "map" /\ inMap[<<candidate, target>>]

\* the body of the loop of verifyTargetsExistInMap, with inMap for its call of itself;
\* any other type, nil among them, is an error
Compare(inMap, candidate, target) ==
  /\ IsSameType(candidate, target)
  /\ \/ target.type \in ScalarTypes /\ candidate.scalar = target.scalar
     \/ target.type = "list" /\ InList(inMap, candidate, target)
     \/ target.type = "map" /\ inMap[<<candidate, target>>]

\* mutant: a key the source does not have is passed over
VerifyIfThere(inMap, source, targets) ==
  \A key \in DOMAIN targets.map \cap DOMAIN source.map :
    Compare(inMap, source.map[key], targets.map[key])

Verify(inMap, source, targets) ==
  \A key \in DOMAIN targets.map :
    key \in DOMAIN source.map /\ Compare(inMap, source.map[key], targets.map[key])

\* verifyTargetsExistInMap(dataSource, searchTargets) = nil
InMap[p \in Values \X Values] == Verify(InMap, p[1], p[2])

VerifyTargetsExistInMap ==
  /\ found = "none"
  /\ found' = IF InMap[<<dataSource, searchTargets>>] THEN "match" ELSE "error"
  /\ UNCHANGED <<dataSource, searchTargets>>

ValidateEnded == found # "none"

ValidateSpec == ValidateInit /\ [][VerifyTargetsExistInMap]_validateVars

-----------------------------------------------------------------------------
(* properties *)

Under(step, facts) == {<<<<step>> \o f[1], f[2], f[3]>> : f \in facts}

\* what a value states, a path of keys and list elements, and the type and value there,
\* with facts for those of its parts
Stated(facts, v) ==
  {<<<<>>, v.type, v.scalar>>}
    \cup (UNION {Under("[]", facts[w]) : w \in Elements(v)})
    \cup (UNION {Under(k, facts[v.map[k]]) : k \in DOMAIN v.map})

Facts[v \in Values] == Stated(Facts, v)

\* The comparison of nil, and of a list in a list, is not implemented.
Comparable(v) ==
  \A f \in Facts[v] :
    /\ f[2] # "nil"
    /\ f[2] = "list" => f[1][Len(f[1])] # "[]"

\* A match is never accidental: everything the test expects is stated by the source, at
\* the same place and, in lists, by some element.
MatchIsStated == found = "match" => Facts[searchTargets] \subseteq Facts[dataSource]

\* Matching is a preorder: a comparable document matches itself, and what matches a
\* match matches the source, so that an expectation that is narrowed goes on to hold.
MatchIsPreorder ==
  /\ found = "error" /\ dataSource = searchTargets => ~Comparable(searchTargets)
  /\ found = "match" => \A m \in Documents : InMap[<<searchTargets, m>>] => InMap[<<dataSource, m>>]
=============================================================================
