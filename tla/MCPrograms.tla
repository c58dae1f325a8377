----------------------------- MODULE MCPrograms -----------------------------
(***************************************************************************)
(* Small instances of the programs that run by themselves.  They share     *)
(* nothing: a behaviour is one of the program that the first state names.  *)
(***************************************************************************)
EXTENDS LegalTagJob, KedaUpgrade, CommonPrepare, StatsdBackend, ValidateTargets

CONSTANT MaxDisturbances  \* bound: the disturbances of common_prepare, but for further stops

ASSUME MCAssumption == MaxDisturbances \in Nat

VARIABLE program

programVars == <<program, legalVars, kedaVars, prepareVars, statsdVars, validateVars>>

TwoIdentities == <<"terraform", "principal">>
TwoPartitions == {"opendes", "common"}

SomeKeys ==
  <<[head |-> "statsd",  name |-> "bad_lines_seen", props |-> "none"],
    [head |-> "airflow", name |-> "dag", props |-> "bad"],
    [head |-> "airflow", name |-> "dag", props |-> "good"],
    [head |-> "airflow", name |-> "",    props |-> "good"],
    [head |-> "airflow", name |-> "",    props |-> "bad"],
    [head |-> "other",   name |-> "dag", props |-> "none"]>>

Scalar(t, s) == [type |-> t, scalar |-> s, list |-> <<>>, map |-> [k \in {} |-> 0]]
List(s) == [type |-> "list", scalar |-> "", list |-> s, map |-> [k \in {} |-> 0]]
Map(m)  == [type |-> "map", scalar |-> "", list |-> <<>>, map |-> m]

Pieces ==
  {Scalar("string", "a"), Scalar("string", "1"), Scalar("int", "1"), Scalar("nil", ""), List(<<>>),
   Map([name |-> Scalar("string", "a")]),
   Map([name |-> Scalar("string", "a"), tags |-> Scalar("int", "1")])}

Attributes ==
  Pieces
    \cup {List(<<x>>) : x \in Pieces}
    \cup {List(<<x, y>>) : x, y \in Pieces \ {Scalar("nil", ""), List(<<>>)}}

SomeDocuments ==
  {Map([name |-> v]) : v \in Attributes}
    \cup {Map([name |-> Scalar("string", "a"), tags |-> v]) : v \in Pieces}

SomeValues == Attributes \cup SomeDocuments

\* pieces are scalars or maps of scalars, and lists are of pieces
SomeDepth ==
  [v \in SomeValues |->
    CASE v.list # <<>> -> 2
      [] \E w \in Entries(v) : w.list # <<>> \/ Entries(w) # {} -> 3
      [] Entries(v) # {} /\ \A w \in Entries(v) : w.list = <<>> /\ Entries(w) = {} -> 1
      [] OTHER -> 0]

Programs == {"legal tags", "keda upgrade", "common_prepare", "statsd backend", "validate"}

\* the variables of the other programs keep the first of their initial values
MCInit ==
  /\ program \in Programs
  /\ LegalInit /\ KedaInit
  /\ PrepareInit /\ RANDOM_NUMBER = CHOOSE n \in PrepareNumbers : TRUE
  /\ StatsdInit /\ (program # "statsd backend" => aiPrefix = "none" /\ trackStatsDMetrics)
  /\ IF program = "validate"
     THEN ValidateInit
     ELSE dataSource = <<>> /\ searchTargets = <<>> /\ found = "none"

Ended ==
  CASE program = "legal tags" -> LegalEnded
    [] program = "keda upgrade" -> KedaEnded
    [] program = "common_prepare" -> PrepareEnded
    [] program = "statsd backend" -> StatsdEnded
    [] program = "validate" -> ValidateEnded

MCStep ==
  /\ UNCHANGED program
  /\ \/ program = "legal tags" /\ LegalStep /\ UNCHANGED <<kedaVars, prepareVars, statsdVars, validateVars>>
     \/ program = "keda upgrade" /\ KedaStep /\ UNCHANGED <<legalVars, prepareVars, statsdVars, validateVars>>
     \/ /\ program = "common_prepare" /\ PrepareStep
        /\ disturbances' = disturbances \/ disturbances' <= MaxDisturbances \/ Stop
        /\ UNCHANGED <<legalVars, kedaVars, statsdVars, validateVars>>
     \/ program = "statsd backend" /\ StatsdStep /\ UNCHANGED <<legalVars, kedaVars, prepareVars, validateVars>>
     \/ program = "validate" /\ VerifyTargetsExistInMap /\ UNCHANGED <<legalVars, kedaVars, prepareVars, statsdVars, dataSource, searchTargets>>

Terminated == Ended /\ UNCHANGED programVars

MCNext == MCStep \/ Terminated

\* no step of a program waits for another
MCSpec == MCInit /\ [][MCNext]_programVars /\ WF_programVars(MCStep)

\* Every variable has its type, and the attempts and retries stay within their limits.
ProgramsTypeOK == LegalTypeOK /\ KedaTypeOK /\ PrepareTypeOK

\* Every program comes to its end, however its calls, loops and attempts go: no retry is
\* without a limit, and no step leaves it where no other goes on.
EveryProgramEnds == <>[]Ended
=============================================================================
