--------------------------- MODULE ProbeScenarios ---------------------------
(***************************************************************************)
(* The scenario files of source/probe-test-client, each as the sequence of *)
(* its tests.  A test is a call to a service of the platform or a check of *)
(* what earlier tests have fetched; of the calls, what they create, need,  *)
(* use and hand on is kept.  Headers, payloads and query texts are not.    *)
(***************************************************************************)
EXTENDS Naturals, Sequences

None == "none"

\* do    what the test asks of the service, and with it which answers it accepts
\* res   the resources of the platform it is about
\* needs the resources without which the service refuses
\* uses, gives  the variable with the id it sends, or gets back
\* body  what it stores in, or compares with, the variable data
Test == [do |-> "read", res |-> {}, needs |-> {}, uses |-> None, gives |-> None, body |-> None]

Read        == Test
Fetch(b)    == [Test EXCEPT !.body = b]
Get(r)      == [Test EXCEPT !.do = "get", !.res = {r}]
List(r, b)  == [Get(r) EXCEPT !.body = b]
Absent(r)   == [Test EXCEPT !.do = "absent", !.res = {r}]
\* mutant: an existing resource is not accepted
MakeNew(r)  == [Test EXCEPT !.do = "new", !.res = {r}]
Make(r)     == [Test EXCEPT !.do = "make", !.res = {r}]
New(r)      == [Test EXCEPT !.do = "new", !.res = {r}]
Delete(r)   == [Test EXCEPT !.do = "delete", !.res = {r}]
\* the last two tests of the entitlements delete one group twice
Remove(r)   == [Test EXCEPT !.do = "remove", !.res = {r}]
Run(rs, id) == [Test EXCEPT !.do = "run", !.res = rs, !.gives = id]
Search(rs)  == [Test EXCEPT !.do = "search", !.res = rs]
Check(b)    == [Test EXCEPT !.do = "check", !.body = b]
Same        == [Test EXCEPT !.do = "same"]
\* the test fails at a name or an api that is not there, before it calls anything
Throwing    == [Test EXCEPT !.do = "throws"]
Through(t, id) == [t EXCEPT !.uses = id]
For(t, id)     == [t EXCEPT !.gives = id]
With(t, r)     == [t EXCEPT !.needs = @ \cup {r}]
ByUrl(t, id)   == [t EXCEPT !.do = "url", !.uses = id]

\* a block of tests under a flag of config.js; o is the set of flags turned off
When(flag, o, tests) == IF flag \in o THEN <<>> ELSE tests

-----------------------------------------------------------------------------
(* services with a scenario each *)

CrsCatalog(o) ==
  When("getArea", o, <<Fetch("area"), Check("area")>>)
  \o When("getCatalog", o, <<Fetch("catalog"), Check("catalog")>>)
  \o When("getCRS", o, <<Fetch("crs"), Check("crs")>>)

CrsConversion(o) ==
  When("pointConversion", o, <<Fetch("point"), Check("point")>>)
  \o When("geoJsonConversion", o, <<Read>>)
  \o When("trajectoryConversion", o, <<Fetch("trajectory"), Check("trajectory")>>)

Roles == {"viewers", "editors", "admins", "ops"}

EntitlementsCreate(o) ==
  When("privilegedAccess", o, <<Read, Read>>)
  \o <<Make("group"), With(Make("groupAdmin"), "group"), Read, Make("user")>>

\* a member of the group already is refused here, but not above
EntitlementsRoles ==
  <<With(Read, "user")>>
  \o <<With(New("viewers"), "user"), With(New("editors"), "user"),
       With(New("admins"), "user"), With(New("ops"), "user")>>

\* the answer of every list is looked through for the same user
EntitlementsLists ==
  <<List("viewers", "member"), Check("member"), List("editors", "member"), Check("member"),
    List("admins", "member"), Check("member"), List("ops", "member"), Check("member")>>

EntitlementsCleanup ==
  <<Delete("ops"), Delete("admins"), Delete("editors"), Delete("viewers"),
    Delete("user"), Remove("group"), Remove("group")>>

Entitlements(o) ==
  When("entitlements", o,
       EntitlementsCreate(o) \o EntitlementsRoles \o EntitlementsLists \o EntitlementsCleanup)

IngestionWorkflow(o) ==
  When("getAllWorkflows", o, <<Read>>)
  \o When("createWorkflow", o,
          <<New("workflow")>>
          \o When("getCreatedWorkflow", o, <<List("workflow", "workflow"), Check("workflow")>>)
          \o <<Delete("workflow")>>)

Legal(o) ==
  When("getAllLegalTags", o, <<Read>>)
  \o When("createLegalTag", o,
          <<Make("crudTag")>>
          \o When("getCreatedLegalTag", o, <<List("crudTag", "tag"), Check("tag")>>)
          \o <<Delete("crudTag")>>)

\* a notification of the shape of the real ones, that subscribes to nothing
Notification(o) == When("createSubscription", o, <<Read>>)

Partition(o) ==
  When("preCreateGetPartition", o, <<Absent("partition")>>)
  \o When("createPartition", o,
          <<New("partition")>>
          \o When("getCreatedPartition", o, <<List("partition", "partition"), Check("partition")>>)
          \o <<Delete("partition")>>)

\* two tests look for their api in the legal service, which has neither
Policy(o) ==
  When("getAllPolicies", o, <<Read, Read>>)
  \o When("evaluatePolicy", o, <<Throwing>>)
  \o When("createTestPolicy", o,
          <<Throwing>>
          \o When("getTestPolicy", o, <<Get("policy")>>)
          \o <<Delete("policy")>>
          \o When("getTestPolicy", o, <<Get("policy")>>))

\* without an answer the id is that of another subscription
RegisterSubscription(o) ==
  When("subscriptionScenario", o,
       <<For(Make("registered"), "subscriptionId"), Through(Get("registered"), "subscriptionId"),
         Through(Delete("registered"), "subscriptionId")>>)

RegisterDdms(o)   == When("ddmsScenario", o, <<Make("ddms"), Get("ddms"), Delete("ddms")>>)
RegisterAction(o) == When("actionScenario", o, <<Make("action"), Get("action"), Delete("action")>>)

Register(o) == RegisterSubscription(o) \o RegisterDdms(o) \o RegisterAction(o)

\* the test named Delete sends a GET
Schema(o) ==
  When("getSchemaById", o, <<Read>>)
  \o When("getAllSchemas", o, <<Read>>)
  \o When("createSchema", o, <<Make("schema")>>)
  \o When("getCreatedSchemaById", o, <<Get("schema")>>)
  \o When("deleteSchema", o, <<Get("schema")>>)

\* searches of which only the status is looked at
Queries(n) == [i \in 1 .. n |-> Read]

StandardTextQueries      == Queries(6)
StandardWellQueries      == Queries(6)
StandardAggregateQueries == Queries(4)
EnrichedTextQueries      == Queries(6)
EnrichedWellQueries      == Queries(6)
EnrichedSpatialQueries   == Queries(4)
EnrichedRangeQueries     == Queries(4)
SeismicNameQueries       == Queries(5)
SeismicRegionQueries     == Queries(5)

SearchCrud(o) ==
  When("standardQueries", o, StandardTextQueries \o StandardWellQueries \o StandardAggregateQueries)
  \o When("enrichedQueries", o, EnrichedTextQueries \o EnrichedWellQueries
                                \o EnrichedSpatialQueries \o EnrichedRangeQueries)
  \o When("seismicQueries", o, SeismicNameQueries \o SeismicRegionQueries)

Unit(o) ==
  When("getUnits", o, <<Fetch("units"), Check("units")>>)
  \o When("getUnitCatalog", o, <<Fetch("unitCatalog"), Check("unitCatalog")>>)
  \o When("getMeasurements", o, <<Fetch("measurements"), Check("measurements")>>)
  \o When("getUnitMaps", o, <<Fetch("unitMaps"), Check("unitMaps")>>)
  \o When("getUnitSystems", o, <<Fetch("unitSystems"), Check("unitSystems")>>)

-----------------------------------------------------------------------------
(* scenarios across services; all but the last use the same legal tag *)

TagTests(t) == <<Read, Make(t), List(t, "tag"), Check("tag")>>

CsvSchemas == <<Read, Read, New("csvSchema"), Get("csvSchema")>>

\* Upload File parses the URL before it calls anything
CsvUpload ==
  <<For(Read, "fileUrl"), ByUrl(Test, "fileUrl"),
    Through(With(For(Make("csvFile"), "metadataId"), "checkTag"), "fileUrl"),
    Through(Get("csvFile"), "metadataId")>>

CsvRuns ==
  <<Through(Run({"csvRecord1", "csvRecord2"}, "runId"), "metadataId"), Through(Read, "runId")>>

\* both searches assign to an undeclared searchQuery, and nothing else sets the ids
CsvSearches ==
  <<Throwing, Through(Get("csvRecord1"), "recordId1"),
    Throwing, Through(Get("csvRecord2"), "recordId2")>>

\* the schema is deleted from storage, not where it was created
CsvCleanup ==
  <<Through(Delete("csvRecord1"), "recordId1"), Through(Delete("csvRecord2"), "recordId2"),
    Delete("storageSchema"), Delete("checkTag")>>

CsvIngest(o) ==
  When("csvIngest", o,
       TagTests("checkTag") \o CsvSchemas \o CsvUpload \o CsvRuns \o CsvSearches \o CsvCleanup)

\* the file's metadata are a record nobody deletes
FileTransfer ==
  <<Read, For(Read, "fileUrl"), Read, ByUrl(Test, "fileUrl"),
    Through(With(For(Make("file"), "metadataId"), "checkTag"), "fileUrl"),
    Through(Get("file"), "metadataId")>>

FileDownload ==
  <<For(Through(Get("file"), "metadataId"), "downloadUrl"), ByUrl(Test, "downloadUrl"),
    Delete("checkTag")>>

FileUpload(o) == When("fileUpload", o, TagTests("checkTag") \o FileTransfer \o FileDownload)

ManifestWorkflow == <<Read, Make("osduIngest"), Get("osduIngest")>>

\* of the records of one manifest, r is searched for and deleted, the rest stays
Manifest(r, rest, runId, recordId) ==
  <<With(Run({r} \cup rest, runId), "osduIngest"), Through(With(Read, "osduIngest"), runId),
    For(Search({r}), recordId), Through(Get(r), recordId), Through(Delete(r), recordId)>>

ManifestTC1 == Manifest("kirchhoff", {}, "run1", "record1")
ManifestTC2 == Manifest("angleMute", {"conversions"}, "run2", "record2")
ManifestTC3 == Manifest("well", {}, "run3", "record3")
ManifestTC4 == Manifest("workProduct", {"components"}, "run4", "record4")

ManifestIngest(o) ==
  When("manifestIngest", o,
       TagTests("checkTag") \o ManifestWorkflow \o ManifestTC1 \o ManifestTC2
       \o ManifestTC3 \o ManifestTC4 \o <<Delete("checkTag")>>)

RecordTests ==
  <<With(For(Make("qaRecord"), "recordId"), "checkTag"), Through(Get("qaRecord"), "recordId"), Read,
    For(Through(Get("qaRecord"), "recordId"), "version"), Through(Get("qaRecord"), "recordId")>>

\* mutant: the legal tag goes first
RecordSearchAndTagCleanup ==
  <<Search({"qaRecord", "kirchhoff", "angleMute", "conversions"}),
    Delete("checkTag"), Through(Delete("qaRecord"), "recordId")>>

\* any record of the kind will do
RecordSearchAndCleanup ==
  <<Search({"qaRecord", "kirchhoff", "angleMute", "conversions"}),
    Through(Delete("qaRecord"), "recordId"), Delete("checkTag")>>

RecordSchema(o) ==
  When("recordSchema", o, TagTests("checkTag") \o <<Read>> \o RecordTests \o RecordSearchAndCleanup)

InsertRecord ==
  <<With(For(Make("probeRecord"), "recordId"), "probeTag"), Through(Get("probeRecord"), "recordId")>>

\* Search: Validate compares the id that was found with the id of the record
FindRecord ==
  <<For(Search({"probeRecord"}), "foundId"), Same,
    Through(Delete("probeRecord"), "recordId"), Delete("probeTag")>>

SearchInserted(o) ==
  When("searchInsertedRecord", o, TagTests("probeTag") \o InsertRecord \o FindRecord)

-----------------------------------------------------------------------------
(* the run *)

\* the flags config.js turns off
Configured ==
  {"geoJsonConversion", "privilegedAccess", "createSubscription", "getAllPolicies",
   "evaluatePolicy", "createTestPolicy", "getTestPolicy", "subscriptionScenario",
   "deleteSchema", "csvIngest"}

\* mocha runs the files in the order of their names
Files(o) ==
  <<CrsCatalog(o), CrsConversion(o), Entitlements(o), IngestionWorkflow(o), Legal(o),
    Notification(o), Partition(o), Policy(o), Register(o), Schema(o), SearchCrud(o), Unit(o),
    CsvIngest(o), FileUpload(o), ManifestIngest(o), RecordSchema(o), SearchInserted(o)>>

\* the legal tag a record carries; storage refuses a record whose tag is unknown
TagOf(r) == IF r = "probeRecord" THEN "probeTag" ELSE "checkTag"

Records ==
  {"csvFile", "csvRecord1", "csvRecord2", "file", "kirchhoff", "angleMute", "conversions",
   "well", "workProduct", "components", "qaRecord", "probeRecord"}

\* of these names, the ones the probe does not accept as existing
Unforgiven == {"workflow"} \cup Roles

\* what has the same name in every run of the probe
FixedNames ==
  {"group", "groupAdmin", "user", "workflow", "crudTag", "checkTag", "probeTag", "ddms",
   "action", "schema", "osduIngest", "kirchhoff", "angleMute", "conversions", "well",
   "workProduct", "components"} \cup Roles
=============================================================================
