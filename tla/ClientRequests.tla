--------------------------- MODULE ClientRequests ---------------------------
(***************************************************************************)
(* The request builders of the client library (wdms_client), as a table:   *)
(* which path, record type, schema version, id and data each one sends.    *)
(*                                                                         *)
(* The builders are long literals.  The model keeps what decides where a   *)
(* request goes and how it is checked, and gives the data of a payload and *)
(* of a reference a name: a payload and a reference of one name have the   *)
(* same data, tags and meta.                                               *)
(***************************************************************************)

\* The four requests on an existing record: the path segment and the entry
\* whose record id variable they use.
Paths(base, var) ==
    [op \in {"get", "delete", "versions", "version"} |->
        [base |-> base, var |-> var]]
\* A creation: the segment, the record type and the version of the kind, the
\* data, and whether the payload names an id.
Create(base, type, schema, data, fixed) ==
    [base |-> base, type |-> type, schema |-> schema, data |-> data,
     fixed |-> fixed]
\* A reference: the kind it states and the data.
Ref(type, schema, data) == [type |-> type, schema |-> schema, data |-> data]

paths_osdu_wellbore == Paths("wellbores", "osdu_wellbore")
create_osdu_wellbore ==
    Create("wellbores", "Wellbore", "1.3.0", "osdu_wellbore", FALSE)
ref_osdu_wellbore == Ref("Wellbore", "1.3.0", "osdu_wellbore")

paths_osdu_wellbore_120 == Paths("wellbores", "osdu_wellbore_120")
create_osdu_wellbore_120 ==
    Create("wellbores", "Wellbore", "1.2.0", "osdu_wellbore_120", FALSE)
ref_osdu_wellbore_120 == Ref("Wellbore", "1.2.0", "osdu_wellbore_120")

paths_osdu_wellbore_100 == Paths("wellbores", "osdu_wellbore_100")
create_osdu_wellbore_100 ==
    Create("wellbores", "Wellbore", "1.0.0", "osdu_wellbore_100", FALSE)
ref_osdu_wellbore_100 == Ref("Wellbore", "1.0.0", "osdu_wellbore_100")

paths_osdu_wellbore_111 == Paths("wellbores", "osdu_wellbore_111")
create_osdu_wellbore_111 ==
    Create("wellbores", "Wellbore", "1.1.0", "osdu_wellbore_111", FALSE)
ref_osdu_wellbore_111 == Ref("Wellbore", "1.1.1", "osdu_wellbore_111")

\* The path builders of the three well entries.
paths_osdu_well ==
    [v \in {"osdu_well", "osdu_well_100", "osdu_well_110"} |->
        Paths("wells", v)]
create_osdu_well == Create("wells", "Well", "1.2.0", "osdu_well", FALSE)
ref_osdu_well == Ref("Well", "1.2.0", "osdu_well")

create_osdu_well_100 ==
    Create("wells", "Well", "1.0.0", "osdu_well_100", FALSE)
ref_osdu_well_100 == Ref("Well", "1.0.0", "osdu_well_100")

create_osdu_well_110 ==
    Create("wells", "Well", "1.1.0", "osdu_well_110", FALSE)
ref_osdu_well_110 == Ref("Well", "1.1.0", "osdu_well_110")

paths_osdu_welllog == Paths("welllogs", "osdu_welllog")
create_osdu_welllog ==
    Create("welllogs", "WellLog", "1.2.0", "osdu_welllog", TRUE)
ref_osdu_welllog == Ref("WellLog", "1.2.0", "osdu_welllog")
\* A kind no schema exists for.
create_osdu_unknown_kind_welllog ==
    Create("welllogs", "WellLog", "99.99.99", "unknown", FALSE)

paths_osdu_wellboretrajectory ==
    Paths("wellboretrajectories", "osdu_wellboretrajectory")
create_osdu_wellboretrajectory ==
    Create("wellboretrajectories", "WellboreTrajectory", "1.1.0",
        "osdu_wellboretrajectory", TRUE)
ref_osdu_wellboretrajectory ==
    Ref("WellboreTrajectory", "1.1.0", "osdu_wellboretrajectory")

paths_osdu_wellboremarkerset ==
    Paths("wellboremarkersets", "osdu_wellboremarkerset")
create_osdu_wellboremarkerset ==
    Create("wellboremarkersets", "WellboreMarkerSet", "1.2.1",
        "osdu_wellboremarkerset", TRUE)
ref_osdu_wellboremarkerset ==
    Ref("WellboreMarkerSet", "1.2.1", "osdu_wellboremarkerset")

paths_osdu_wellboreintervalset_100 ==
    Paths("wellboreintervalsets", "osdu_wellboreintervalset_100")
create_osdu_wellboreintervalset_100 ==
    Create("wellboreintervalsets", "WellboreIntervalSet", "1.0.0",
        "osdu_wellboreintervalset_100", TRUE)
ref_osdu_wellboreintervalset_100 ==
    Ref("WellboreIntervalSet", "1.0.0", "osdu_wellboreintervalset_100")

paths_osdu_welllogacquisition ==
    Paths("welllogacquisition", "osdu_welllogacquisition")
create_osdu_welllogacquisition ==
    Create("welllogacquisition", "WellLogAcquisition", "1.0.0",
        "osdu_welllogacquisition", TRUE)
ref_osdu_welllogacquisition ==
    Ref("WellLogAcquisition", "1.0.0", "osdu_welllogacquisition")

paths_osdu_ppfgdataset == Paths("ppfgdataset", "osdu_ppfgdataset")
create_osdu_ppfgdataset ==
    Create("ppfgdataset", "PPFGDataset", "1.2.0", "osdu_ppfgdataset", TRUE)
ref_osdu_ppfgdataset == Ref("PPFGDataset", "1.2.0", "osdu_ppfgdataset")

paths_osdu_wellpressuretestrawmeasurement ==
    Paths("wellpressuretestrawmeasurement",
        "osdu_wellpressuretestrawmeasurement")
create_osdu_wellpressuretestrawmeasurement ==
    Create("wellpressuretestrawmeasurement",
        "WellPressureTestRawMeasurement", "1.1.0",
        "osdu_wellpressuretestrawmeasurement", TRUE)
ref_osdu_wellpressuretestrawmeasurement ==
    Ref("WellPressureTestRawMeasurement", "1.1.0",
        "osdu_wellpressuretestrawmeasurement")

-----------------------------------------------------------------------------
\* The builders by entry; an entry of an unknown kind has no record to read.
Builders(paths, create) == [paths |-> paths, create |-> create]
request_path_dict ==
    [osdu_wellbore |-> Builders(paths_osdu_wellbore, create_osdu_wellbore),
     osdu_wellbore_120 |->
        Builders(paths_osdu_wellbore_120, create_osdu_wellbore_120),
     osdu_wellbore_100 |->
        Builders(paths_osdu_wellbore_100, create_osdu_wellbore_100),
     osdu_wellbore_111 |->
        Builders(paths_osdu_wellbore_111, create_osdu_wellbore_111),
     osdu_well |-> Builders(paths_osdu_well["osdu_well"], create_osdu_well),
     osdu_well_100 |->
        Builders(paths_osdu_well["osdu_well_100"], create_osdu_well_100),
     osdu_well_110 |->
        Builders(paths_osdu_well["osdu_well_110"], create_osdu_well_110),
     osdu_welllog |-> Builders(paths_osdu_welllog, create_osdu_welllog),
     osdu_wellboretrajectory |->
        Builders(paths_osdu_wellboretrajectory,
                 create_osdu_wellboretrajectory),
     osdu_wellboremarkerset |->
        Builders(paths_osdu_wellboremarkerset, create_osdu_wellboremarkerset),
     osdu_wellboreintervalset_100 |->
        Builders(paths_osdu_wellboreintervalset_100,
                 create_osdu_wellboreintervalset_100),
     osdu_welllogacquisition |->
        Builders(paths_osdu_welllogacquisition,
                 create_osdu_welllogacquisition),
     osdu_ppfgdataset |->
        Builders(paths_osdu_ppfgdataset, create_osdu_ppfgdataset),
     osdu_wellpressuretestrawmeasurement |->
        Builders(paths_osdu_wellpressuretestrawmeasurement,
                 create_osdu_wellpressuretestrawmeasurement),
     unknown_kind_osdu_welllog |->
        Builders(<<>>, create_osdu_unknown_kind_welllog)]

\* The reference of an entry, as the functional tests ask for it.
get_cleaned_ref_and_res ==
    [osdu_wellbore |-> ref_osdu_wellbore,
     osdu_wellbore_120 |-> ref_osdu_wellbore_120,
     osdu_wellbore_100 |-> ref_osdu_wellbore_100,
     osdu_wellbore_111 |-> ref_osdu_wellbore_111,
     osdu_well |-> ref_osdu_well,
     osdu_well_100 |-> ref_osdu_well_100,
     osdu_well_110 |-> ref_osdu_well_110,
     osdu_welllog |-> ref_osdu_welllog,
     osdu_wellboretrajectory |-> ref_osdu_wellboretrajectory,
     osdu_wellboremarkerset |-> ref_osdu_wellboremarkerset,
     osdu_wellboreintervalset_100 |-> ref_osdu_wellboreintervalset_100,
     osdu_welllogacquisition |-> ref_osdu_welllogacquisition,
     osdu_ppfgdataset |-> ref_osdu_ppfgdataset,
     osdu_wellpressuretestrawmeasurement |->
        ref_osdu_wellpressuretestrawmeasurement]

\* A record against its reference.  The comparison leaves out the acl, the id,
\* the kind, the legal tags, the version, the users and the times, so the
\* schema version of the reference is not compared.
diff_record_against_ref(name, data) ==
    get_cleaned_ref_and_res[name].data # data
=============================================================================
