--------------------------- MODULE RTGenericDanteCU ---------------------------
(***************************************************************************)
(* The control unit of a DANTE element and its private DanteDriver.  One   *)
(* getDataset defines the attributes of the output dataset, once; every    *)
(* run copies the items of another one into them and hands the dataset on. *)
(* A DanteDriver that is registered as a driver serves other clients       *)
(* instead.                                                                *)
(***************************************************************************)
EXTENDS DanteDriver

VARIABLES
    owner,    \* who calls the driver: "clients" or this "unit"
    unit,     \* "new", "define", "ready", or "run" inside unitRun
    defined,  \* the items that are attributes of the output dataset
    dataset   \* the output dataset

cuVars == <<owner, unit, defined, dataset>>
unitVars == <<danteVars, cuVars>>

\* The constructor calls driverInit.
UnitInit ==
    /\ DanteInit
    /\ owner \in {"clients", "unit"}
    /\ unit = "new"
    /\ defined = {}
    /\ dataset = ibuf

-----------------------------------------------------------------------------
Clients ==
    /\ owner = "clients"
    /\ \/ \E typ \in DSTYPE : GetDataset(typ)
       \/ \E typ \in DSTYPE : \E asked \in SUBSET Indices : GetData(typ, asked)
       \/ \E i \in Indices : GetDataShort(i)
       \/ GetDrvProperties
    /\ UNCHANGED cuVars

UnitCalls(typ, from, to) ==
    /\ owner = "unit"
    /\ unit = from
    /\ unit' = to
    /\ GetDataset(typ)
    /\ UNCHANGED <<owner, defined, dataset>>

UnitDefineActionAndDataset == UnitCalls("DYNAMIC", "new", "define")

\* Seeded fault: the static items asked for.
RunReadsStatic == UnitCalls("STATIC", "ready", "run")
UnitRun == UnitCalls("DYNAMIC", "ready", "run")

DriverStep ==
    /\ \/ FetchLoop
       \/ \E i \in Indices :
             FetchItem(i) \/ FetchThrottled(i) \/ ReadItem(i) \/ ReadProperty(i)
       \/ owner = "clients" /\ Return
    /\ UNCHANGED cuVars

\* addAttributesToDataSet: an item that getDataset left out does not become
\* an attribute, now or later.
DatasetDefined ==
    /\ unit = "define"
    /\ Return
    /\ unit' = "ready"
    /\ defined' = given
    /\ UNCHANGED <<owner, dataset>>

\* Seeded fault: items copied whether they were read or not.
UpdatedAll == defined
Updated == given \cap defined

\* updateDataSet and setOutputDomainAsChanged: what was left out keeps its
\* value in the dataset that is handed on.
DatasetUpdated ==
    /\ unit = "run"
    /\ Return
    /\ unit' = "ready"
    /\ dataset' = [i \in Indices |-> IF i \in Updated THEN ibuf[i]
                                                             ELSE dataset[i]]
    /\ UNCHANGED <<owner, defined>>

UnitStep ==
    /\ owner = "unit"
    /\ \/ UnitDefineActionAndDataset
       \/ UnitRun
       \/ DriverStep
       \/ DatasetDefined
       \/ DatasetUpdated

UnitNext ==
    \/ Clients
    \/ DriverStep
    \/ UnitStep
    \/ Environment /\ UNCHANGED <<callVars, cuVars>>

\* The framework runs the unit over and over, and time passes.
UnitSpec ==
    /\ UnitInit
    /\ [][UnitNext]_unitVars
    /\ WF_unitVars(UnitStep)
    /\ WF_unitVars(Tick /\ UNCHANGED <<callVars, cuVars>>)

-----------------------------------------------------------------------------
Version(i) == dataset[i][0].ver

\* Every attribute of the dataset that is handed on is still as it was
\* defined, or holds its own item's converted bytes of one version: a run
\* in which its server did not answer changes nothing about it.
DatasetOwn ==
    \A i \in defined : Version(i) = 0 \/ dataset[i] = ItemOf(i, Version(i))

\* No run puts an older version of an item back into the dataset.
DatasetForward ==
    [][\A i \in defined : Version(i)' >= Version(i)]_unitVars

\* Once every server answers for good, the attributes hold the current values
\* of their items, again and again: a failed read before does not leave an
\* attribute that was defined behind for ever.
CatchesUp ==
    owner = "unit" /\ <>[](\A k \in Key : Answers(k)) =>
        []<>(\A i \in defined :
                dataset[i] = ItemOf(i, server[items[i].keybind].ver))
===============================================================================
