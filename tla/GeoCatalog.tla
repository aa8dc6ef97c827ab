----------------------------- MODULE GeoCatalog ------------------------------
(* The states and municipalities of Mexico (src/modules/geo): files of the  *)
(* INEGI imported by operators, maybe by two at once, each in a transaction  *)
(* that reads what is stored, plans what differs and writes only that; and   *)
(* the addresses that take a municipality in the meantime.                   *)
EXTENDS Integers, Sequences, FiniteSets

CONSTANTS
  StateCodes,     \* the 32 keys
  Keys3,          \* the keys of a municipality in its state
  GeoFiles,       \* what the operators import: files of rows
  Importers,
  MaxGeoImports   \* bound: imports begun

ASSUME GeoAssumption == MaxGeoImports \in Nat /\ IsFiniteSet(StateCodes) /\ IsFiniteSet(Keys3)

VARIABLES
  states,      \* geo_states: the name of each, NoName while it is not stored
  places,      \* geo_municipalities
  geoImport,   \* the import of each operator
  addresses,   \* the municipalities of the addresses that were kept
  lastFile,    \* history: the rows of the last import written, <<>> if another was written since it read
  geoImports

geoVars == <<states, places, geoImport, addresses, lastFile, geoImports>>

Codes == StateCodes \X Keys3
NoName == ""
NoPlace == [name |-> NoName, active |-> FALSE]
StatesIn(names) == {s \in StateCodes : names[s] # NoName}
StoredIn(catalog) == {code \in Codes : catalog[code].name # NoName}
ActiveIn(catalog) == {code \in Codes : catalog[code].active}

\* A row has the key and name of a state and of a municipality; the stored key has the state's first.
codeOf(row) == <<row.state, row.key>>

---------------------------------------------------------------------------
(* The file. *)

\* What is wrong with one row, and with two.
WellFormed(row) == row.state \in StateCodes /\ row.key \in Keys3 /\ row.stateName # NoName /\ row.name # NoName
Agree(earlier, row) == (earlier.state = row.state => earlier.stateName = row.stateName) /\ codeOf(earlier) # codeOf(row)

IsComplete(file) ==
  /\ \A i \in DOMAIN file : WellFormed(file[i]) /\ \A j \in 1..(i - 1) : Agree(file[j], file[i])
  /\ {file[i].state : i \in DOMAIN file} = StateCodes

SnapshotOf(file) ==
  LET rows == {file[i] : i \in DOMAIN file} IN
  [states |-> [s \in StateCodes |-> (CHOOSE row \in rows : row.state = s).stateName],
   places |-> [code \in {codeOf(row) : row \in rows} |-> [name |-> (CHOOSE row \in rows : codeOf(row) = code).name, active |-> TRUE]]]

\* What differs: a municipality that the file lacks is deactivated, never deleted, and one that is back reactivated.
planGeoCatalogImport(seen, snapshot) ==
  LET inFile == DOMAIN snapshot.places
      known == inFile \cap StoredIn(seen.places)
      missing == ActiveIn(seen.places) \ inFile
      renamed == {code \in known : seen.places[code].name # snapshot.places[code].name}
      reactivated == known \ ActiveIn(seen.places)
      created == inFile \ known
  IN [states |-> [s \in {s \in StateCodes : seen.states[s] # snapshot.states[s]} |-> snapshot.states[s]],
      places |-> [code \in created \cup renamed \cup reactivated \cup missing |->
                    IF code \in missing THEN [seen.places[code] EXCEPT !.active = FALSE] ELSE snapshot.places[code]],
      summary |-> [created |-> Cardinality(created), renamed |-> Cardinality(renamed),
                   deactivated |-> Cardinality(missing), reactivated |-> Cardinality(reactivated)]]

---------------------------------------------------------------------------
(* The import.  Each statement of its transaction reads what is committed.  *)

NoPlan == [states |-> <<>>, places |-> <<>>, summary |-> [created |-> 0, renamed |-> 0, deactivated |-> 0, reactivated |-> 0]]
NoGeoImport ==
  [step |-> "none", file |-> <<>>, dryRun |-> FALSE, seen |-> [states |-> <<>>, places |-> <<>>], plan |-> NoPlan,
   alone |-> TRUE, before |-> 0, after |-> 0]

GeoInit ==
  /\ states = [s \in StateCodes |-> NoName] /\ places = [code \in Codes |-> NoPlace]
  /\ geoImport = [i \in Importers |-> NoGeoImport] /\ addresses = {} /\ lastFile = <<>> /\ geoImports = 0

Goes(i, import) == geoImport' = [geoImport EXCEPT ![i] = import]
NothingWritten == UNCHANGED <<states, places, addresses, lastFile>>

\* geo:import ends with 1 when there is anything wrong with its file.
importCatalog(i, file, dryRun) ==
  /\ geoImport[i].step \in {"none", "done", "refused", "failed"} /\ geoImports < MaxGeoImports
  /\ Goes(i, IF IsComplete(file) THEN [NoGeoImport EXCEPT !.step = "loadStates", !.file = file, !.dryRun = dryRun]
                                 ELSE [NoGeoImport EXCEPT !.step = "refused"])
  /\ geoImports' = geoImports + 1 /\ NothingWritten

loadStates(i) ==
  /\ geoImport[i].step = "loadStates"
  /\ Goes(i, [geoImport[i] EXCEPT !.step = "loadPlaces", !.seen.states = states, !.alone = TRUE])
  /\ NothingWritten /\ UNCHANGED geoImports

loadPlaces(i) ==
  LET import == geoImport[i]
      seen == [import.seen EXCEPT !.places = places]
      planned == planGeoCatalogImport(seen, SnapshotOf(import.file))
  IN /\ import.step = "loadPlaces"
     /\ Goes(i, [import EXCEPT !.step = IF import.dryRun THEN "done" ELSE "save", !.seen = seen, !.plan = planned,
                               !.before = Cardinality(ActiveIn(places))])
     /\ NothingWritten /\ UNCHANGED geoImports

\* The rows it writes stay locked until it ends.
CatalogLocked(i, planned) ==
  LET locked == geoImport[i].plan IN
  /\ geoImport[i].step = "written"
  /\ DOMAIN locked.states \cap DOMAIN planned.states # {} \/ DOMAIN locked.places \cap DOMAIN planned.places # {}
saveCatalog(i) ==
  LET planned == geoImport[i].plan IN
  /\ geoImport[i].step = "save"
  /\ \A j \in Importers \ {i} : ~CatalogLocked(j, planned)
  /\ Goes(i, [geoImport[i] EXCEPT !.step = "written"])
  /\ NothingWritten /\ UNCHANGED geoImports

Over(catalog, written) == [code \in DOMAIN catalog |-> IF code \in DOMAIN written THEN written[code] ELSE catalog[code]]

\* The numbers it audits are those after its writes. Those of others that read before are not alone any more.
commitCatalog(i) ==
  LET import == geoImport[i]  written == Over(places, import.plan.places) IN
  /\ import.step = "written"
  /\ states' = Over(states, import.plan.states) /\ places' = written
  /\ lastFile' = IF import.alone THEN import.file ELSE <<>>
  /\ geoImport' = [j \in Importers |->
       IF j = i THEN [import EXCEPT !.step = "done", !.after = Cardinality(ActiveIn(written))]
       ELSE [geoImport[j] EXCEPT !.alone = FALSE]]
  /\ UNCHANGED <<addresses, geoImports>>

\* A statement fails, or two imports wait for the rows of each other: nothing of it is written.
failImport(i) ==
  /\ geoImport[i].step \in {"loadStates", "loadPlaces", "save", "written"}
  /\ Goes(i, [NoGeoImport EXCEPT !.step = "failed"]) /\ NothingWritten /\ UNCHANGED geoImports

---------------------------------------------------------------------------
(* The addresses of customers, warehouses and orders.                       *)

findState(s) == IF s \in StatesIn(states) THEN states[s] ELSE NoName
listActiveMunicipalities(s) == {code \in ActiveIn(places) : code[1] = s}

\* check: of a state that is stored, and active when it was asked.
keepAddress(s, code) ==
  /\ findState(s) # NoName /\ code \in listActiveMunicipalities(s)
  /\ addresses' = addresses \cup {code}
  /\ UNCHANGED <<states, places, geoImport, lastFile, geoImports>>

GeoNext ==
  \/ \E i \in Importers :
       \/ \E file \in GeoFiles, dryRun \in BOOLEAN : importCatalog(i, file, dryRun)
       \/ loadStates(i) \/ loadPlaces(i) \/ saveCatalog(i) \/ commitCatalog(i) \/ failImport(i)
  \/ \E s \in StateCodes, code \in Codes : keepAddress(s, code)

---------------------------------------------------------------------------
\* An import that nobody wrote over while it ran leaves the catalog of its file: its states and the names and
\* municipalities in force, so that the same file again would change nothing.
CatalogIsTheFile ==
  lastFile # <<>> =>
    LET snapshot == SnapshotOf(lastFile) IN
    /\ states = snapshot.states
    /\ ActiveIn(places) = DOMAIN snapshot.places /\ \A code \in ActiveIn(places) : places[code] = snapshot.places[code]
    /\ planGeoCatalogImport([states |-> states, places |-> places], snapshot) = NoPlan

\* Whoever imports what and when, an address keeps a municipality that is stored, with its state, and a catalog
\* that has anything has all the states.
AddressesStayKnown ==
  /\ addresses \subseteq StoredIn(places)
  /\ StoredIn(places) # {} => StatesIn(states) = StateCodes

\* What an import says it did is the difference it made, when it was alone.
SummaryAddsUp ==
  \A i \in Importers :
    LET import == geoImport[i]  did == import.plan.summary IN
    import.step = "done" /\ ~import.dryRun /\ import.alone =>
      import.after - import.before = did.created + did.reactivated - did.deactivated

\* What the import of the geographic catalog promises.
GeoHolds == CatalogIsTheFile /\ AddressesStayKnown /\ SummaryAddsUp
=============================================================================
