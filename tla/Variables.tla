----------------------------- MODULE Variables -----------------------------
(***************************************************************************)
(* Environment variables. A key may have a value at run time, at build     *)
(* time and, for a project's services, a shared one: three encrypted maps. *)
(* The panel shows the first two as one list of scoped variables; requests *)
(* read a map, change a copy and write it whole.                           *)
(*                                                                         *)
(* Source: apps/api/src/routes/variables.ts, variable-store.ts,            *)
(* env-vars.ts, build-args.ts, projects.ts (variables), and the dashboard's*)
(* VariablesManager.tsx.                                                   *)
(***************************************************************************)
EXTENDS Naturals

CONSTANTS
  Keys, Values,
  Kinds,         \* of "app", "image" and "service"
  Editors,       \* people with the panel open, or the rotation job of a datastore
  None,
  MaxVarEdits    \* bound: requests

Maps == {"env", "build", "shared"}
Scoped == {"env", "build"}
Scopes == {"runtime", "build", "both"}

VARIABLES
  kind,     \* a Git application, an image application or a project's service
  vars,     \* envVarsEncrypted, buildArgsEncrypted, the project's envVarsEncrypted
  panel,    \* the unlocked list of each editor
  request,  \* the request of each editor
  due,      \* ghost: what the requests so far asked of each key
  lost,     \* ghost: keys on which a request overwrote what it had not seen
  varEdits

varVars == <<kind, vars, panel, request, due, lost, varEdits>>

Nothing == [k \in {} |-> None]
Locked == [rows |-> Nothing, shown |-> Nothing, seen |-> None]
NoRequest == [op |-> "none"]
Unset == [m \in Maps |-> None]

-----------------------------------------------------------------------------
(***************************************************************************)
(* variable-store.ts: one list over two maps.                              *)
(***************************************************************************)
Listed(entry) == entry.env # None \/ entry.build # None

\* mergeScoped; where the maps disagree the list shows the runtime value.
RowOfEntry(entry) ==
  [scope |-> IF entry.build = None THEN "runtime" ELSE IF entry.env = None THEN "build" ELSE "both",
   value |-> IF entry.env = None THEN entry.build ELSE entry.env]

\* Mutant: a variable that leaves the build stays among the build variables.
PlacedOver(entry, row) ==
  [entry EXCEPT !.env = IF row.scope = "build" THEN None ELSE row.value,
                !.build = IF row.scope = "runtime" THEN @ ELSE row.value]

\* splitScoped for one key, and the place of applyScopedPatch.
Placed(entry, row) ==
  [entry EXCEPT !.env = IF row.scope = "build" THEN None ELSE row.value,
                !.build = IF row.scope = "runtime" THEN None ELSE row.value]

\* applyScopedPatch: set, then rescope, then unset.
Patched(entry, k, p) ==
  LET set == IF k \in DOMAIN p.set THEN Placed(entry, p.set[k]) ELSE entry
      moved == IF k \in DOMAIN p.rescope /\ Listed(set)
                 THEN Placed(set, [scope |-> p.rescope[k], value |-> RowOfEntry(set).value])
                 ELSE set
  IN IF k \in p.unset THEN [moved EXCEPT !.env = None, !.build = None] ELSE moved

\* applyVarPatch: unset wins over set.
PatchedMap(entry, k, map, p) ==
  [entry EXCEPT ![map] = IF k \in p.unset THEN None
                         ELSE IF k \in DOMAIN p.set THEN p.set[k] ELSE @]

-----------------------------------------------------------------------------
(***************************************************************************)
(* Requests. `wants` is what a request asks of a key, put in terms of what *)
(* its author saw: the ghost `due` applies it, the code does not.          *)
(***************************************************************************)
Write(e, maps, after) ==
  /\ vars' = [k \in Keys |-> [m \in Maps |-> IF m \in maps THEN after[k][m] ELSE vars[k][m]]]
  /\ lost' = lost \cup {k \in Keys : \E m \in maps :
                          request[e].read # None /\ request[e].read[k][m] # vars[k][m]}
  /\ LET wants == request[e].wants IN
     due' = [k \in Keys |-> [m \in Maps |->
               IF k \in DOMAIN wants /\ m \in DOMAIN wants[k] THEN wants[k][m] ELSE due[k][m]]]
  /\ request' = [request EXCEPT ![e] = NoRequest]
  /\ UNCHANGED <<kind, varEdits>>

Refuse(e) ==
  /\ request' = [request EXCEPT ![e] = NoRequest]
  /\ UNCHANGED <<kind, vars, panel, due, lost, varEdits>>

Send(e, q) ==
  /\ request[e] = NoRequest /\ varEdits < MaxVarEdits
  /\ request' = [request EXCEPT ![e] = q]
  /\ varEdits' = varEdits + 1
  /\ UNCHANGED <<kind, vars, panel, due, lost>>

AsRow(row) == [env |-> IF row.scope = "build" THEN None ELSE row.value,
               build |-> IF row.scope = "runtime" THEN None ELSE row.value]
Gone == [env |-> None, build |-> None]

\* A replacement list sent by "Save all": both maps are written from the list alone.
\* It asks for the rows its author edited, and settles the keys the maps disagreed on.
SendReplace(e) ==
  LET edited == {k \in DOMAIN panel[e].rows : \/ panel[e].rows[k] # panel[e].shown[k]
                                              \/ panel[e].seen[k].env # panel[e].seen[k].build
                                                 /\ panel[e].rows[k].scope = "both"}
  IN
  /\ panel[e] # Locked
  /\ Send(e, [op |-> "replace", rows |-> panel[e].rows, read |-> panel[e].seen,
              wants |-> [k \in edited |-> AsRow(panel[e].rows[k])]])

Builds(after) == \E k \in Keys : after[k].build # None

\* PUT .../variables: a request for an image application with build variables is refused.
Replace(e) ==
  LET q == request[e]
      after == [k \in Keys |-> IF k \in DOMAIN q.rows THEN Placed(Unset, q.rows[k]) ELSE Unset]
  IN
  /\ q.op = "replace"
  /\ IF kind = "image" /\ Builds(after)
       THEN Refuse(e)
       ELSE /\ Write(e, Scoped, after)
            /\ panel' = [panel EXCEPT ![e] = Locked]

\* The three requests of the panel, and set with unset of the same key.
Rows == [scope : Scopes, value : Values]
Patches ==
  {[set |-> [x \in {k} |-> r], rescope |-> Nothing, unset |-> u] :
     k \in Keys, r \in Rows, u \in {{}} \cup {{j} : j \in Keys}}
  \cup {[set |-> Nothing, rescope |-> [x \in {k} |-> s], unset |-> {}] : k \in Keys, s \in Scopes}
  \cup {[set |-> Nothing, rescope |-> Nothing, unset |-> {k}] : k \in Keys}

PatchWants(p) ==
  [k \in DOMAIN p.set \cup DOMAIN p.rescope \cup p.unset |->
     IF k \in p.unset THEN Gone
     ELSE IF k \in DOMAIN p.set THEN AsRow(p.set[k])
     ELSE AsRow([scope |-> p.rescope[k],
                 value |-> IF due[k].env # None THEN due[k].env ELSE due[k].build])]

\* PATCH .../variables; a rescope of a key that is in neither map is refused.
SendPatch(e, p) ==
  /\ panel[e] = Locked
  /\ \A k \in DOMAIN p.rescope : Listed(vars[k])
  /\ Send(e, [op |-> "patch", patch |-> p, read |-> vars, wants |-> PatchWants(p)])

Patch(e) ==
  LET q == request[e]
      after == [k \in Keys |-> Patched(q.read[k], k, q.patch)]
  IN
  /\ q.op = "patch"
  /\ IF kind = "image" /\ Builds(after)
       THEN Refuse(e)
       ELSE Write(e, Scoped, after) /\ UNCHANGED panel

\* The routes that own one map: an application's, a service's or its project's. The
\* rotation of a datastore's password rewrites bound run-time keys the same way.
HasMap(map) ==
  CASE map = "env" -> TRUE
    [] map = "build" -> kind # "image"
    [] map = "shared" -> kind = "service"

SendMapPatch(e, map, k, to) ==
  /\ HasMap(map) /\ panel[e] = Locked
  /\ Send(e, [op |-> "map", map |-> map, read |-> vars,
              patch |-> [set |-> [x \in IF to = None THEN {} ELSE {k} |-> to],
                         unset |-> IF to = None THEN {k} ELSE {}],
              wants |-> [x \in {k} |-> [m \in {map} |-> to]]])

MapPatch(e) ==
  LET q == request[e] IN
  /\ q.op = "map"
  /\ Write(e, {q.map}, [k \in Keys |-> PatchedMap(q.read[k], k, q.map, q.patch)])
  /\ UNCHANGED panel

SendMapReplace(e, map, to) ==
  /\ HasMap(map) /\ panel[e] = Locked
  /\ Send(e, [op |-> "mapReplace", map |-> map, to |-> to, read |-> None,
              wants |-> [k \in Keys |-> [m \in {map} |-> to[k]]]])

MapReplace(e) ==
  LET q == request[e] IN
  /\ q.op = "mapReplace"
  /\ Write(e, {q.map}, [k \in Keys |-> [vars[k] EXCEPT ![q.map] = q.to[k]]])
  /\ UNCHANGED panel

-----------------------------------------------------------------------------
(***************************************************************************)
(* VariablesManager.tsx: "Show / edit all values" takes a copy of the      *)
(* revealed list, the rows are edited in it and "Save all" sends it whole. *)
(***************************************************************************)
Reveal(e) ==
  LET rows == [k \in {x \in Keys : Listed(vars[x])} |-> RowOfEntry(vars[k])] IN
  /\ panel[e] = Locked /\ request[e] = NoRequest /\ varEdits < MaxVarEdits
  /\ DOMAIN rows # {}
  /\ panel' = [panel EXCEPT ![e] = [rows |-> rows, seen |-> vars, shown |-> rows]]
  /\ UNCHANGED <<kind, vars, request, due, lost, varEdits>>

\* Bound: one row is edited before the list is saved.
EditRow(e, k, row) ==
  /\ panel[e] # Locked /\ request[e] = NoRequest
  /\ panel[e].rows = panel[e].shown
  /\ k \in DOMAIN panel[e].rows /\ panel[e].rows[k] # row
  /\ kind = "image" => row.scope = panel[e].rows[k].scope
  /\ panel' = [panel EXCEPT ![e].rows[k] = row]
  /\ UNCHANGED <<kind, vars, request, due, lost, varEdits>>

Cancel(e) ==
  /\ panel[e] # Locked /\ request[e] = NoRequest
  /\ panel' = [panel EXCEPT ![e] = Locked]
  /\ UNCHANGED <<kind, vars, request, due, lost, varEdits>>

-----------------------------------------------------------------------------
Init ==
  /\ kind \in Kinds
  /\ vars = [k \in Keys |-> Unset]
  /\ panel = [e \in Editors |-> Locked]
  /\ request = [e \in Editors |-> NoRequest]
  /\ due = [k \in Keys |-> Unset]
  /\ lost = {}
  /\ varEdits = 0

\* Maps of values; an image application has no build variables and only a service shared
\* ones.
TypeOK ==
  /\ kind \in Kinds /\ varEdits \in 0..MaxVarEdits
  /\ vars \in [Keys -> [Maps -> Values \cup {None}]]
  /\ kind = "image" => \A k \in Keys : vars[k].build = None
  /\ kind # "service" => \A k \in Keys : vars[k].shared = None
  /\ \A e \in Editors : panel[e] # Locked =>
       /\ DOMAIN panel[e].rows \subseteq Keys /\ DOMAIN panel[e].shown \subseteq Keys
       /\ \A k \in DOMAIN panel[e].rows : panel[e].rows[k] \in [scope : Scopes, value : Values]
  /\ \A e \in Editors : request[e].op \in {"none", "replace", "patch", "map", "mapReplace"}
  /\ lost \subseteq Keys

Next ==
  \E e \in Editors :
    \/ \E p \in Patches : SendPatch(e, p)
    \/ \E map \in Maps, k \in Keys, to \in Values \cup {None} : SendMapPatch(e, map, k, to)
    \/ \E map \in Maps, k \in Keys, v \in Values \cup {None} :
         SendMapReplace(e, map, [x \in Keys |-> IF x = k THEN v ELSE None])
    \/ SendReplace(e) \/ Replace(e) \/ Patch(e) \/ MapPatch(e) \/ MapReplace(e)
    \/ Reveal(e) \/ Cancel(e)
    \/ \E k \in Keys, row \in Rows : EditRow(e, k, row)

Spec == Init /\ [][Next]_varVars

-----------------------------------------------------------------------------
(* A key that no request overwrote unseen has, at run time, at build time   *)
(* and in its project, what the requests that named it asked for last,      *)
(* whichever of the routes they came through: nothing edited through the    *)
(* list leaks into the build, and saving a revealed list changes nothing but*)
(* the rows that were edited (variables.ts, variable-store.ts).             *)
EditsKept == \A k \in Keys \ lost : vars[k] = due[k]
=============================================================================
