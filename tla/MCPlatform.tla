----------------------------- MODULE MCPlatform -----------------------------
(***************************************************************************)
(* The services around the pipeline, for TLC.  A behaviour is a behaviour  *)
(* of one of them, and the others rest.                                    *)
(***************************************************************************)
EXTENDS ScanCache, Transport, DynamoQueue, Ingress, Tenancy,
        Provisioning, ActionsRun, RepoScope, DiffText, SqlQueue, TLC

VARIABLE service  \* the one that runs

MCRowKeys == {<<"membership", "m">>, <<"organisation", "t0">>, <<"run", "r">>}

PlatformInit ==
  /\ service \in {"scan", "transport", "dynamo", "ingress", "rows", "secrets",
                  "budgets", "provision", "actions", "scope", "diff", "sql"}
  /\ ScanInit /\ TransportInit /\ DynamoInit /\ IngressInit
  /\ ActionsInit /\ ScopeInit /\ DiffInit
  /\ TenancyInit /\ SqlInit
  /\ service = "transport" \/ box.route = CHOOSE r \in Routes : TRUE
  /\ service \in {"rows", "secrets", "budgets"} \/ dialect = "sqlite"
  /\ IF service = "provision" THEN ProvisionInit
     ELSE script = "none" /\ live = NewPool /\ at = "never run"

PlatformNext ==
  /\ IF service = "scan" THEN ScanNext ELSE UNCHANGED scanVars
  /\ IF service = "transport" THEN TransportNext ELSE UNCHANGED transportVars
  /\ IF service = "dynamo" THEN DynamoNext ELSE UNCHANGED dynamoVars
  /\ IF service = "sql" THEN SqlNext ELSE UNCHANGED vars
  /\ IF service = "ingress" THEN IngressNext ELSE UNCHANGED ingressVars
  /\ CASE service = "rows" -> RowsNext
       [] service = "secrets" -> SecretsNext
       [] service = "budgets" -> BudgetsNext
       [] OTHER -> UNCHANGED tenancyVars
  /\ IF service = "provision" THEN ProvisionNext ELSE UNCHANGED provisionVars
  /\ IF service = "actions" THEN ActionsNext ELSE UNCHANGED actionsVars
  /\ IF service = "scope" THEN ScopeNext ELSE UNCHANGED scopeVars
  /\ IF service = "diff" THEN DiffNext ELSE UNCHANGED diffVars
  /\ UNCHANGED service

PlatformVars ==
  <<service, scanVars, transportVars, dynamoVars, ingressVars, tenancyVars,
    provisionVars, actionsVars, scopeVars, diffVars, vars>>

PlatformSpec == PlatformInit /\ [][PlatformNext]_PlatformVars

\* The operators of the queue and the processes of the accessors are
\* interchangeable in every property.
Interchangeable == Permutations(Operators) \union Permutations(Processes)
=============================================================================
