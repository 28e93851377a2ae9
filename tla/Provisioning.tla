----------------------------- MODULE Provisioning -----------------------------
(***************************************************************************)
(* The three things an operator provisions with a script that is run again *)
(* when it stopped: the reviewers' user pool (infra/cognito/provision.py), *)
(* the web application (infra/amplify/provision.py) and the database       *)
(* schema with its application role (db/migrations.py, db/provision.py).   *)
(* A script is a sequence of calls; any of them may fail, take effect with *)
(* its answer lost, or be the last thing the process does. Between two     *)
(* runs the console changes what is there.                                 *)
(***************************************************************************)
EXTENDS Naturals

CONSTANTS
  Statements,    \* statements of the migration's script
  Builds,        \* builds, each with its own checksum of that script
  MaxClients     \* bound on how often the sign-up client is made

ASSUME ProvisioningAssumption ==
  /\ Statements \in Nat \ {0} /\ MaxClients \in Nat \ {0}
  /\ Builds \subseteq Nat \ {0}

VARIABLES
  script,    \* which of the three is being provisioned
  live,      \* what is there
  at         \* where the script is: a step, or how the last run of it ended

provisionVars == <<script, live, at>>

-----------------------------------------------------------------------------
Over == {"never run", "stopped", "refused", "done"}

\* A call: made and answered, made with the answer lost, or not made.
Made(here, next, after) ==
  /\ at = here
  /\ live' = after /\ at' \in {next, "stopped"}
  /\ UNCHANGED script

Call(here, next, after) ==
  \/ Made(here, next, after)
  \/ at = here /\ at' = "stopped" /\ UNCHANGED <<script, live>>

Refuse(here) ==
  /\ at = here
  /\ at' = "refused"
  /\ UNCHANGED <<script, live>>

Start(name, first) ==
  /\ script = name /\ at \in Over
  /\ at' = first
  /\ UNCHANGED <<script, live>>

Between(name, after) ==
  /\ script = name /\ at \in Over
  /\ live' = after
  /\ at' = "never run"
  /\ UNCHANGED script

-----------------------------------------------------------------------------
(* The user pool. The sign-up client has a number; the vault holds the      *)
(* secret of the client with the number it names.                           *)

NewPool == [attributes |-> "none", verified |-> FALSE, browser |-> "none",
            signup |-> 0, confidential |-> FALSE, made |-> 0, vault |-> 0,
            domain |-> "none", seed |-> "none"]

\* create_user_pool, or converge_attributes: a missing attribute is added, one
\* of the wrong mutability cannot be.
ConvergePool ==
  \/ live.attributes = "frozen" /\ Refuse("pool")
  \/ /\ live.attributes = "none"
     /\ Call("pool", "browser", [live EXCEPT !.attributes = "whole", !.verified = TRUE])
  \/ /\ live.attributes \in {"lacking", "whole"}
     /\ Call("pool", "browser", [live EXCEPT !.attributes = "whole"])

ConvergeBrowserClient == Call("browser", "verified", [live EXCEPT !.browser = "current"])

ConvergeVerified == Call("verified", "signup", [live EXCEPT !.verified = TRUE])

\* Only a client that is made here is known to be confidential.
ConvergeSignUp ==
  \/ /\ live.signup = 0 /\ live.made < MaxClients
     /\ Call("signup", "secret",
             [live EXCEPT !.signup = live.made + 1, !.made = @ + 1, !.confidential = TRUE])
  \/ live.signup # 0 /\ Call("signup", "secret", live)

_store_signup_secret ==
  \/ ~live.confidential /\ Refuse("secret")
  \/ live.confidential /\ Call("secret", "domain", [live EXCEPT !.vault = live.signup])

\* A domain that is taken is answered like one that is ours already.
CreateDomain ==
  Call("domain", "seed", IF live.domain = "none" THEN [live EXCEPT !.domain = "ours"] ELSE live)

SeedUser ==
  \/ live.seed # "none" /\ Call("seed", "done", live)
  \/ live.seed = "none" /\ Call("seed", "password", [live EXCEPT !.seed = "temporary"])

SetPassword == Call("password", "done", [live EXCEPT !.seed = "permanent"])

ConsolePool ==
  \/ Between("pool", [live EXCEPT !.browser = IF @ = "none" THEN @ ELSE "drifted"])
  \/ Between("pool", [live EXCEPT !.verified = FALSE])
  \/ live.signup # 0 /\ Between("pool", [live EXCEPT !.signup = 0, !.confidential = FALSE])
  \/ /\ live.attributes # "none" /\ live.signup = 0 /\ live.made < MaxClients
     /\ Between("pool", [live EXCEPT !.signup = live.made + 1, !.made = @ + 1])

PoolSteps ==
  /\ script = "pool"
  /\ \/ Start("pool", "pool")
     \/ ConvergePool \/ ConvergeBrowserClient \/ ConvergeVerified \/ ConvergeSignUp
     \/ _store_signup_secret \/ CreateDomain \/ SeedUser \/ SetPassword
     \/ ConsolePool

-----------------------------------------------------------------------------
(* The web application. other is a variable of the console's own, wish what *)
(* the console last gave it.                                                *)

NewApp(iam) == [shape |-> "none", default |-> FALSE, custom |-> FALSE, url |-> "none",
                other |-> 0, wish |-> 0, branch |-> "none", role |-> "none", iam |-> iam]

\* create_app or update_app, by the name.
ConvergeApp ==
  \E default \in BOOLEAN :
    Call("app", "environment",
         [live EXCEPT !.shape = "current",
                      !.default = IF live.shape = "none" THEN default ELSE @])

\* custom_origin, then branch_url.
Origin(app) == IF app.custom THEN "custom" ELSE "default"

\* converge_environment: the owned variables over a fresh read; without an
\* origin, or with a blank value, refused.
ConvergeEnvironment ==
  \/ Refuse("environment")
  \/ /\ live.custom \/ live.default
     /\ Call("environment", "branch", [live EXCEPT !.url = Origin(live)])

converge_branch == Call("branch", "role", [live EXCEPT !.branch = "current"])

\* resolve_compute_role reads the role back from IAM.
ConvergeRole ==
  \/ ~live.iam /\ Refuse("role")
  \/ live.iam /\ Call("role", "done", [live EXCEPT !.role = "resolved"])

ConsoleApp ==
  /\ live.shape # "none"
  /\ \/ Between("app", [live EXCEPT !.shape = "drifted"])
     \/ Between("app", [live EXCEPT !.custom = ~@])
     \/ \E v \in 1..2 : Between("app", [live EXCEPT !.other = v, !.wish = v])
     \/ Between("app", [live EXCEPT !.role = "none"])

AppSteps ==
  /\ script = "app"
  /\ \/ Start("app", "app")
     \/ ConvergeApp \/ ConvergeEnvironment \/ converge_branch \/ ConvergeRole
     \/ ConsoleApp

-----------------------------------------------------------------------------
(* The schema. shape and row are what is committed: how much of the script, *)
(* and the checksum in the ledger, 0 without a row. ran, noted and already  *)
(* are what the running process sees of them.                               *)

NewSchema(d, b, r) == [dialect |-> d, build |-> b, shape |-> 0, row |-> 0,
                       ran |-> 0, noted |-> 0, already |-> 0, role |-> r, granted |-> FALSE]

\* A transaction that does not commit leaves what was committed before it, and
\* a process that stops leaves the same.
Rolled(s) == [s EXCEPT !.ran = 0, !.noted = 0, !.already = 0]

Stops(here) ==
  /\ at = here
  /\ live' = Rolled(live) /\ at' = "stopped"
  /\ UNCHANGED script

Moves(here, next, after) ==
  /\ at = here
  /\ live' = after /\ at' = next
  /\ UNCHANGED script

\* Deliberate bug: a row of the version is enough, whatever its checksum.
ReadLedgerByVersion ==
  Moves("ledger", IF live.row = 0 THEN "script" ELSE "commit", [live EXCEPT !.already = live.row])

\* The ledger is read; a row of another checksum is refused.
ReadLedger ==
  \/ live.row \notin {0, live.build} /\ Refuse("ledger")
  \/ /\ live.row \in {0, live.build}
     /\ Moves("ledger", IF live.row = 0 THEN "script" ELSE "commit",
              [live EXCEPT !.already = live.row])

\* executescript commits what is open and then each statement; on Postgres the
\* statements wait for the commit. Every statement may be there already.
RunScript ==
  /\ live.ran < Statements
  /\ LET more == [live EXCEPT !.ran = @ + 1] IN
     Moves("script", IF more.ran = Statements THEN "row" ELSE "script",
           IF live.dialect = "postgres" THEN more
           ELSE [more EXCEPT !.shape = IF @ > more.ran THEN @ ELSE more.ran])

InsertRow == Moves("row", "commit", [live EXCEPT !.noted = live.build])

Commit ==
  Made("commit", "done",
       IF live.already # 0 THEN Rolled(live)
       ELSE [Rolled(live) EXCEPT !.row = live.noted,
                                 !.shape = IF live.ran > @ THEN live.ran ELSE @])

\* db/provision.py, by the owner on Postgres: a role the policies do not bind
\* and a schema with a table missing are refused; the grants are one commit.
ProvisionRole ==
  /\ script = "schema" /\ at \in Over /\ live.dialect = "postgres"
  /\ live.role = "plain" /\ live.shape = Statements
  /\ live' \in {live, [live EXCEPT !.granted = TRUE]}
  /\ UNCHANGED <<script, at>>

\* A build with another definition of an applied migration.
ChangeBuild == \E b \in Builds : Between("schema", [Rolled(live) EXCEPT !.build = b])

SchemaSteps ==
  /\ script = "schema"
  /\ \/ Start("schema", "ledger")
     \/ ReadLedger \/ RunScript \/ InsertRow \/ Commit
     \/ \E here \in {"ledger", "script", "row", "commit"} : Stops(here)
     \/ ProvisionRole \/ ChangeBuild

-----------------------------------------------------------------------------
ProvisionInit ==
  /\ at = "never run"
  /\ \/ /\ script = "pool"
        /\ \E a \in {"none", "lacking", "frozen"}, d \in {"none", "another's"} :
             live = [NewPool EXCEPT !.attributes = a, !.domain = d]
     \/ script = "app" /\ \E iam \in BOOLEAN : live = NewApp(iam)
     \/ /\ script = "schema"
        /\ \E d \in {"sqlite", "postgres"}, b \in Builds, r \in {"plain", "superuser"} :
             live = NewSchema(d, b, r)

ProvisionNext == PoolSteps \/ AppSteps \/ SchemaSteps

ProvisionSpec == ProvisionInit /\ [][ProvisionNext]_provisionVars

-----------------------------------------------------------------------------
ProvisioningTypeOK ==
  /\ script \in {"pool", "app", "schema"}
  /\ at \in Over \union {"pool", "browser", "verified", "signup", "secret", "domain", "seed",
                         "password", "app", "environment", "branch", "role",
                         "ledger", "script", "row", "commit"}
  /\ script = "pool" => live.vault \in 0..live.made /\ live.signup \in 0..live.made
  /\ script = "schema" => live.shape \in 0..Statements /\ live.ran \in 0..Statements

\* A run that reports success leaves what its spec describes, after any number
\* of runs that stopped anywhere: the vault has the secret of the sign-up client
\* there is, the application answers under its own origin and keeps what the
\* console set, and the ledger has this build's checksum. And the ledger never
\* claims a script that is not all there, nor is an incomplete schema granted.
\* (The domain may be another's, and the seeded user's password temporary: both
\* calls' refusals are read as "already done".)
DoneMeansConverged ==
  /\ at = "done" /\ script = "pool" =>
       /\ live.attributes = "whole" /\ live.verified /\ live.browser = "current"
       /\ live.signup # 0 /\ live.vault = live.signup
  /\ at = "done" /\ script = "app" =>
       /\ live.shape = "current" /\ live.branch = "current"
       /\ live.role = "resolved" /\ live.url = Origin(live)
  /\ script = "app" => live.other = live.wish
  /\ script = "schema" =>
       /\ live.row # 0 \/ live.granted => live.shape = Statements
       /\ at = "done" => live.row = live.build
=============================================================================
