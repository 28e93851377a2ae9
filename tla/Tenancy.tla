------------------------------ MODULE Tenancy ------------------------------
(***************************************************************************)
(* The tenants' rows (tenancy/accessors.py, budgets.py, crypto.py and      *)
(* tenant_zero.py, over db/engine.py): organisations, members,             *)
(* repositories and runs, secrets and budgets, each accessor a few         *)
(* statements on a process's own connection. Two things keep tenants       *)
(* apart: the accessor's WHERE, and the database's own isolation: row-     *)
(* level security on Postgres by the tenant the session was last bound to, *)
(* triggers on SQLite, which refuse writes and hide nothing.               *)
(***************************************************************************)
EXTENDS Integers, FiniteSets

CONSTANTS
  TenantIds,     \* tenants; one of them is tenant zero
  TenantZero,
  RowKeys,       \* pairs of a table and an id
  SecretNames,
  MasterKeys,    \* values of AGENTORG_SECRET_KEY
  Processes,
  Cents,         \* ceilings and charges
  MaxSpent       \* bound on what a tenant spends

ASSUME TenancyAssumption ==
  /\ TenantZero \in TenantIds
  /\ Cents \subseteq Nat /\ MaxSpent \in Nat
  /\ "" \notin TenantIds \union MasterKeys

VARIABLES
  dialect,   \* "sqlite" or "postgres"
  conn,      \* each process's connection: the tenant bound, and whether a
             \* failed statement has aborted its transaction
  stored,    \* the keyed rows: absent, or whose, and who wrote them last
  vaulted,   \* the secrets, each with the master key it is encrypted under
  master,    \* the master key in the environment, "" when unset
  budget,    \* the budgets
  doing,     \* what each process is in the middle of
  reply,     \* the last answer an accessor gave
  charged    \* history: what was added to each tenant's spending

tenancyVars ==
  <<dialect, conn, stored, vaulted, master, budget, doing, reply, charged>>

-----------------------------------------------------------------------------
\* The keyed tables. Which table an id belongs to matters where an id can be
\* guessed: its refusals then say nothing of other tenants.
Kinds == {"organisation", "membership", "repository", "run"}

NoRow == [owner |-> ""]
Row(owner, by) == [owner |-> owner, by |-> by]

NoBudget == [ceiling |-> -1]

Resting == [step |-> "none"]

Says(asker, what, owner) ==
  reply' = [asker |-> asker, what |-> what, owner |-> owner]

\* A statement needs a usable transaction. acting_as refuses a blank tenant.
Usable(p) == ~conn[p].aborted /\ doing[p] = Resting

\* acting_as and bind_tenant: what every accessor does first.
Bound(p, t) == conn' = [conn EXCEPT ![p].bound = t]

\* A statement the database refuses leaves a Postgres connection aborted: no
\* accessor rolls back.
Refuses(p, t) ==
  conn' = [conn EXCEPT ![p] = [bound |-> t, aborted |-> dialect = "postgres"]]

\* Whether this session is shown a row of this owner.
Visible(session, owner) == dialect = "sqlite" \/ session = owner

\* _require, once bound: the scoped lookup, then whether the id exists at all,
\* as far as this session is shown.
require(t, owner) ==
  IF owner = t THEN "found"
  ELSE IF owner = "" \/ ~Visible(t, owner) THEN "not found" ELSE "cross-tenant"

\* A membership's id or a secret's name can be guessed.
Discreet(kind, answer) ==
  IF kind = "membership" /\ answer = "cross-tenant" THEN "not found" ELSE answer

-----------------------------------------------------------------------------
(* The keyed rows. *)

\* get_organisation, get_member, get_repository and get_run.
GetRow(p, t, k) ==
  /\ Usable(p)
  /\ Bound(p, t)
  /\ LET owner == stored[k].owner
         answer == Discreet(k[1], require(t, owner))
     IN  Says(t, answer, IF answer = "found" THEN owner ELSE "")
  /\ UNCHANGED <<dialect, stored, vaulted, master, budget, doing, charged>>

\* add_member, add_repository and record_run: the id may be another tenant's.
AddRow(p, t, k) ==
  /\ Usable(p)
  /\ IF stored[k] = NoRow
     THEN Bound(p, t) /\ stored' = [stored EXCEPT ![k] = Row(t, t)]
     ELSE Refuses(p, t) /\ UNCHANGED stored
  /\ UNCHANGED <<dialect, vaulted, master, budget, doing, reply, charged>>

\* update_run_status, update_organisation_name and remove_member.
ChangeRow(p, t, k) ==
  /\ Usable(p)
  /\ Bound(p, t)
  /\ LET answer == require(t, stored[k].owner) IN
     /\ Says(t, answer, IF answer = "found" THEN stored[k].owner ELSE "")
     /\ stored' = IF answer # "found" THEN stored
                  ELSE IF k[1] = "membership" THEN [stored EXCEPT ![k] = NoRow]
                  ELSE [stored EXCEPT ![k].by = t]
  /\ UNCHANGED <<dialect, vaulted, master, budget, doing, charged>>

-----------------------------------------------------------------------------
(* Secrets. *)

\* Without a master key nothing is encrypted; a name is taken once per tenant.
put_secret(p, t, n) ==
  /\ Usable(p) /\ master # ""
  /\ IF \E s \in vaulted : s.tenant = t /\ s.name = n
     THEN Refuses(p, t) /\ UNCHANGED vaulted
     ELSE Bound(p, t) /\ vaulted' = vaulted \union {[tenant |-> t, name |-> n, under |-> master]}
  /\ UNCHANGED <<dialect, stored, master, budget, doing, reply, charged>>

\* decrypt: the MAC is verified before anything is decrypted, and it only
\* verifies under the key the row was written with.
decrypt(s) == IF s.under = master THEN "found" ELSE "mac mismatch"

get_secret(p, t, n) ==
  /\ Usable(p) /\ master # ""
  /\ Bound(p, t)
  /\ \/ \E s \in vaulted : /\ s.tenant = t /\ s.name = n
                           /\ Says(t, decrypt(s), t)
     \/ /\ ~ \E s \in vaulted : s.tenant = t /\ s.name = n
        /\ Says(t, "not found", "")
  /\ UNCHANGED <<dialect, stored, vaulted, master, budget, doing, charged>>

delete_secret(p, t, n) ==
  /\ Usable(p)
  /\ Bound(p, t)
  /\ \E s \in vaulted : s.tenant = t /\ s.name = n
  /\ vaulted' = {s \in vaulted : ~(s.tenant = t /\ s.name = n)}
  /\ UNCHANGED <<dialect, stored, master, budget, doing, reply, charged>>

RotateMaster(key) ==
  /\ master' = key
  /\ UNCHANGED <<dialect, conn, stored, vaulted, budget, doing, reply, charged>>

-----------------------------------------------------------------------------
(* Budgets. *)

\* Tenant zero's organisation and budget, once.
adopt(p) ==
  LET org == <<"organisation", TenantZero>> IN
  /\ Usable(p) /\ dialect = "sqlite"
  /\ stored[org] = NoRow /\ budget[TenantZero] = NoBudget
  /\ stored' = [stored EXCEPT ![org] = Row(TenantZero, TenantZero)]
  /\ budget' = [budget EXCEPT ![TenantZero] =
                  [ceiling |-> 0, spent |-> 0, unlimited |-> TRUE]]
  /\ UNCHANGED <<dialect, conn, vaulted, master, doing, reply, charged>>

\* set_budget looks for the row first, in whatever session there is.
BeginSet(p, t, ceiling, unlimited) ==
  /\ Usable(p)
  /\ doing' = [doing EXCEPT ![p] =
       [step |-> "set", tenant |-> t, ceiling |-> ceiling, unlimited |-> unlimited,
        existed |-> budget[t] # NoBudget /\ Visible(conn[p].bound, t)]]
  /\ UNCHANGED <<dialect, conn, stored, vaulted, master, budget, reply, charged>>

\* An insert over a row that is there after all is refused; an update leaves
\* what was spent alone.
FinishSet(p) ==
  LET d == doing[p] IN
  /\ d.step = "set"
  /\ IF d.existed = (budget[d.tenant] # NoBudget)
     THEN /\ Bound(p, d.tenant)
          /\ budget' = [budget EXCEPT ![d.tenant] =
               [ceiling |-> d.ceiling, unlimited |-> d.unlimited,
                spent |-> IF d.existed THEN @.spent ELSE 0]]
     ELSE Refuses(p, d.tenant) /\ UNCHANGED budget
  /\ doing' = [doing EXCEPT ![p] = Resting]
  /\ UNCHANGED <<dialect, stored, vaulted, master, reply, charged>>

BeginSpend(p, t, cents) ==
  /\ Usable(p)
  /\ budget[t] # NoBudget /\ charged[t] + cents <= MaxSpent
  /\ Bound(p, t)
  /\ doing' = [doing EXCEPT ![p] =
       [step |-> "spend", tenant |-> t, cents |-> cents, saw |-> budget[t].spent]]
  /\ UNCHANGED <<dialect, stored, vaulted, master, budget, reply, charged>>

Charged(p) == charged' = [charged EXCEPT ![doing[p].tenant] = @ + doing[p].cents]

\* Deliberate bug: the sum is made of what the lookup saw.
FinishSpendStale(p) ==
  /\ doing[p].step = "spend"
  /\ charged[doing[p].tenant] + doing[p].cents <= MaxSpent
  /\ budget' = [budget EXCEPT ![doing[p].tenant].spent = doing[p].saw + doing[p].cents]
  /\ Charged(p)
  /\ doing' = [doing EXCEPT ![p] = Resting]
  /\ UNCHANGED <<dialect, conn, stored, vaulted, master, reply>>

\* add_spend: the database adds.
FinishSpend(p) ==
  /\ doing[p].step = "spend"
  /\ charged[doing[p].tenant] + doing[p].cents <= MaxSpent
  /\ budget' = [budget EXCEPT ![doing[p].tenant].spent = @ + doing[p].cents]
  /\ Charged(p)
  /\ doing' = [doing EXCEPT ![p] = Resting]
  /\ UNCHANGED <<dialect, conn, stored, vaulted, master, reply>>

\* budgets.check does not bind the session; a row it is not shown is a refusal.
check(p, t, cents) ==
  /\ Usable(p)
  /\ LET b == budget[t] IN
     Says(t, IF b = NoBudget \/ ~Visible(conn[p].bound, t) THEN "no budget"
             ELSE IF b.unlimited \/ b.spent + cents <= b.ceiling THEN "allowed"
             ELSE "over ceiling", t)
  /\ UNCHANGED <<dialect, conn, stored, vaulted, master, budget, doing, charged>>

-----------------------------------------------------------------------------
Fresh0 == [bound |-> "", aborted |-> FALSE]

\* The process is restarted, or connects again.
Reconnect(p) ==
  /\ conn' = [conn EXCEPT ![p] = Fresh0]
  /\ doing' = [doing EXCEPT ![p] = Resting]
  /\ UNCHANGED <<dialect, stored, vaulted, master, budget, reply, charged>>

TenancyInit ==
  /\ dialect \in {"sqlite", "postgres"}
  /\ conn = [p \in Processes |-> Fresh0]
  /\ stored = [k \in RowKeys |-> NoRow]
  /\ vaulted = {}
  /\ master = ""
  /\ budget = [t \in TenantIds |-> NoBudget]
  /\ doing = [p \in Processes |-> Resting]
  /\ reply = [asker |-> "", what |-> "", owner |-> ""]
  /\ charged = [t \in TenantIds |-> 0]

RowsNext ==
  \E p \in Processes :
    \/ \E t \in TenantIds, k \in RowKeys :
         GetRow(p, t, k) \/ AddRow(p, t, k) \/ ChangeRow(p, t, k)
    \/ Reconnect(p)

SecretsNext ==
  \/ \E p \in Processes :
       \/ \E t \in TenantIds, n \in SecretNames :
            put_secret(p, t, n) \/ get_secret(p, t, n) \/ delete_secret(p, t, n)
       \/ Reconnect(p)
  \/ \E key \in MasterKeys : RotateMaster(key)

BudgetsNext ==
  \E p \in Processes :
    \/ \E t \in TenantIds, c \in Cents :
         \/ \E u \in BOOLEAN : BeginSet(p, t, c, u)
         \/ BeginSpend(p, t, c)
         \/ check(p, t, c)
    \/ adopt(p) \/ FinishSet(p) \/ FinishSpend(p) \/ Reconnect(p)

TenancyNext == RowsNext \/ SecretsNext \/ BudgetsNext

TenancySpec == TenancyInit /\ [][TenancyNext]_tenancyVars

-----------------------------------------------------------------------------
TenancyTypeOK ==
  /\ conn \in [Processes -> [bound : TenantIds \union {""}, aborted : BOOLEAN]]
  /\ vaulted \subseteq [tenant : TenantIds, name : SecretNames, under : MasterKeys]
  /\ \A t \in TenantIds : budget[t] = NoBudget \/ budget[t].spent \in 0..MaxSpent

\* On either database, and whatever session an accessor finds: what a tenant is
\* shown is its own, no row was last written by anybody but its owner, and what
\* a budget says was spent is exactly what was charged, also while the budget is
\* created, raised and charged at once (accessors._require, add_spend,
\* set_budget).
TenantsStayApart ==
  /\ reply.what = "found" => reply.owner = reply.asker
  /\ \A k \in RowKeys : stored[k] # NoRow => stored[k].by = stored[k].owner
  /\ \A t \in TenantIds :
       charged[t] = IF budget[t] = NoBudget THEN 0 ELSE budget[t].spent
=============================================================================
