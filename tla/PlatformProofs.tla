---------------------------- MODULE PlatformProofs ----------------------------
(***************************************************************************)
(* Proofs about the services at the edge of the pipeline: the provisioning *)
(* scripts, the agents' containers, the deployed run and its console, and  *)
(* the reader of diffs.  Each is an induction of its own over a            *)
(* strengthening of the property; they share no state.                     *)
(***************************************************************************)
EXTENDS Transport, Provisioning, ActionsRun, DiffText, TLAPS

-----------------------------------------------------------------------------
(* The provisioning scripts. A step is reached only through the steps before *)
(* it in the same run, and nothing else moves what they converged meanwhile: *)
(* so where the script is says what is there.                                *)

PoolType ==
  [attributes : {"none", "lacking", "frozen", "whole"}, verified : BOOLEAN,
   browser : {"none", "current", "drifted"}, signup : Nat, confidential : BOOLEAN,
   made : Nat, vault : Nat, domain : {"none", "ours", "another's"},
   seed : {"none", "temporary", "permanent"}]

PoolSound(pool, step) ==
  /\ pool \in PoolType
  /\ step \in {"browser", "verified", "signup", "secret", "domain", "seed",
               "password", "done"} => pool.attributes = "whole"
  /\ step \in {"verified", "signup", "secret", "domain", "seed", "password", "done"} =>
       pool.browser = "current"
  /\ step \in {"signup", "secret", "domain", "seed", "password", "done"} => pool.verified
  /\ step \in {"secret", "domain", "seed", "password", "done"} => pool.signup # 0
  /\ step \in {"domain", "seed", "password", "done"} => pool.vault = pool.signup

AppType ==
  [shape : {"none", "current", "drifted"}, default : BOOLEAN, custom : BOOLEAN,
   url : {"none", "default", "custom"}, other : 0..2, wish : 0..2,
   branch : {"none", "current"}, role : {"none", "resolved"}, iam : BOOLEAN]

AppSound(app, step) ==
  /\ app \in AppType
  /\ app.other = app.wish
  /\ step \in {"environment", "branch", "role", "done"} => app.shape = "current"
  /\ step \in {"branch", "role", "done"} => app.url = Origin(app)
  /\ step \in {"role", "done"} => app.branch = "current"
  /\ step = "done" => app.role = "resolved"

SchemaType ==
  [dialect : {"sqlite", "postgres"}, build : Builds, shape : 0..Statements,
   row : Builds \union {0}, ran : 0..Statements, noted : Nat, already : Nat,
   role : {"plain", "superuser"}, granted : BOOLEAN]

\* The ledger's row comes after the whole script; what a process saw of the
\* ledger is still there when it commits.
SchemaSound(schema, step) ==
  /\ schema \in SchemaType
  /\ schema.row # 0 \/ schema.granted => schema.shape = Statements
  /\ step \in Over \union {"ledger"} => schema.ran = 0 /\ schema.already = 0
  /\ step = "script" => schema.already = 0 /\ schema.ran < Statements
  /\ step = "row" => schema.already = 0 /\ schema.ran = Statements
  /\ step = "commit" =>
       \/ schema.already # 0 /\ schema.row = schema.build
       \/ schema.already = 0 /\ schema.ran = Statements /\ schema.noted = schema.build
  /\ step = "done" => schema.row = schema.build

ProvisionInv ==
  /\ script \in {"pool", "app", "schema"}
  /\ script = "pool" => PoolSound(live, at)
  /\ script = "app" => AppSound(live, at)
  /\ script = "schema" => SchemaSound(live, at)

LEMMA ProvisionAtInit == ProvisionInit => ProvisionInv
<1> USE ProvisioningAssumption
<1>1. ASSUME NEW a \in {"none", "lacking", "frozen"}, NEW d \in {"none", "another's"}
      PROVE  PoolSound([NewPool EXCEPT !.attributes = a, !.domain = d], "never run")
  BY DEF PoolSound, PoolType, NewPool
<1>2. \A iam \in BOOLEAN : AppSound(NewApp(iam), "never run")
  BY DEF AppSound, AppType, NewApp
<1>3. ASSUME NEW d \in {"sqlite", "postgres"}, NEW b \in Builds,
             NEW r \in {"plain", "superuser"}
      PROVE  SchemaSound(NewSchema(d, b, r), "never run")
  BY DEF SchemaSound, SchemaType, NewSchema, Over
<1> QED
  BY <1>1, <1>2, <1>3 DEF ProvisionInit, ProvisionInv

LEMMA Calls ==
  ASSUME NEW here, NEW next, NEW after, Call(here, next, after)
  PROVE  /\ at = here /\ script' = script
         /\ \/ live' = after /\ at' \in {next, "stopped"}
            \/ live' = live /\ at' = "stopped"
BY DEF Call, Made

LEMMA PoolFields ==
  ASSUME NEW pool \in PoolType, NEW n \in Nat, NEW m \in Nat, NEW c \in BOOLEAN
  PROVE  /\ [pool EXCEPT !.signup = n, !.made = m, !.confidential = c] \in PoolType
         /\ [pool EXCEPT !.signup = n, !.confidential = c] \in PoolType
         /\ [pool EXCEPT !.signup = n, !.made = m] \in PoolType
BY DEF PoolType

\* A script that stops, or is refused, claims nothing.
LEMMA PoolCall ==
  ASSUME PoolSound(live, at), NEW here, NEW next, NEW after,
         Call(here, next, after), PoolSound(after, next)
  PROVE  PoolSound(live, at)' /\ script' = script
<1>1. \A pool : pool \in PoolType => PoolSound(pool, "stopped")
  BY DEF PoolSound
<1> QED
  BY <1>1, Calls DEF PoolSound

LEMMA PoolStepsKeep ==
  ASSUME PoolSound(live, at), PoolSteps
  PROVE  PoolSound(live, at)' /\ script' = script
<1>0. live \in PoolType
  BY DEF PoolSound
<1>1. CASE Start("pool", "pool")
  BY <1>0, <1>1 DEF Start, PoolSound
<1>2. \A here : Refuse(here) => PoolSound(live, at)' /\ script' = script
  BY <1>0 DEF Refuse, PoolSound
<1>3. CASE ConvergePool
  <2>1. ASSUME NEW l \in {[live EXCEPT !.attributes = "whole", !.verified = TRUE],
                          [live EXCEPT !.attributes = "whole"]},
               Call("pool", "browser", l)
        PROVE  PoolSound(live, at)' /\ script' = script
    <3>1. PoolSound(l, "browser")
      BY <1>0 DEF PoolSound, PoolType
    <3> QED
      BY <2>1, <3>1, PoolCall
  <2> QED
    BY <1>2, <1>3, <2>1 DEF ConvergePool
<1>4. CASE ConvergeBrowserClient
  <2> DEFINE l == [live EXCEPT !.browser = "current"]
  <2>1. Call("browser", "verified", l) /\ at = "browser"
    BY <1>4 DEF ConvergeBrowserClient, Call, Made
  <2>2. PoolSound(l, "verified")
    BY <1>0, <2>1 DEF PoolSound, PoolType
  <2> HIDE DEF l
  <2> QED
    BY <2>1, <2>2, PoolCall
<1>5. CASE ConvergeVerified
  <2> DEFINE l == [live EXCEPT !.verified = TRUE]
  <2>1. Call("verified", "signup", l) /\ at = "verified"
    BY <1>5 DEF ConvergeVerified, Call, Made
  <2>2. PoolSound(l, "signup")
    BY <1>0, <2>1 DEF PoolSound, PoolType
  <2> HIDE DEF l
  <2> QED
    BY <2>1, <2>2, PoolCall
<1>6. CASE ConvergeSignUp
  <2>1. at = "signup"
    BY <1>6 DEF ConvergeSignUp, Call, Made
  <2>2. CASE live.signup = 0
    <3> DEFINE l == [live EXCEPT !.signup = live.made + 1, !.made = @ + 1,
                                 !.confidential = TRUE]
    <3>1. Call("signup", "secret", l)
      BY <1>6, <2>2 DEF ConvergeSignUp
    <3>2. l \in PoolType
      <4>1. live.made + 1 \in Nat
        BY <1>0 DEF PoolType
      <4> QED
        BY <1>0, <4>1, PoolFields
    <3>3. /\ l.signup = live.made + 1 /\ l.attributes = live.attributes
          /\ l.verified = live.verified /\ l.browser = live.browser
      BY <1>0 DEF PoolType
    <3>4. l.signup # 0
      BY <1>0, <3>3 DEF PoolType
    <3> HIDE DEF l
    <3>5. PoolSound(l, "secret")
      BY <2>1, <3>2, <3>3, <3>4 DEF PoolSound
    <3> QED
      BY <3>1, <3>5, PoolCall
  <2>3. CASE live.signup # 0
    <3>1. Call("signup", "secret", live)
      BY <1>6, <2>3 DEF ConvergeSignUp
    <3>2. PoolSound(live, "secret")
      BY <2>1, <2>3 DEF PoolSound
    <3> QED
      BY <3>1, <3>2, PoolCall
  <2> QED
    BY <2>2, <2>3
<1>7. CASE _store_signup_secret
  <2> DEFINE l == [live EXCEPT !.vault = live.signup]
  <2>1. Refuse("secret") \/ (Call("secret", "domain", l) /\ at = "secret")
    BY <1>7 DEF _store_signup_secret, Call, Made
  <2>2. at = "secret" => PoolSound(l, "domain")
    BY <1>0 DEF PoolSound, PoolType
  <2> HIDE DEF l
  <2> QED
    BY <1>2, <2>1, <2>2, PoolCall
<1>8. CASE CreateDomain
  <2> DEFINE l == IF live.domain = "none" THEN [live EXCEPT !.domain = "ours"] ELSE live
  <2>1. Call("domain", "seed", l) /\ at = "domain"
    BY <1>8 DEF CreateDomain, Call, Made
  <2>2. PoolSound(l, "seed")
    BY <1>0, <2>1 DEF PoolSound, PoolType
  <2> HIDE DEF l
  <2> QED
    BY <2>1, <2>2, PoolCall
<1>9. CASE SeedUser
  <2> DEFINE l == [live EXCEPT !.seed = "temporary"]
  <2>1. /\ at = "seed"
        /\ Call("seed", "done", live) \/ Call("seed", "password", l)
    BY <1>9 DEF SeedUser, Call, Made
  <2>2. PoolSound(l, "password") /\ PoolSound(live, "done")
    BY <1>0, <2>1 DEF PoolSound, PoolType
  <2> HIDE DEF l
  <2> QED
    BY <2>1, <2>2, PoolCall
<1>10. CASE SetPassword
  <2> DEFINE l == [live EXCEPT !.seed = "permanent"]
  <2>1. Call("password", "done", l) /\ at = "password"
    BY <1>10 DEF SetPassword, Call, Made
  <2>2. PoolSound(l, "done")
    BY <1>0, <2>1 DEF PoolSound, PoolType
  <2> HIDE DEF l
  <2> QED
    BY <2>1, <2>2, PoolCall
<1>11. CASE ConsolePool
  <2>1. PICK l \in {[live EXCEPT !.browser = IF @ = "none" THEN @ ELSE "drifted"],
                    [live EXCEPT !.verified = FALSE],
                    [live EXCEPT !.signup = 0, !.confidential = FALSE],
                    [live EXCEPT !.signup = live.made + 1, !.made = @ + 1]} :
          live' = l /\ at' = "never run" /\ script' = script
    BY <1>11 DEF ConsolePool, Between
  <2>2. /\ [live EXCEPT !.browser = IF @ = "none" THEN @ ELSE "drifted"] \in PoolType
        /\ [live EXCEPT !.verified = FALSE] \in PoolType
    BY <1>0 DEF PoolType
  <2>3. 0 \in Nat /\ live.made \in Nat /\ live.made + 1 \in Nat
    BY <1>0 DEF PoolType
  <2>4. /\ [live EXCEPT !.signup = 0, !.confidential = FALSE] \in PoolType
        /\ [live EXCEPT !.signup = live.made + 1, !.made = @ + 1] \in PoolType
    BY <1>0, <2>3, PoolFields
  <2> QED
    BY <2>1, <2>2, <2>4 DEF PoolSound
<1> QED
  BY <1>1, <1>3, <1>4, <1>5, <1>6, <1>7, <1>8, <1>9, <1>10, <1>11 DEF PoolSteps

LEMMA AppCall ==
  ASSUME AppSound(live, at), NEW here, NEW next, NEW after,
         Call(here, next, after), AppSound(after, next)
  PROVE  AppSound(live, at)' /\ script' = script
<1>1. \A app : app \in AppType /\ app.other = app.wish => AppSound(app, "stopped")
  BY DEF AppSound
<1> QED
  BY <1>1, Calls DEF AppSound

LEMMA AppStepsKeep ==
  ASSUME AppSound(live, at), AppSteps
  PROVE  AppSound(live, at)' /\ script' = script
<1>0. live \in AppType /\ live.other = live.wish
  BY DEF AppSound
<1>1. CASE Start("app", "app")
  BY <1>0, <1>1 DEF Start, AppSound
<1>2. \A here : Refuse(here) => AppSound(live, at)' /\ script' = script
  BY <1>0 DEF Refuse, AppSound
<1>3. CASE ConvergeApp
  <2>1. PICK d \in BOOLEAN :
          Call("app", "environment",
               [live EXCEPT !.shape = "current",
                            !.default = IF live.shape = "none" THEN d ELSE @])
    BY <1>3 DEF ConvergeApp
  <2> DEFINE l == [live EXCEPT !.shape = "current",
                               !.default = IF live.shape = "none" THEN d ELSE @]
  <2>2. AppSound(l, "environment")
    BY <1>0 DEF AppSound, AppType
  <2> HIDE DEF l
  <2> QED
    BY <2>1, <2>2, AppCall DEF l
<1>4. CASE ConvergeEnvironment
  <2> DEFINE l == [live EXCEPT !.url = Origin(live)]
  <2>1. Refuse("environment")
        \/ (Call("environment", "branch", l) /\ at = "environment")
    BY <1>4 DEF ConvergeEnvironment, Call, Made
  <2>2. at = "environment" => AppSound(l, "branch")
    BY <1>0 DEF AppSound, AppType, Origin
  <2> HIDE DEF l
  <2> QED
    BY <1>2, <2>1, <2>2, AppCall
<1>5. CASE converge_branch
  <2> DEFINE l == [live EXCEPT !.branch = "current"]
  <2>1. Call("branch", "role", l) /\ at = "branch"
    BY <1>5 DEF converge_branch, Call, Made
  <2>2. AppSound(l, "role")
    BY <1>0, <2>1 DEF AppSound, AppType, Origin
  <2> HIDE DEF l
  <2> QED
    BY <2>1, <2>2, AppCall
<1>6. CASE ConvergeRole
  <2> DEFINE l == [live EXCEPT !.role = "resolved"]
  <2>1. Refuse("role") \/ (Call("role", "done", l) /\ at = "role")
    BY <1>6 DEF ConvergeRole, Call, Made
  <2>2. at = "role" => AppSound(l, "done")
    BY <1>0 DEF AppSound, AppType, Origin
  <2> HIDE DEF l
  <2> QED
    BY <1>2, <2>1, <2>2, AppCall
<1>7. CASE ConsoleApp
  <2>1. ASSUME NEW l, Between("app", l), l \in AppType, l.other = l.wish
        PROVE  AppSound(live, at)' /\ script' = script
    BY <2>1 DEF Between, AppSound
  <2> DEFINE drifted == [live EXCEPT !.shape = "drifted"]
             moved == [live EXCEPT !.custom = ~@]
             dropped == [live EXCEPT !.role = "none"]
             other(v) == [live EXCEPT !.other = v, !.wish = v]
  <2>2. drifted \in AppType /\ drifted.other = drifted.wish
    BY <1>0 DEF AppType
  <2>3. moved \in AppType /\ moved.other = moved.wish
    BY <1>0 DEF AppType
  <2>4. dropped \in AppType /\ dropped.other = dropped.wish
    BY <1>0 DEF AppType
  <2>5. \A v \in 1..2 : other(v) \in AppType /\ other(v).other = other(v).wish
    <3>1. \A v \in 0..2 : other(v) \in AppType
      BY <1>0 DEF AppType
    <3>2. \A v \in 1..2 : other(v).other = v /\ other(v).wish = v
      BY <1>0 DEF AppType
    <3>3. \A v \in 1..2 : v \in 0..2
      OBVIOUS
    <3> HIDE DEF other
    <3> QED
      BY <3>1, <3>2, <3>3
  <2>6. \/ Between("app", drifted) \/ Between("app", moved)
        \/ Between("app", dropped) \/ \E v \in 1..2 : Between("app", other(v))
    BY <1>7 DEF ConsoleApp
  <2> HIDE DEF drifted, moved, dropped, other
  <2> QED
    BY <2>1, <2>2, <2>3, <2>4, <2>5, <2>6
<1> QED
  BY <1>1, <1>3, <1>4, <1>5, <1>6, <1>7 DEF AppSteps

LEMMA SchemaStepsKeep ==
  ASSUME SchemaSound(live, at), SchemaSteps
  PROVE  SchemaSound(live, at)' /\ script' = script
<1> USE ProvisioningAssumption
<1>0. live \in SchemaType
  BY DEF SchemaSound
<1>1. CASE Start("schema", "ledger")
  BY <1>0, <1>1 DEF Start, SchemaSound, Over
<1>2. CASE Refuse("ledger")
  BY <1>0, <1>2 DEF Refuse, SchemaSound, Over
<1>3. Rolled(live) \in SchemaType /\ Rolled(live).row = live.row
      /\ Rolled(live).shape = live.shape /\ Rolled(live).granted = live.granted
      /\ Rolled(live).ran = 0 /\ Rolled(live).already = 0
      /\ Rolled(live).build = live.build
  <2>1. Rolled(live) \in SchemaType
    <3>1. 0 \in 0..Statements /\ 0 \in Nat
      OBVIOUS
    <3> QED
      BY <1>0, <3>1 DEF Rolled, SchemaType
  <2>2. Rolled(live).row = live.row /\ Rolled(live).shape = live.shape
        /\ Rolled(live).granted = live.granted /\ Rolled(live).build = live.build
    BY <1>0 DEF Rolled, SchemaType
  <2>3. Rolled(live).ran = 0 /\ Rolled(live).already = 0
    BY <1>0 DEF Rolled, SchemaType
  <2> QED
    BY <2>1, <2>2, <2>3
<1>4. ASSUME NEW here, Stops(here) PROVE SchemaSound(live, at)' /\ script' = script
  BY <1>3, <1>4 DEF Stops, SchemaSound, Over
<1>5. CASE ReadLedger /\ ~Refuse("ledger")
  <2> DEFINE l == [live EXCEPT !.already = live.row]
  <2>1. /\ live.row \in {0, live.build} /\ at = "ledger" /\ live' = l
        /\ at' = (IF live.row = 0 THEN "script" ELSE "commit") /\ script' = script
    BY <1>5 DEF ReadLedger, Moves
  <2>2. /\ l \in SchemaType /\ l.already = live.row /\ l.row = live.row
        /\ l.shape = live.shape /\ l.granted = live.granted /\ l.ran = live.ran
        /\ l.build = live.build
    BY <1>0 DEF SchemaType
  <2> HIDE DEF l
  <2> QED
    BY <2>1, <2>2 DEF SchemaSound, Over
<1>6. CASE RunScript
  <2> DEFINE more == [live EXCEPT !.ran = @ + 1]
             l == IF live.dialect = "postgres" THEN more
                  ELSE [more EXCEPT !.shape = IF @ > more.ran THEN @ ELSE more.ran]
  <2>1. /\ live.ran < Statements /\ at = "script" /\ live' = l
        /\ at' = (IF more.ran = Statements THEN "row" ELSE "script")
        /\ script' = script
    BY <1>6 DEF RunScript, Moves
  <2>2. /\ more \in SchemaType /\ more.ran = live.ran + 1
        /\ more.row = live.row /\ more.shape = live.shape
        /\ more.granted = live.granted /\ more.already = live.already
    BY <1>0, <2>1 DEF SchemaType
  <2>3. /\ l \in SchemaType /\ l.ran = live.ran + 1 /\ l.row = live.row
        /\ l.granted = live.granted /\ l.already = live.already
        /\ l.shape >= live.shape
    <3> HIDE DEF more
    <3> QED
      BY <1>0, <2>2 DEF SchemaType
  <2>4. l.shape \in 0..Statements /\ live.shape \in 0..Statements
    BY <1>0, <2>3 DEF SchemaType
  <2>5. live.shape = Statements => l.shape = Statements
    BY <2>3, <2>4
  <2> HIDE DEF l, more
  <2> QED
    BY <1>0, <2>1, <2>2, <2>3, <2>5 DEF SchemaSound, SchemaType, Over
<1>7. CASE InsertRow
  <2> DEFINE l == [live EXCEPT !.noted = live.build]
  <2>1. at = "row" /\ live' = l /\ at' = "commit" /\ script' = script
    BY <1>7 DEF InsertRow, Moves
  <2>2. /\ l \in SchemaType /\ l.noted = live.build /\ l.build = live.build
        /\ l.already = live.already /\ l.row = live.row /\ l.ran = live.ran
        /\ l.shape = live.shape /\ l.granted = live.granted
    BY <1>0 DEF SchemaType
  <2> HIDE DEF l
  <2> QED
    BY <2>1, <2>2 DEF SchemaSound, Over
<1>8. CASE Commit
  <2> DEFINE l == IF live.already # 0 THEN Rolled(live)
                  ELSE [Rolled(live) EXCEPT
                          !.row = live.noted,
                          !.shape = IF live.ran > @ THEN live.ran ELSE @]
  <2>1. at = "commit" /\ live' = l /\ at' \in {"done", "stopped"} /\ script' = script
    BY <1>8 DEF Commit, Made
  <2>2. CASE live.already # 0
    <3>1. l = Rolled(live) /\ live.row = live.build
      BY <2>1, <2>2 DEF SchemaSound
    <3> HIDE DEF l
    <3> QED
      BY <1>3, <2>1, <3>1 DEF SchemaSound, Over
  <2>3. CASE live.already = 0
    <3>1. live.ran = Statements /\ live.noted = live.build
      BY <2>1, <2>3 DEF SchemaSound
    <3>2. live.shape \in 0..Statements /\ live.build \in Builds
      BY <1>0 DEF SchemaType
    <3>3. PICK rolled \in SchemaType :
            /\ rolled = Rolled(live) /\ rolled.shape = live.shape
            /\ rolled.ran = 0 /\ rolled.already = 0 /\ rolled.build = live.build
      BY <1>3
    <3>4. (IF live.ran > live.shape THEN live.ran ELSE live.shape) = Statements
      BY <3>1, <3>2
    <3>5. l = [rolled EXCEPT !.row = live.build, !.shape = Statements]
      BY <2>3, <3>1, <3>3, <3>4
    <3> HIDE DEF l
    <3>6. l \in SchemaType
      <4>1. Statements \in 0..Statements
        OBVIOUS
      <4> QED
        BY <3>2, <3>5, <4>1 DEF SchemaType
    <3>7. /\ l.row = live.build /\ l.shape = Statements /\ l.build = live.build
          /\ l.ran = 0 /\ l.already = 0
      BY <3>3, <3>5 DEF SchemaType
    <3> QED
      BY <2>1, <3>6, <3>7 DEF SchemaSound, Over
  <2> QED
    BY <2>2, <2>3
<1>9. CASE ProvisionRole
  <2>1. /\ live' \in {live, [live EXCEPT !.granted = TRUE]} /\ live.shape = Statements
        /\ at' = at /\ script' = script
    BY <1>9 DEF ProvisionRole
  <2>2. /\ live' \in SchemaType /\ live'.shape = live.shape /\ live'.row = live.row
        /\ live'.ran = live.ran /\ live'.already = live.already
        /\ live'.noted = live.noted /\ live'.build = live.build
    BY <1>0, <2>1 DEF SchemaType
  <2> QED
    BY <2>1, <2>2 DEF SchemaSound
<1>10. CASE ChangeBuild
  <2>1. PICK b \in Builds : /\ live' = [Rolled(live) EXCEPT !.build = b]
                            /\ at' = "never run" /\ script' = script
    BY <1>10 DEF ChangeBuild, Between
  <2>2. /\ live' \in SchemaType /\ live'.row = live.row /\ live'.shape = live.shape
        /\ live'.granted = live.granted /\ live'.ran = 0 /\ live'.already = 0
    BY <1>3, <2>1 DEF SchemaType
  <2> QED
    BY <2>1, <2>2 DEF SchemaSound, Over
<1> QED
  BY <1>1, <1>2, <1>4, <1>5, <1>6, <1>7, <1>8, <1>9, <1>10 DEF SchemaSteps

\* A provisioning script that reports success has left what its spec describes,
\* however many runs of it stopped at whatever call before, and whatever the
\* console changed between them; and the ledger never claims, and the role is
\* never granted, a schema that is not all there.
THEOREM DoneAlwaysMeansConverged == ProvisionSpec => []DoneMeansConverged
<1>1. ProvisionInv /\ [ProvisionNext]_provisionVars => ProvisionInv'
  <2> SUFFICES ASSUME ProvisionInv, [ProvisionNext]_provisionVars PROVE ProvisionInv'
    OBVIOUS
  <2>1. CASE PoolSteps
    BY <2>1, PoolStepsKeep DEF ProvisionInv, PoolSteps
  <2>2. CASE AppSteps
    BY <2>2, AppStepsKeep DEF ProvisionInv, AppSteps
  <2>3. CASE SchemaSteps
    BY <2>3, SchemaStepsKeep DEF ProvisionInv, SchemaSteps
  <2>4. CASE UNCHANGED provisionVars
    BY <2>4 DEF ProvisionInv, provisionVars, PoolSound, AppSound, SchemaSound
  <2> QED
    BY <2>1, <2>2, <2>3, <2>4 DEF ProvisionNext
<1>2. ProvisionInv => DoneMeansConverged
  BY DEF ProvisionInv, PoolSound, AppSound, SchemaSound, DoneMeansConverged
<1> QED
  BY <1>1, <1>2, ProvisionAtInit, PTL DEF ProvisionSpec

-----------------------------------------------------------------------------
(* The agents' containers. What a call took is in the container's globals    *)
(* until the envelope is written, because a container at work is never       *)
(* replaced; what a process's answers took is in its own until they go to the *)
(* document, and from then on in that stage's cost.                          *)

TallyType ==
  [calls : Nat, used : Nat, owed : Nat, fixture : BOOLEAN, answered : BOOLEAN,
   stages : Nat, billed : Seq(Nat)]

StageType == [rows : Nat, model : BOOLEAN]

BoxType == [globals : GlobalsType, serving : SUBSET RemoteRuns, route : Routes]

InBox == {"received", "ran", "raised"}

CallSound(r, c, there) ==
  /\ c.step \in InBox => r \in there.serving
  /\ c.step \in {"ran", "raised"} =>
       c.took \in Nat /\ c.fell \in BOOLEAN /\ c.took <= there.globals.rows
  /\ c.step = "answered" =>
       /\ c.took \in Nat /\ c.fell \in BOOLEAN /\ c.rows \in Nat /\ c.blanks \in Nat
       /\ c.source \in {"none", "model", "fixture"} /\ c.took <= c.rows

HeldSound(held, count) ==
  held \in GlobalsType /\ count \in TallyType /\ count.owed <= held.rows

BillSound(billed, cost) ==
  /\ billed \in Seq(Nat) /\ cost \in Seq(StageType)
  /\ Len(billed) = Len(cost)
  /\ \A i \in DOMAIN billed : billed[i] <= cost[i].rows

TransportInv ==
  /\ box \in BoxType
  /\ DOMAIN flight = RemoteRuns /\ DOMAIN proc = RemoteRuns
  /\ DOMAIN tally = RemoteRuns /\ DOMAIN charge = RemoteRuns
  /\ \A r \in RemoteRuns :
       /\ CallSound(r, flight[r], box) /\ HeldSound(proc[r], tally[r])
       /\ BillSound(tally[r].billed, charge[r].cost)

\* What the globals after an agent's run tell of what it used.
Outcome(g, o) ==
  /\ o = [g |-> o.g, reply |-> o.reply] /\ o.g \in GlobalsType /\ o.reply \in BOOLEAN
  /\ o.g.rows \in {g.rows, g.rows + 1}

LEMMA TextLeaves ==
  ASSUME NEW g \in GlobalsType, NEW route, NEW t \in text(g, route)
  PROVE  Outcome(g, t)
<1> DEFINE fixed == _record(g, "fixture")
           tried == _record(_record_usage(g), "fixture")
           told  == _record(_record_usage(g), "model")
<1>1. /\ fixed \in GlobalsType /\ fixed.rows = g.rows /\ fixed.source = "fixture"
  BY DEF _record, GlobalsType
<1>2. _record_usage(g) \in GlobalsType /\ _record_usage(g).rows = g.rows + 1
      /\ _record_usage(g).source = g.source
  BY DEF _record_usage, GlobalsType
<1>3. tried \in GlobalsType /\ tried.rows = g.rows + 1 /\ tried.source = "fixture"
  BY <1>2 DEF _record, GlobalsType
<1>4. told \in GlobalsType /\ told.rows = g.rows + 1
      /\ (g.source = "none" => told.source = "model")
  BY <1>2 DEF _record, GlobalsType
<1>5. t \in {[g |-> fixed, reply |-> FALSE], [g |-> tried, reply |-> FALSE],
             [g |-> told, reply |-> TRUE]}
  BY DEF text
<1> HIDE DEF fixed, tried, told
<1>6. CASE t = [g |-> fixed, reply |-> FALSE]
  BY <1>1, <1>6 DEF Outcome
<1>7. CASE t = [g |-> tried, reply |-> FALSE]
  BY <1>3, <1>7 DEF Outcome
<1>8. CASE t = [g |-> told, reply |-> TRUE]
  BY <1>4, <1>8 DEF Outcome
<1> QED
  BY <1>5, <1>6, <1>7, <1>8

\* What an agent's run leaves in the container it ran in.
LEMMA AgentLeaves ==
  ASSUME NEW g \in GlobalsType, NEW route, NEW a \in AgentRuns(g, route)
  PROVE  Outcome(g, a)
<1>1. ASSUME NEW s \in structured(g, route) PROVE Outcome(g, s)
  <2>1. CASE s \in text(g, route)
    BY <2>1, TextLeaves
  <2>2. ASSUME NEW t \in text(g, route),
               s = [g |-> _record(t.g, "fixture"), reply |-> FALSE]
        PROVE  Outcome(g, s)
    <3>1. t.g \in GlobalsType /\ t.g.rows \in {g.rows, g.rows + 1}
      BY TextLeaves DEF Outcome
    <3>2. /\ _record(t.g, "fixture") \in GlobalsType
          /\ _record(t.g, "fixture").rows = t.g.rows
          /\ _record(t.g, "fixture").source = "fixture"
      BY <3>1 DEF _record, GlobalsType
    <3> QED
      BY <2>2, <3>1, <3>2 DEF Outcome
  <2> QED
    BY <2>1, <2>2 DEF structured
<1>2. CASE a \in text(g, route)
  BY <1>2, TextLeaves
<1>3. ASSUME NEW s \in structured(g, route),
             a = [s EXCEPT !.g = IF s.reply THEN @ ELSE record_fixture_fallback(@)]
      PROVE  Outcome(g, a)
  <2>1. Outcome(g, s)
    BY <1>1
  <2>2. /\ a = [g |-> a.g, reply |-> a.reply] /\ a.reply = s.reply
        /\ a.g = IF s.reply THEN s.g ELSE record_fixture_fallback(s.g)
    BY <1>3, <2>1 DEF Outcome
  <2>3. s.g \in GlobalsType
    BY <2>1 DEF Outcome
  <2>4. /\ record_fixture_fallback(s.g) \in GlobalsType
        /\ record_fixture_fallback(s.g).rows = s.g.rows
        /\ record_fixture_fallback(s.g).source = "fixture"
    <3>1. /\ _record(s.g, "fixture") \in GlobalsType
          /\ _record(s.g, "fixture").rows = s.g.rows
          /\ _record(s.g, "fixture").source = "fixture"
      BY <2>3 DEF _record, GlobalsType
    <3>2. _record(s.g, "fixture").blanks + 1 \in Nat
      BY <3>1 DEF GlobalsType
    <3> HIDE DEF _record
    <3> QED
      BY <3>1, <3>2 DEF record_fixture_fallback, GlobalsType
  <2> QED
    BY <2>1, <2>2, <2>4 DEF Outcome
<1> QED
  BY <1>2, <1>3 DEF AgentRuns

\* A step of one caller changes only what is that caller's.
Only(f, h, r, v) == DOMAIN h = RemoteRuns /\ h[r] = v /\ \A q \in RemoteRuns \ {r} : h[q] = f[q]

LEMMA CallerMoves ==
  ASSUME TransportInv, NEW r \in RemoteRuns, NEW c, NEW held, NEW count, NEW bill,
         Only(flight, flight', r, c), Only(proc, proc', r, held),
         Only(tally, tally', r, count), Only(charge, charge', r, bill),
         box' \in BoxType, box.globals.rows <= box'.globals.rows,
         box.serving \ {r} \subseteq box'.serving,
         CallSound(r, c, box'), HeldSound(held, count), BillSound(count.billed, bill.cost)
  PROVE  TransportInv'
<1>1. ASSUME NEW q \in RemoteRuns \ {r} PROVE CallSound(q, flight[q], box')
  <2>1. CallSound(q, flight[q], box) /\ box \in BoxType
    BY DEF TransportInv
  <2>2. box.globals.rows \in Nat /\ box'.globals.rows \in Nat
    BY <2>1 DEF BoxType, GlobalsType
  <2> QED
    BY <2>1, <2>2 DEF CallSound
<1> HIDE DEF CallSound, HeldSound, BillSound
<1> QED
  BY <1>1 DEF TransportInv, Only

\* One caller's part of the state, and the container's.
LEMMA Parts ==
  ASSUME TransportInv, NEW r \in RemoteRuns
  PROVE  /\ box \in BoxType /\ box.globals \in GlobalsType /\ box.serving \subseteq RemoteRuns
         /\ CallSound(r, flight[r], box) /\ HeldSound(proc[r], tally[r])
         /\ BillSound(tally[r].billed, charge[r].cost)
         /\ proc[r] \in GlobalsType /\ tally[r] \in TallyType
         /\ box.globals.rows \in Nat /\ proc[r].rows \in Nat /\ tally[r].owed \in Nat
BY DEF TransportInv, HeldSound, BoxType, GlobalsType, TallyType

\* A caller's EXCEPT, and what no EXCEPT touches.
LEMMA Excepted ==
  ASSUME NEW f, NEW h, NEW r \in RemoteRuns, NEW v, DOMAIN f = RemoteRuns, h = [f EXCEPT ![r] = v]
  PROVE  Only(f, h, r, v)
BY DEF Only

LEMMA Kept ==
  ASSUME NEW f, NEW h, NEW r \in RemoteRuns, DOMAIN f = RemoteRuns, h = f
  PROVE  Only(f, h, r, f[r])
BY DEF Only

LEMMA Domains ==
  TransportInv => /\ DOMAIN flight = RemoteRuns /\ DOMAIN proc = RemoteRuns
                  /\ DOMAIN tally = RemoteRuns /\ DOMAIN charge = RemoteRuns
BY DEF TransportInv

\* Steps that leave the container and the document as they are.
LEMMA BoxKept ==
  ASSUME TransportInv, NEW r \in RemoteRuns, NEW c, NEW held, NEW count,
         Only(flight, flight', r, c), Only(proc, proc', r, held),
         Only(tally, tally', r, count), charge' = charge,
         box' = box, CallSound(r, c, box), HeldSound(held, count),
         count.billed = tally[r].billed
  PROVE  TransportInv'
<1>1. box' \in BoxType /\ box.globals.rows <= box'.globals.rows
      /\ box.serving \ {r} \subseteq box'.serving /\ CallSound(r, c, box')
  BY Parts
<1>2. Only(charge, charge', r, charge[r]) /\ BillSound(count.billed, charge[r].cost)
  BY Domains, Kept, Parts
<1> HIDE DEF Only, CallSound, HeldSound, BillSound
<1> QED
  BY <1>1, <1>2, CallerMoves

LEMMA InvokeKeeps ==
  ASSUME TransportInv, NEW r \in RemoteRuns, Invoke(r)
  PROVE  TransportInv'
<1>1. PICK request \in Requests :
        /\ tally' = [tally EXCEPT ![r].calls = @ + 1]
        /\ flight' = [flight EXCEPT ![r] = [step |-> "sent", request |-> request]]
        /\ UNCHANGED <<box, proc, charge>>
  BY DEF Invoke
<1> DEFINE c == [step |-> "sent", request |-> request]
           count == [tally[r] EXCEPT !.calls = @ + 1]
<1>2. Only(flight, flight', r, c) /\ Only(proc, proc', r, proc[r]) /\ Only(tally, tally', r, count)
  BY <1>1, Domains, Excepted, Kept
<1>3. CallSound(r, c, box)
  BY DEF CallSound, InBox
<1>4. count \in TallyType /\ count.owed = tally[r].owed /\ count.billed = tally[r].billed
  <2>1. tally[r] \in TallyType /\ tally[r].calls + 1 \in Nat
    BY Parts DEF TallyType
  <2> QED
    BY <2>1 DEF TallyType
<1> HIDE DEF count
<1>5. HeldSound(proc[r], count)
  BY <1>4, Parts DEF HeldSound
<1> HIDE DEF c
<1> QED
  BY <1>1, <1>2, <1>3, <1>4, <1>5, BoxKept

LEMMA ReceiveKeeps ==
  ASSUME TransportInv, NEW r \in RemoteRuns, Receive(r)
  PROVE  TransportInv'
<1> DEFINE c == [step |-> "received"]
<1>1. /\ box' = [box EXCEPT !.globals = reset_source(@), !.serving = @ \union {r}]
      /\ flight' = [flight EXCEPT ![r] = c] /\ UNCHANGED <<proc, charge, tally>>
  BY DEF Receive
<1>2. /\ Only(flight, flight', r, c) /\ Only(proc, proc', r, proc[r])
      /\ Only(tally, tally', r, tally[r]) /\ Only(charge, charge', r, charge[r])
  BY <1>1, Domains, Excepted, Kept
<1>3. /\ reset_source(box.globals) \in GlobalsType
      /\ reset_source(box.globals).rows = box.globals.rows
  BY Parts DEF reset_source, GlobalsType
<1>4. /\ box' \in BoxType /\ box'.globals = reset_source(box.globals)
      /\ box'.serving = box.serving \union {r}
  BY <1>1, <1>3, Parts DEF BoxType
<1>5. CallSound(r, c, box')
  BY <1>3, <1>4 DEF CallSound, InBox
<1>6. HeldSound(proc[r], tally[r]) /\ BillSound(tally[r].billed, charge[r].cost)
  BY Parts
<1>7. box.globals.rows <= box'.globals.rows /\ box.serving \ {r} \subseteq box'.serving
  BY <1>3, <1>4, Parts
<1> HIDE DEF c
<1> QED
  BY <1>2, <1>4, <1>5, <1>6, <1>7, CallerMoves

\* The agent ends where it runs: what it took is now in the container's rows.
LEMMA AgentStep ==
  ASSUME TransportInv, NEW r \in RemoteRuns, flight[r].step = "received",
         NEW a \in AgentRuns(box.globals, box.route)
  PROVE  /\ a.g \in GlobalsType /\ a.reply \in BOOLEAN
         /\ box.globals.rows <= a.g.rows
         /\ a.g.rows - box.globals.rows \in 0..1
         /\ a.g.rows - box.globals.rows <= a.g.rows
         /\ r \in box.serving
<1>1. Outcome(box.globals, a)
  BY AgentLeaves, Parts
<1>2. /\ a.g.rows \in {box.globals.rows, box.globals.rows + 1}
      /\ a.g \in GlobalsType /\ a.reply \in BOOLEAN /\ box.globals.rows \in Nat
  BY <1>1, Parts DEF Outcome
<1>3. r \in box.serving
  BY Parts DEF CallSound, InBox
<1> QED
  BY <1>2, <1>3

LEMMA UsedMore ==
  ASSUME TransportInv, NEW r \in RemoteRuns, NEW took \in Nat
  PROVE  /\ HeldSound(proc[r], [tally[r] EXCEPT !.used = @ + took])
         /\ BillSound([tally[r] EXCEPT !.used = @ + took].billed, charge[r].cost)
<1> DEFINE count == [tally[r] EXCEPT !.used = @ + took]
<1>1. tally[r] \in TallyType /\ tally[r].used + took \in Nat
  BY Parts DEF TallyType
<1>2. count \in TallyType /\ count.owed = tally[r].owed /\ count.billed = tally[r].billed
  BY <1>1 DEF TallyType
<1> HIDE DEF count
<1>3. HeldSound(proc[r], count) /\ BillSound(count.billed, charge[r].cost)
  BY <1>2, Parts DEF HeldSound
<1> QED
  BY <1>3 DEF count

LEMMA RunAgentKeeps ==
  ASSUME TransportInv, NEW r \in RemoteRuns, RunAgent(r)
  PROVE  TransportInv'
<1>1. PICK a \in AgentRuns(box.globals, box.route), raised \in BOOLEAN :
        /\ box' = [box EXCEPT !.globals = a.g]
        /\ tally' = [tally EXCEPT ![r].used = @ + (a.g.rows - box.globals.rows)]
        /\ flight' = [flight EXCEPT ![r] = [step |-> IF raised THEN "raised" ELSE "ran",
                                        took |-> a.g.rows - box.globals.rows,
                                        fell |-> ~a.reply]]
        /\ UNCHANGED <<proc, charge>>
  BY DEF RunAgent
<1>2. flight[r].step = "received"
  BY DEF RunAgent
<1> DEFINE took == a.g.rows - box.globals.rows
           c == [step |-> IF raised THEN "raised" ELSE "ran", took |-> took,
                 fell |-> ~a.reply]
           count == [tally[r] EXCEPT !.used = @ + took]
<1>3. /\ a.g \in GlobalsType /\ a.reply \in BOOLEAN /\ box.globals.rows <= a.g.rows
      /\ took \in Nat /\ took <= a.g.rows /\ r \in box.serving
  BY <1>2, AgentStep
<1>4. /\ Only(flight, flight', r, c) /\ Only(proc, proc', r, proc[r])
      /\ Only(tally, tally', r, count) /\ Only(charge, charge', r, charge[r])
  BY <1>1, Domains, Excepted, Kept
<1>5. box' \in BoxType /\ box'.globals = a.g /\ box'.serving = box.serving
  BY <1>1, <1>3, Parts DEF BoxType
<1>6. HeldSound(proc[r], count) /\ BillSound(count.billed, charge[r].cost)
  BY <1>3, UsedMore
<1> HIDE DEF took
<1>7. c.step \in {"ran", "raised"} /\ c.took = took /\ c.fell = ~a.reply
  OBVIOUS
<1> HIDE DEF c, count
<1>8. CallSound(r, c, box')
  BY <1>3, <1>5, <1>7 DEF CallSound
<1>9. box.globals.rows <= box'.globals.rows /\ box.serving \ {r} \subseteq box'.serving
  BY <1>3, <1>5
<1> QED
  BY <1>4, <1>5, <1>6, <1>8, <1>9, CallerMoves

LEMMA TimeOutKeeps ==
  ASSUME TransportInv, NEW r \in RemoteRuns, TimeOut(r)
  PROVE  TransportInv'
<1>1. PICK a \in AgentRuns(box.globals, box.route) :
        /\ box' = [box EXCEPT !.globals = a.g, !.serving = @ \ {r}]
        /\ tally' = [tally EXCEPT ![r].used = @ + a.g.rows - box.globals.rows]
        /\ flight' = [flight EXCEPT ![r] = Failed] /\ UNCHANGED <<proc, charge>>
  BY DEF TimeOut
<1>2. flight[r].step = "received"
  BY DEF TimeOut
<1> DEFINE took == a.g.rows - box.globals.rows
           count == [tally[r] EXCEPT !.used = @ + took]
<1>3. /\ a.g \in GlobalsType /\ box.globals.rows <= a.g.rows
      /\ took \in Nat /\ r \in box.serving
  BY <1>2, AgentStep
<1>4. tally[r].used + a.g.rows - box.globals.rows = tally[r].used + took
  <2>1. tally[r].used \in Nat /\ a.g.rows \in Nat /\ box.globals.rows \in Nat
    BY <1>3, Parts DEF TallyType, GlobalsType
  <2> QED
    BY <2>1
<1>5. /\ Only(flight, flight', r, Failed) /\ Only(proc, proc', r, proc[r])
      /\ Only(tally, tally', r, count) /\ Only(charge, charge', r, charge[r])
  BY <1>1, <1>4, Domains, Excepted, Kept
<1>6. box' \in BoxType /\ box'.globals = a.g /\ box'.serving = box.serving \ {r}
  <2>1. box.serving \ {r} \in SUBSET RemoteRuns
    BY Parts
  <2> QED
    BY <1>1, <1>3, <2>1, Parts DEF BoxType
<1>7. HeldSound(proc[r], count) /\ BillSound(count.billed, charge[r].cost)
  BY <1>3, UsedMore
<1> HIDE DEF took, count
<1>8. CallSound(r, Failed, box')
  BY DEF CallSound, InBox, Failed
<1>9. box.globals.rows <= box'.globals.rows /\ box.serving \ {r} \subseteq box'.serving
  BY <1>3, <1>6
<1> QED
  BY <1>5, <1>6, <1>7, <1>8, <1>9, CallerMoves

LEMMA RespondKeeps ==
  ASSUME TransportInv, NEW r \in RemoteRuns, Respond(r)
  PROVE  TransportInv'
<1> DEFINE answer == [step |-> "answered", took |-> flight[r].took, fell |-> flight[r].fell,
                      source |-> box.globals.source, rows |-> box.globals.rows,
                      blanks |-> box.globals.blanks]
           c == IF flight[r].step = "raised" THEN Failed ELSE answer
<1>1. /\ flight[r].step \in {"ran", "raised"} /\ box' = [box EXCEPT !.serving = @ \ {r}]
      /\ flight' = [flight EXCEPT ![r] = c] /\ UNCHANGED <<proc, charge, tally>>
  BY DEF Respond
<1>2. /\ Only(flight, flight', r, c) /\ Only(proc, proc', r, proc[r])
      /\ Only(tally, tally', r, tally[r]) /\ Only(charge, charge', r, charge[r])
  BY <1>1, Domains, Excepted, Kept
<1>3. box' \in BoxType /\ box'.globals = box.globals /\ box'.serving = box.serving \ {r}
  <2>1. box.serving \ {r} \in SUBSET RemoteRuns
    BY Parts
  <2> QED
    BY <1>1, <2>1, Parts DEF BoxType
<1>4. /\ flight[r].took \in Nat /\ flight[r].fell \in BOOLEAN
      /\ flight[r].took <= box.globals.rows
  BY <1>1, Parts DEF CallSound
<1>5. CallSound(r, answer, box')
  <2>1. box.globals \in GlobalsType
    BY Parts
  <2> QED
    BY <1>4, <2>1 DEF CallSound, InBox, GlobalsType
<1>6. CallSound(r, Failed, box')
  BY DEF CallSound, InBox, Failed
<1> HIDE DEF answer
<1>7. CallSound(r, c, box')
  BY <1>5, <1>6
<1> HIDE DEF c
<1>8. box.globals.rows <= box'.globals.rows /\ box.serving \ {r} \subseteq box'.serving
  BY <1>3, Parts
<1>9. HeldSound(proc[r], tally[r]) /\ BillSound(tally[r].billed, charge[r].cost)
  BY Parts
<1> QED
  BY <1>2, <1>3, <1>7, <1>8, <1>9, CallerMoves

LEMMA UnansweredKeeps ==
  ASSUME TransportInv, NEW r \in RemoteRuns, Unanswered(r)
  PROVE  TransportInv'
<1>1. /\ flight' = [flight EXCEPT ![r] = Failed] /\ UNCHANGED <<box, proc, charge, tally>>
  BY DEF Unanswered
<1>2. /\ Only(flight, flight', r, Failed) /\ Only(proc, proc', r, proc[r])
      /\ Only(tally, tally', r, tally[r])
  BY <1>1, Domains, Excepted, Kept
<1>3. CallSound(r, Failed, box)
  BY DEF CallSound, InBox, Failed
<1> QED
  BY <1>1, <1>2, <1>3, Parts, BoxKept

\* An answer kept: its source never undoes a fixture, its usage is added.
LEMMA AcceptKeeps ==
  ASSUME TransportInv, NEW r \in RemoteRuns, Accept(r)
  PROVE  TransportInv'
<1> DEFINE held == Absorbed(proc[r], flight[r])
           count == [tally[r] EXCEPT !.owed = @ + flight[r].took,
                                     !.fixture = @ \/ flight[r].fell, !.answered = TRUE]
<1>1. PICK c \in {NoCall, Failed} : flight' = [flight EXCEPT ![r] = c]
  BY DEF Accept
<1>2. /\ flight[r].step = "answered" /\ proc' = [proc EXCEPT ![r] = held]
      /\ tally' = [tally EXCEPT ![r] = count] /\ UNCHANGED <<box, charge>>
  BY DEF Accept
<1>3. Only(flight, flight', r, c) /\ Only(proc, proc', r, held) /\ Only(tally, tally', r, count)
  BY <1>1, <1>2, Domains, Excepted
<1>4. CallSound(r, c, box)
  BY <1>1 DEF CallSound, InBox, NoCall, Failed
<1>5. /\ flight[r].took \in Nat /\ flight[r].fell \in BOOLEAN /\ flight[r].rows \in Nat
      /\ flight[r].blanks \in Nat /\ flight[r].source \in {"none", "model", "fixture"}
      /\ flight[r].took <= flight[r].rows
  BY <1>2, Parts DEF CallSound
<1>6. /\ proc[r] \in GlobalsType /\ tally[r] \in TallyType
      /\ tally[r].owed <= proc[r].rows
  BY Parts DEF HeldSound
<1>7. /\ held \in GlobalsType /\ held.rows = proc[r].rows + flight[r].rows
  <2>1. /\ _record(proc[r], flight[r].source) \in GlobalsType
        /\ _record(proc[r], flight[r].source).rows = proc[r].rows
    BY <1>5, <1>6 DEF _record, GlobalsType
  <2>2. /\ _record(proc[r], flight[r].source).rows + flight[r].rows \in Nat
        /\ _record(proc[r], flight[r].source).blanks + flight[r].blanks \in Nat
    BY <1>5, <2>1 DEF GlobalsType
  <2> HIDE DEF _record
  <2> QED
    BY <2>1, <2>2 DEF Absorbed, absorb_usage_payload, GlobalsType
<1>8. /\ count \in TallyType /\ count.owed = tally[r].owed + flight[r].took
      /\ count.billed = tally[r].billed
  <2>1. tally[r].owed + flight[r].took \in Nat
        /\ (tally[r].fixture \/ flight[r].fell) \in BOOLEAN
    BY <1>5, <1>6 DEF TallyType
  <2> QED
    BY <1>6, <2>1 DEF TallyType
<1> HIDE DEF held, count
<1>9. HeldSound(held, count)
  <2>1. tally[r].owed + flight[r].took <= proc[r].rows + flight[r].rows
    BY <1>5, <1>6, Parts
  <2> QED
    BY <1>7, <1>8, <2>1 DEF HeldSound
<1> QED
  BY <1>2, <1>3, <1>4, <1>8, <1>9, BoxKept

\* What a process leaves to the document: a stage's cost, or nothing.
LEMMA BillGrows ==
  ASSUME TransportInv, NEW r \in RemoteRuns
  PROVE  BillSound(
           tally[r].billed \o [i \in DOMAIN build_cost_record(proc[r]) |-> tally[r].owed],
           merge_cost_records(charge[r].cost, build_cost_record(proc[r])))
<1> DEFINE billed == tally[r].billed
           cost == charge[r].cost
           due == tally[r].owed
           stage == StageCost(proc[r])
<1>1. /\ billed \in Seq(Nat) /\ cost \in Seq(StageType) /\ Len(billed) = Len(cost)
      /\ \A i \in DOMAIN billed : billed[i] <= cost[i].rows
  BY Parts DEF BillSound
<1>2. due \in Nat /\ stage \in StageType /\ due <= stage.rows
  BY Parts DEF HeldSound, StageCost, StageType
<1> HIDE DEF billed, cost, due, stage
<1>3. BillSound(billed \o <<due>>, cost \o <<stage>>)
  <2>1. /\ billed \o <<due>> \in Seq(Nat) /\ cost \o <<stage>> \in Seq(StageType)
        /\ Len(billed \o <<due>>) = Len(billed) + 1
        /\ Len(cost \o <<stage>>) = Len(cost) + 1
    BY <1>1, <1>2
  <2>2. ASSUME NEW i \in DOMAIN (billed \o <<due>>)
        PROVE  (billed \o <<due>>)[i] <= (cost \o <<stage>>)[i].rows
    <3>1. CASE i \in DOMAIN billed
      <4>1. (billed \o <<due>>)[i] = billed[i] /\ (cost \o <<stage>>)[i] = cost[i]
        BY <1>1, <1>2, <3>1
      <4> QED
        BY <1>1, <3>1, <4>1
    <3>2. CASE i = Len(billed) + 1
      <4>1. (billed \o <<due>>)[i] = due /\ (cost \o <<stage>>)[i] = stage
        BY <1>1, <1>2, <3>2
      <4> QED
        BY <1>2, <4>1
    <3> QED
      BY <1>1, <2>1, <3>1, <3>2
  <2> QED
    BY <1>1, <2>1, <2>2 DEF BillSound
<1>4. BillSound(billed \o << >>, cost \o << >>)
  <2>1. billed \o << >> = billed /\ cost \o << >> = cost
    BY <1>1
  <2> QED
    BY <1>1, <2>1 DEF BillSound
<1>5. CASE build_cost_record(proc[r]) = << >>
  <2>1. [i \in DOMAIN build_cost_record(proc[r]) |-> due] = << >>
    BY <1>5
  <2> QED
    BY <1>4, <1>5, <2>1 DEF merge_cost_records, billed, cost, due
<1>6. CASE build_cost_record(proc[r]) = <<stage>>
  <2>1. [i \in DOMAIN build_cost_record(proc[r]) |-> due] = <<due>>
    BY <1>6
  <2> QED
    BY <1>3, <1>6, <2>1 DEF merge_cost_records, billed, cost, due
<1> QED
  BY <1>5, <1>6 DEF build_cost_record, stage

\* The count a process leaves to the next one of its run.
LEMMA Recounted ==
  ASSUME TransportInv, NEW r \in RemoteRuns, NEW more \in Seq(Nat), NEW bill,
         NewProcess(r, more), box' = box, Only(charge, charge', r, bill),
         BillSound(tally[r].billed \o more, bill.cost)
  PROVE  TransportInv'
<1> DEFINE count == [tally[r] EXCEPT !.fixture = FALSE, !.answered = FALSE, !.owed = 0,
                                     !.stages = @ + 1, !.billed = @ \o more]
<1>1. /\ proc' = [proc EXCEPT ![r] = NoGlobals] /\ tally' = [tally EXCEPT ![r] = count]
      /\ flight' = [flight EXCEPT ![r] = NoCall]
  BY DEF NewProcess
<1>2. /\ Only(flight, flight', r, NoCall) /\ Only(proc, proc', r, NoGlobals)
      /\ Only(tally, tally', r, count)
  BY <1>1, Domains, Excepted
<1>3. CallSound(r, NoCall, box')
  BY DEF CallSound, InBox, NoCall
<1>4. count \in TallyType /\ count.owed = 0 /\ count.billed = tally[r].billed \o more
  <2>1. /\ tally[r] \in TallyType /\ tally[r].stages + 1 \in Nat /\ 0 \in Nat
        /\ tally[r].billed \o more \in Seq(Nat)
    BY Parts DEF TallyType
  <2> QED
    BY <2>1 DEF TallyType
<1> HIDE DEF count
<1>5. NoGlobals \in GlobalsType /\ NoGlobals.rows = 0
  BY DEF NoGlobals, GlobalsType
<1>6. HeldSound(NoGlobals, count) /\ BillSound(count.billed, bill.cost)
  BY <1>4, <1>5 DEF HeldSound
<1>7. box' \in BoxType /\ box.globals.rows <= box'.globals.rows
      /\ box.serving \ {r} \subseteq box'.serving
  BY Parts
<1> QED
  BY <1>2, <1>3, <1>6, <1>7, CallerMoves

LEMMA ReportKeeps ==
  ASSUME TransportInv, NEW r \in RemoteRuns, Report(r)
  PROVE  TransportInv'
<1> DEFINE cost == merge_cost_records(charge[r].cost, build_cost_record(proc[r]))
           more == [i \in DOMAIN build_cost_record(proc[r]) |-> tally[r].owed]
<1>1. PICK usd, source :
        charge' = [charge EXCEPT ![r] = [cost |-> cost, usd |-> usd, source |-> source]]
  BY DEF Report
<1> DEFINE bill == [cost |-> cost, usd |-> usd, source |-> source]
<1>2. NewProcess(r, more) /\ box' = box
  BY DEF Report
<1>3. BillSound(tally[r].billed \o more, cost)
  BY BillGrows
<1>4. more \in Seq(Nat)
  <2>1. tally[r].owed \in Nat
    BY Parts
  <2>2. build_cost_record(proc[r]) = << >> \/ build_cost_record(proc[r]) = <<StageCost(proc[r])>>
    BY DEF build_cost_record
  <2>3. more = << >> \/ more = <<tally[r].owed>>
    BY <2>2
  <2> QED
    BY <2>1, <2>3
<1> HIDE DEF cost, more
<1>5. bill.cost = cost
  OBVIOUS
<1>6. Only(charge, charge', r, bill)
  BY <1>1, Domains, Excepted
<1> HIDE DEF bill
<1> QED
  BY <1>2, <1>3, <1>4, <1>5, <1>6, Recounted

LEMMA AbortKeeps ==
  ASSUME TransportInv, NEW r \in RemoteRuns, Abort(r)
  PROVE  TransportInv'
<1>1. NewProcess(r, << >>) /\ box' = box /\ charge' = charge /\ << >> \in Seq(Nat)
  BY DEF Abort
<1>2. Only(charge, charge', r, charge[r])
  BY <1>1, Domains, Kept
<1>3. BillSound(tally[r].billed, charge[r].cost)
  BY Parts
<1>4. tally[r].billed \o << >> = tally[r].billed
  BY <1>3 DEF BillSound
<1>5. BillSound(tally[r].billed \o << >>, charge[r].cost)
  BY <1>3, <1>4
<1> QED
  BY <1>1, <1>2, <1>5, Recounted

LEMMA ReplaceKeeps == TransportInv /\ Replace => TransportInv'
<1> SUFFICES ASSUME TransportInv, Replace PROVE TransportInv'
  OBVIOUS
<1>1. /\ box.serving = {} /\ box' = [box EXCEPT !.globals = NoGlobals]
      /\ UNCHANGED <<proc, flight, charge, tally>> /\ NoGlobals \in GlobalsType
  BY DEF Replace, NoGlobals, GlobalsType
<1>2. box' \in BoxType /\ box'.serving = {}
  BY <1>1 DEF TransportInv, BoxType
<1>3. ASSUME NEW r \in RemoteRuns PROVE CallSound(r, flight[r], box')
  BY <1>1, Parts DEF CallSound, InBox
<1> QED
  BY <1>1, <1>2, <1>3 DEF TransportInv

LEMMA TransportKeeps == TransportInv /\ [TransportNext]_transportVars => TransportInv'
<1> SUFFICES ASSUME TransportInv, [TransportNext]_transportVars PROVE TransportInv'
  OBVIOUS
<1>1. CASE UNCHANGED transportVars
  BY <1>1 DEF transportVars, TransportInv
<1> QED
  BY <1>1, InvokeKeeps, ReceiveKeeps, RunAgentKeeps, RespondKeeps, UnansweredKeeps,
     TimeOutKeeps, AcceptKeeps, ReportKeeps, AbortKeeps, ReplaceKeeps DEF TransportNext

LEMMA TransportAtInit == TransportInit => TransportInv
<1> SUFFICES ASSUME TransportInit PROVE TransportInv
  OBVIOUS
<1>1. /\ box.globals = NoGlobals /\ box.serving = {} /\ box \in BoxType
      /\ NoGlobals \in GlobalsType /\ NoGlobals.rows = 0
  BY DEF TransportInit, NoGlobals, GlobalsType, BoxType
<1>2. ASSUME NEW r \in RemoteRuns
      PROVE  /\ flight[r].step = "idle" /\ proc[r] = NoGlobals /\ tally[r] \in TallyType
             /\ tally[r].owed = 0 /\ tally[r].billed = << >> /\ charge[r].cost = << >>
  BY DEF TransportInit, NoCall, TallyType
<1>3. /\ DOMAIN flight = RemoteRuns /\ DOMAIN proc = RemoteRuns
      /\ DOMAIN tally = RemoteRuns /\ DOMAIN charge = RemoteRuns
  BY DEF TransportInit
<1>4. BillSound(<< >>, << >>)
  BY DEF BillSound
<1>5. ASSUME NEW r \in RemoteRuns
      PROVE  /\ CallSound(r, flight[r], box) /\ HeldSound(proc[r], tally[r])
             /\ BillSound(tally[r].billed, charge[r].cost)
  BY <1>1, <1>2, <1>4 DEF CallSound, InBox, HeldSound
<1> QED
  BY <1>1, <1>3, <1>5 DEF TransportInv

\* Every model call behind an answer a run received is in that run's document,
\* or still in the process that will write it, however many invocations a
\* container serves at a time and whether the answer was then accepted or refused.
THEOREM UsageIsNeverLost == TransportSpec => []NoUsageIsLost
<1>1. TransportInv => NoUsageIsLost
  BY DEF TransportInv, HeldSound, BillSound, NoUsageIsLost
<1> QED
  BY <1>1, TransportAtInit, TransportKeeps, PTL DEF TransportSpec

-----------------------------------------------------------------------------
(* The deployed run and its console. One job is at work at a time, and none  *)
(* after one that did not succeed; so the document ends once, and the row,   *)
(* which only ever copies it, tells no ending but that one.                  *)

JobStates ==
  {"none", "waiting", "running", "success", "failure", "skipped", "cancelled"}

ActionsTyped ==
  /\ job \in [JobsInOrder -> JobStates]
  /\ document \in Doc
  /\ indexed \in [status : {"none", "absent", "running"} \union ENDINGS, state : Doc]

InOrderOfNeeds == \A s \in JobsInOrder : job[s] # "none" => Succeeded(Before[s])

Broken == {"failure", "skipped"}

DocumentSound ==
  /\ document.status \in ENDINGS =>
       job["promote"] = "success" \/ \E s \in JobsInOrder : job[s] \in Broken
  /\ job["promote"] = "success" => document.status = "promoted"
  /\ document.status = "blocked" <=> document.security = "block"
  /\ document.security = "block" => job["develop"] = "failure"
  /\ document.status = "rejected" => \E g \in REQUIRED_GATES : job[g] \in Broken
  /\ document.status = "promoted" => job["promote"] \in {"success", "failure"}

\* A copy is of the document, or of one it grew out of.
RowSound ==
  /\ indexed.status \in ENDINGS => document.status = indexed.status
  /\ indexed.state.status \in ENDINGS => document.status = indexed.state.status
  /\ indexed.state.security = "block" => document.security = "block"
  /\ job["develop"] \in {"none", "running"} =>
       document.security = "none" /\ indexed.state.security = "none"

ActionsInv == ActionsTyped /\ InOrderOfNeeds /\ DocumentSound /\ RowSound

LEMMA Needs ==
  /\ JobsInOrder = {"plan", "gate1", "develop", "gate2", "sre", "gate3", "promote"}
  /\ REQUIRED_GATES \subseteq JobsInOrder
  /\ Before["plan"] = "" /\ Before["gate1"] = "plan" /\ Before["develop"] = "gate1"
  /\ Before["gate2"] = "develop" /\ Before["sre"] = "gate2" /\ Before["gate3"] = "sre"
  /\ Before["promote"] = "gate3"
BY DEF JobsInOrder, Before, REQUIRED_GATES

\* While a job is at work, or due, every job before it succeeded and none after
\* it began.
LEMMA OneAtWork ==
  ASSUME ActionsInv, NEW s \in JobsInOrder, Succeeded(Before[s]),
         job[s] \in {"none", "waiting", "running"}
  PROVE  /\ \A t \in JobsInOrder : t # s => job[t] \in {"none", "success"}
         /\ s # "promote" => job["promote"] # "success"
         /\ \A t \in JobsInOrder : job[t] \notin Broken
         /\ document.status \notin ENDINGS
<1>1. /\ job["gate1"] # "none" => job["plan"] = "success"
      /\ job["develop"] # "none" => job["gate1"] = "success"
      /\ job["gate2"] # "none" => job["develop"] = "success"
      /\ job["sre"] # "none" => job["gate2"] = "success"
      /\ job["gate3"] # "none" => job["sre"] = "success"
      /\ job["promote"] # "none" => job["gate3"] = "success"
  BY Needs DEF ActionsInv, InOrderOfNeeds, Succeeded
<1>2. /\ s = "gate1" => job["plan"] = "success"
      /\ s = "develop" => job["gate1"] = "success"
      /\ s = "gate2" => job["develop"] = "success"
      /\ s = "sre" => job["gate2"] = "success"
      /\ s = "gate3" => job["sre"] = "success"
      /\ s = "promote" => job["gate3"] = "success"
  BY Needs DEF Succeeded
<1>3. s \in {"plan", "gate1", "develop", "gate2", "sre", "gate3", "promote"}
  BY Needs
<1>4. \A t \in {"plan", "gate1", "develop", "gate2", "sre", "gate3", "promote"} :
        t # s => job[t] \in {"none", "success"}
  BY <1>1, <1>2, <1>3
<1>5. s # "promote" => job["promote"] # "success"
  BY <1>1, <1>2, <1>3
<1>6. \A t \in JobsInOrder : job[t] \notin Broken
  BY <1>4, Needs DEF Broken
<1>7. job["promote"] # "success"
  BY <1>5
<1> QED
  BY <1>4, <1>5, <1>6, <1>7, Needs DEF ActionsInv, DocumentSound

LEMMA AtWork ==
  ASSUME ActionsInv, NEW s \in JobsInOrder, job[s] \in {"waiting", "running"}
  PROVE  Succeeded(Before[s])
BY DEF ActionsInv, InOrderOfNeeds

\* A job moves on: it was due, or at work.
LEMMA OrderIsKept ==
  ASSUME ActionsInv, NEW s \in JobsInOrder, Succeeded(Before[s]),
         job[s] \in {"none", "waiting", "running"}, NEW status \in JobStates,
         Becomes(s, status)
  PROVE  /\ InOrderOfNeeds' /\ job' \in [JobsInOrder -> JobStates]
         /\ job'[s] = status /\ \A t \in JobsInOrder \ {s} : job'[t] = job[t]
<1>1. /\ job' \in [JobsInOrder -> JobStates]
      /\ job'[s] = status /\ \A t \in JobsInOrder \ {s} : job'[t] = job[t]
  BY DEF ActionsInv, ActionsTyped, Becomes
<1>2. \A t \in JobsInOrder : Before[t] = "" \/ Before[t] \in JobsInOrder
  BY Needs
<1>4. ASSUME NEW t \in JobsInOrder, job'[t] # "none" PROVE Succeeded(Before[t])'
  <2>1. Succeeded(Before[t])
    BY <1>1, <1>4 DEF ActionsInv, InOrderOfNeeds
  <2>2. CASE Before[t] = ""
    BY <2>2 DEF Succeeded
  <2>3. CASE Before[t] # ""
    <3>1. job[Before[t]] = "success" /\ Before[t] \in JobsInOrder
      BY <1>2, <2>1, <2>3 DEF Succeeded
    <3>2. Before[t] # s
      BY <3>1
    <3> QED
      BY <1>1, <2>3, <3>1, <3>2 DEF Succeeded
  <2> QED
    BY <2>2, <2>3
<1> QED
  BY <1>1, <1>4 DEF InOrderOfNeeds

\* A job moves on, and nothing is written.
LEMMA MovesKeep ==
  ASSUME ActionsInv, NEW s \in JobsInOrder, Succeeded(Before[s]),
         job[s] \in {"none", "waiting", "running"},
         s = "develop" => job[s] \in {"none", "running"},
         NEW status \in {"waiting", "running", "failure", "skipped"},
         Becomes(s, status), UNCHANGED <<document, indexed>>
  PROVE  ActionsInv'
<1>1. /\ document.status \notin ENDINGS /\ \A t \in JobsInOrder : job[t] \notin Broken
      /\ s # "promote" => job["promote"] # "success"
  BY OneAtWork
<1>2. /\ InOrderOfNeeds' /\ job' \in [JobsInOrder -> JobStates]
      /\ job'[s] = status /\ \A t \in JobsInOrder \ {s} : job'[t] = job[t]
  <2>1. status \in JobStates
    BY DEF JobStates
  <2> QED
    BY <2>1, OrderIsKept
<1>3. {"plan", "develop", "promote"} \subseteq JobsInOrder
  BY Needs
<1>4. ActionsTyped'
  BY <1>2 DEF ActionsInv, ActionsTyped
<1>5. document.security # "block"
  BY <1>1, <1>3 DEF ActionsInv, DocumentSound, Broken
<1>6. /\ document.status \notin {"rejected", "blocked", "promoted"}
      /\ job'["promote"] # "success"
  BY <1>1, <1>2, <1>3 DEF ENDINGS
<1>7. DocumentSound'
  BY <1>1, <1>5, <1>6 DEF DocumentSound
<1>8. job'["develop"] \in {"none", "running"} => job["develop"] \in {"none", "running"}
  BY <1>2, <1>3
<1>9. RowSound'
  BY <1>8 DEF ActionsInv, RowSound
<1> QED
  BY <1>2, <1>4, <1>7, <1>9 DEF ActionsInv

\* The row follows the document, or is left behind it.
LEMMA RowFollows ==
  ASSUME ActionsTyped, NEW doc \in Doc, update_status(doc)
  PROVE  /\ indexed' \in [status : {"none", "absent", "running"} \union ENDINGS, state : Doc]
         /\ \/ indexed' = indexed
            \/ indexed'.status = doc.status /\ indexed'.state \in {doc, indexed.state}
<1>1. CASE indexed' = indexed
  BY <1>1 DEF ActionsTyped
<1>2. ASSUME NEW json \in _state_json(doc), update_run_status(doc.status, json)
      PROVE  /\ indexed' = [status |-> doc.status, state |-> indexed'.state]
             /\ indexed'.state \in {doc, indexed.state}
  BY <1>2 DEF _state_json, update_run_status
<1>3. doc.status \in {"none", "absent", "running"} \union ENDINGS
  BY DEF Doc, ENDINGS
<1>4. indexed.state \in Doc
  BY DEF ActionsTyped
<1> QED
  BY <1>1, <1>2, <1>3, <1>4 DEF update_status

\* What a stage may leave, and how it may then exit.
Leaves(s, doc, ok) ==
  /\ doc \in Doc /\ doc.status # "rejected" /\ (doc.status = "promoted" => s = "promote")
  /\ ok /\ s = "promote" => doc.status = "promoted"
  /\ doc.status \in ENDINGS => ~ok \/ s = "promote"
  /\ doc.status = "blocked" <=> doc.security = "block"
  /\ doc.security = "block" => ~ok /\ s = "develop"
  /\ s # "develop" => doc.security \in {document.security, "none"}

LEMMA EmitsKeep ==
  ASSUME ActionsInv, NEW s \in JobsInOrder, job[s] = "running", NEW doc,
         NEW ok \in BOOLEAN, Leaves(s, doc, ok), Emits(s, doc, ok)
  PROVE  ActionsInv'
<1>1. Succeeded(Before[s])
  BY AtWork
<1>2. /\ document.status \notin ENDINGS /\ \A t \in JobsInOrder : job[t] \notin Broken
      /\ s # "promote" => job["promote"] # "success"
  BY <1>1, OneAtWork
<1>3. PICK status \in {"success", "failure"} :
        Becomes(s, status) /\ (status = "success" => ok)
  BY DEF Emits
<1>4. /\ InOrderOfNeeds' /\ job' \in [JobsInOrder -> JobStates]
      /\ job'[s] = status /\ \A t \in JobsInOrder \ {s} : job'[t] = job[t]
  <2>1. status \in JobStates
    BY DEF JobStates
  <2> QED
    BY <1>1, <1>3, <2>1, OrderIsKept
<1>5. {"plan", "develop", "promote"} \subseteq JobsInOrder
  BY Needs
<1>6. document' = doc /\ doc \in Doc /\ update_status(doc)
  BY DEF Emits, Leaves
<1>7. /\ indexed' \in [status : {"none", "absent", "running"} \union ENDINGS, state : Doc]
      /\ \/ indexed' = indexed
         \/ indexed'.status = doc.status /\ indexed'.state \in {doc, indexed.state}
  BY <1>6, RowFollows DEF ActionsInv
<1>8. ActionsTyped'
  BY <1>4, <1>6, <1>7 DEF ActionsTyped
<1>9. document.security # "block" /\ indexed.state.security # "block"
  BY <1>2, <1>5 DEF ActionsInv, DocumentSound, RowSound, Broken
<1>10. indexed.status \notin ENDINGS /\ indexed.state.status \notin ENDINGS
  BY <1>2 DEF ActionsInv, RowSound
<1>11. DocumentSound'
  <2>1. ~ok \/ status = "failure" => job'[s] \in Broken
    BY <1>3, <1>4 DEF Broken
  <2>2. job'["promote"] = "success" => s = "promote" /\ ok
    BY <1>2, <1>3, <1>4, <1>5
  <2>3. doc.status \in ENDINGS =>
          job'["promote"] = "success" \/ \E t \in JobsInOrder : job'[t] \in Broken
    BY <1>3, <1>4, <2>1 DEF Leaves
  <2>4. doc.security = "block" => job'["develop"] = "failure"
    BY <1>3, <1>4 DEF Leaves
  <2>5. doc.status = "promoted" => job'["promote"] \in {"success", "failure"}
    BY <1>3, <1>4 DEF Leaves
  <2> QED
    BY <1>6, <2>2, <2>3, <2>4, <2>5 DEF DocumentSound, Leaves
<1>12. RowSound'
  <2>1. job'["develop"] \in {"none", "running"} =>
          s # "develop" /\ job["develop"] \in {"none", "running"}
    BY <1>4, <1>5
  <2>2. job'["develop"] \in {"none", "running"} =>
          doc.security = "none" /\ indexed.state.security = "none"
    BY <2>1 DEF ActionsInv, RowSound, Leaves
  <2> QED
    BY <1>6, <1>7, <1>9, <1>10, <2>2 DEF RowSound
<1> QED
  BY <1>4, <1>8, <1>11, <1>12 DEF ActionsInv

LEMMA StagesKeep ==
  ASSUME ActionsInv, PlanJob \/ DevelopJob \/ SreJob \/ PromoteJob
  PROVE  ActionsInv'
<1>1. {"plan", "develop", "sre", "promote"} \subseteq JobsInOrder
  BY Needs
<1>2. \A s \in JobsInOrder : job[s] = "running" =>
        document.status \notin ENDINGS /\ job["develop"] \notin Broken
  BY <1>1, AtWork, OneAtWork
<1>3. document \in Doc
  BY DEF ActionsInv, ActionsTyped
<1>4. CASE PlanJob
  <2>1. Leaves("plan", Planned, TRUE)
    BY DEF Leaves, Planned, Absent, Doc, ENDINGS
  <2> QED
    BY <1>1, <1>4, <2>1, EmitsKeep DEF PlanJob
<1>5. CASE DevelopJob
  <2>1. PICK end \in DevelopOutcomes :
          Emits("develop", Developed(document, end), end = "cleared")
    BY <1>5 DEF DevelopJob
  <2>2. job["develop"] = "running"
    BY <1>5 DEF DevelopJob
  <2>3. Leaves("develop", Developed(document, end), end = "cleared")
    BY <1>1, <1>2, <1>3, <2>2 DEF Leaves, Developed, DevelopOutcomes, Doc, ENDINGS
  <2> QED
    BY <1>1, <2>1, <2>2, <2>3, EmitsKeep
<1>6. CASE SreJob
  <2>1. PICK verdict \in {"go", "no_go"} :
          Emits("sre", Checked(document, verdict), verdict = "go")
    BY <1>6 DEF SreJob
  <2>2. job["sre"] = "running"
    BY <1>6 DEF SreJob
  <2>3. document.status \notin ENDINGS /\ document.security # "block"
    BY <1>1, <1>2, <2>2 DEF ActionsInv, DocumentSound, Broken
  <2>4. Leaves("sre", Checked(document, verdict), verdict = "go")
    BY <1>3, <2>3 DEF Leaves, Checked, Doc, ENDINGS
  <2> QED
    BY <1>1, <2>1, <2>2, <2>4, EmitsKeep
<1>7. CASE PromoteJob
  <2> DEFINE doc == IF document.status \in ENDINGS THEN document
                    ELSE [document EXCEPT !.status =
                            IF not_promotable(document) THEN "failed" ELSE "promoted"]
  <2>1. job["promote"] = "running" /\ Emits("promote", doc, ~not_promotable(document))
    BY <1>7 DEF PromoteJob
  <2>2. document.status \notin ENDINGS /\ document.security # "block"
    BY <1>1, <1>2, <2>1 DEF ActionsInv, DocumentSound, Broken
  <2>3. Leaves("promote", doc, ~not_promotable(document))
    BY <1>3, <2>2 DEF Leaves, Doc, ENDINGS
  <2> HIDE DEF doc
  <2> QED
    BY <1>1, <2>1, <2>3, EmitsKeep
<1> QED
  BY <1>4, <1>5, <1>6, <1>7

LEMMA GatesKeep ==
  ASSUME ActionsInv, NEW g \in REQUIRED_GATES,
         GateJob(g) \/ Recorder(g) \/ ReviewAtGitHub(g) \/ ApproveRun(g)
  PROVE  ActionsInv'
<1>1. g \in JobsInOrder /\ g \notin {"plan", "develop", "sre", "promote"}
  BY Needs DEF REQUIRED_GATES
<1>2. \A d \in {"approved", "rejected"} :
        /\ Resumed(document, g, d) \in Doc
        /\ Resumed(document, g, d).security = document.security
        /\ Resumed(document, g, d).status =
             IF d = "rejected" THEN "rejected" ELSE document.status
  <2>1. document \in Doc
    BY DEF ActionsInv, ActionsTyped
  <2>2. ASSUME NEW d \in {"approved", "rejected"}
        PROVE  document.decisions \union {[gate |-> g, decision |-> d]} \in SUBSET Decisions
    BY <2>1 DEF Doc, Decisions
  <2> QED
    BY <2>1, <2>2 DEF Resumed, Doc
<1>3. CASE GateJob(g)
  <2>1. job[g] = "running" /\ Becomes(g, "success") /\ UNCHANGED indexed
        /\ document' = Resumed(document, g, "approved")
    BY <1>3 DEF GateJob
  <2>2. Succeeded(Before[g])
    BY <1>1, <2>1, AtWork
  <2>3. /\ document.status \notin ENDINGS
        /\ \A t \in JobsInOrder : job[t] \notin Broken /\ job["promote"] # "success"
    BY <1>1, <2>1, <2>2, OneAtWork
  <2>4. /\ InOrderOfNeeds' /\ job' \in [JobsInOrder -> JobStates]
        /\ job'[g] = "success" /\ \A t \in JobsInOrder \ {g} : job'[t] = job[t]
    <3>1. "success" \in JobStates
      BY DEF JobStates
    <3> QED
      BY <1>1, <2>1, <2>2, <3>1, OrderIsKept
  <2>5. document' \in Doc /\ document'.security = document.security
        /\ document'.status = document.status
    BY <1>2, <2>1
  <2>6. job'["promote"] = job["promote"] /\ job'["develop"] = job["develop"]
        /\ "develop" \in JobsInOrder
    BY <1>1, <2>4, Needs
  <2>7. ActionsTyped'
    BY <2>1, <2>4, <2>5 DEF ActionsInv, ActionsTyped
  <2>8. document.status \notin {"rejected", "promoted"}
    BY <2>3 DEF ENDINGS
  <2>9. DocumentSound'
    BY <1>1, <2>3, <2>5, <2>6, <2>8 DEF ActionsInv, DocumentSound
  <2>10. RowSound'
    BY <2>1, <2>5, <2>6 DEF ActionsInv, RowSound
  <2> QED
    BY <2>4, <2>7, <2>9, <2>10 DEF ActionsInv
<1>4. CASE Recorder(g)
  <2>1. /\ job[g] \in Broken /\ UNCHANGED <<job, indexed>>
        /\ document' = IF document.status \in ENDINGS THEN document
                       ELSE Resumed(document, g, "rejected")
    BY <1>4 DEF Recorder, RecorderDue, Broken
  <2>2. CASE document.status \in ENDINGS
    BY <2>1, <2>2 DEF ActionsInv, ActionsTyped, InOrderOfNeeds, Succeeded, DocumentSound,
                      RowSound
  <2>3. CASE document.status \notin ENDINGS
    <3>1. document' \in Doc /\ document'.security = document.security
          /\ document'.status = "rejected"
      BY <1>2, <2>1, <2>3
    <3>2. job["promote"] # "success" /\ document.security # "block"
      BY <2>3 DEF ActionsInv, DocumentSound, ENDINGS
    <3>3. ActionsTyped' /\ InOrderOfNeeds'
      BY <2>1, <3>1 DEF ActionsInv, ActionsTyped, InOrderOfNeeds, Succeeded
    <3>4. DocumentSound'
      BY <1>1, <2>1, <3>1, <3>2 DEF DocumentSound
    <3>5. RowSound'
      BY <2>1, <2>3, <3>1 DEF ActionsInv, RowSound
    <3> QED
      BY <3>3, <3>4, <3>5 DEF ActionsInv
  <2> QED
    BY <2>2, <2>3
<1>5. CASE ReviewAtGitHub(g) \/ ApproveRun(g)
  <2>1. /\ job[g] = "waiting" /\ UNCHANGED <<document, indexed>>
        /\ \E status \in {"running", "skipped", "failure"} : Becomes(g, status)
    BY <1>5 DEF ReviewAtGitHub, ApproveRun
  <2>2. Succeeded(Before[g])
    BY <1>1, <2>1, AtWork
  <2> QED
    BY <1>1, <2>1, <2>2, MovesKeep
<1> QED
  BY <1>3, <1>4, <1>5

LEMMA JobsKeep ==
  ASSUME ActionsInv, NEW s \in JobsInOrder, StartJob(s) \/ JobDies(s)
  PROVE  ActionsInv'
<1>1. CASE JobDies(s)
  <2>1. job[s] = "running" /\ Becomes(s, "failure") /\ UNCHANGED <<document, indexed>>
    BY <1>1 DEF JobDies
  <2> QED
    BY <2>1, AtWork, MovesKeep
<1>2. CASE StartJob(s)
  <2>1. PICK status \in {"waiting", "running"} : Becomes(s, status)
    BY <1>2 DEF StartJob
  <2>2. job[s] = "none" /\ Succeeded(Before[s]) /\ document' = document
    BY <1>2 DEF StartJob
  <2>3. CASE s # "plan"
    BY <1>2, <2>1, <2>2, <2>3, MovesKeep DEF StartJob
  <2>4. CASE s = "plan"
    <3>1. indexed' \in {NoIndexRow, [status |-> "running", state |-> Started],
                        [status |-> "running", state |-> Absent]}
      BY <1>2, <2>4 DEF StartJob, record_run
    <3>2. /\ indexed' \in [status : {"none", "absent", "running"} \union ENDINGS,
                            state : Doc]
          /\ indexed'.status \notin ENDINGS /\ indexed'.state.status \notin ENDINGS
          /\ indexed'.state.security = "none"
      <4>1. Absent \in Doc /\ Absent.status = "absent" /\ Absent.security = "none"
        BY DEF Absent, Doc
      <4>2. Started \in Doc /\ Started.status = "running" /\ Started.security = "none"
        BY <4>1 DEF Started, Doc
      <4> QED
        BY <3>1, <4>1, <4>2 DEF NoIndexRow, ENDINGS
    <3>3. /\ document.status \notin ENDINGS /\ job["promote"] # "success"
          /\ \A t \in JobsInOrder : job[t] \notin Broken
      BY <2>2, <2>4, OneAtWork
    <3>4. /\ InOrderOfNeeds' /\ job' \in [JobsInOrder -> JobStates]
          /\ \A t \in JobsInOrder \ {s} : job'[t] = job[t]
      <4>1. status \in JobStates
        BY DEF JobStates
      <4> QED
        BY <2>1, <2>2, <4>1, OrderIsKept
    <3>5. job'["promote"] = job["promote"] /\ job'["develop"] = job["develop"]
          /\ "develop" \in JobsInOrder
      BY <2>4, <3>4, Needs
    <3>6. document.security # "block" /\ document.status \notin {"rejected", "promoted"}
      BY <3>3, <3>5 DEF ActionsInv, DocumentSound, Broken, ENDINGS
    <3>7. ActionsTyped'
      BY <2>2, <3>2, <3>4 DEF ActionsInv, ActionsTyped
    <3>8. DocumentSound'
      BY <2>2, <3>3, <3>5, <3>6 DEF ActionsInv, DocumentSound
    <3>9. RowSound'
      BY <2>2, <3>2, <3>5 DEF ActionsInv, RowSound
    <3> QED
      BY <3>4, <3>7, <3>8, <3>9 DEF ActionsInv
  <2> QED
    BY <2>3, <2>4
<1> QED
  BY <1>1, <1>2

LEMMA CancelKeeps == ActionsInv /\ CancelRun => ActionsInv'
<1> SUFFICES ASSUME ActionsInv, CancelRun PROVE ActionsInv'
  OBVIOUS
<1>1. /\ job' \in [JobsInOrder -> JobStates] /\ UNCHANGED <<document, indexed>>
      /\ \A t \in JobsInOrder :
           job'[t] = IF job[t] \in {"waiting", "running"} THEN "cancelled" ELSE job[t]
  BY DEF CancelRun, ActionsInv, ActionsTyped, JobStates
<1>2. {"plan", "develop", "promote"} \subseteq JobsInOrder
      /\ \A t \in JobsInOrder : Before[t] = "" \/ Before[t] \in JobsInOrder
  BY Needs
<1>3. InOrderOfNeeds'
  BY <1>1, <1>2 DEF ActionsInv, InOrderOfNeeds, Succeeded
<1>4. \A t \in JobsInOrder : job[t] \in Broken \union {"success"} => job'[t] = job[t]
  BY <1>1 DEF Broken
<1>5. \A t \in JobsInOrder : job'[t] \in {"success", "none", "running"} => job'[t] = job[t]
  BY <1>1
<1>6. ActionsTyped'
  BY <1>1 DEF ActionsInv, ActionsTyped
<1>7. DocumentSound'
  <2>1. \A t \in JobsInOrder : job[t] \in Broken => job'[t] \in Broken
    BY <1>4
  <2>2. job["promote"] = "success" <=> job'["promote"] = "success"
    BY <1>2, <1>4, <1>5
  <2>3. job["develop"] = "failure" => job'["develop"] = "failure"
    BY <1>2, <1>4 DEF Broken
  <2>4. REQUIRED_GATES \subseteq JobsInOrder
    BY Needs
  <2>5. job["promote"] = "failure" => job'["promote"] = "failure"
    BY <1>2, <1>4 DEF Broken
  <2> QED
    BY <1>1, <2>1, <2>2, <2>3, <2>4, <2>5 DEF ActionsInv, DocumentSound
<1>8. RowSound'
  BY <1>1, <1>2, <1>5 DEF ActionsInv, RowSound
<1> QED
  BY <1>3, <1>6, <1>7, <1>8 DEF ActionsInv

\* What the row tells of an ending is the document's own.
LEMMA ConsoleFollows == ActionsInv => ConsoleShowsTheEnding
<1> SUFFICES ASSUME ActionsInv, NEW lively \in BOOLEAN
             PROVE  LET s == reconcileStatus(lively) IN
                    /\ s \in ENDINGS => document.status \in ENDINGS \/ Completed
                    /\ s = "promoted" => document.status = "promoted"
                    /\ s = "blocked" => document.security = "block"
                    /\ s = "rejected" =>
                         \E g \in REQUIRED_GATES : job[g] \in {"skipped", "failure"}
                    /\ s = "failed" =>
                         /\ document.status # "rejected"
                         /\ indexed.state.security # "block"
                         /\ document.status = "promoted" => job["promote"] = "failure"
                    /\ lively /\ Completed => s # "running"
  BY DEF ConsoleShowsTheEnding
<1>1. StoredStatus \in ENDINGS => document.status = StoredStatus
  BY DEF ActionsInv, RowSound, StoredStatus
<1>2. ASSUME NEW g \in REQUIRED_GATES, isRefusedGate(g), Completed
      PROVE  job[g] \in Broken
  <2>1. g \in JobsInOrder /\ g # "promote"
    BY Needs DEF REQUIRED_GATES
  <2>2. Succeeded(Before[g]) /\ job[g] \notin {"waiting", "running", "success", "cancelled"}
    BY <1>2 DEF isRefusedGate, Conclusion
  <2>3. job[g] # "none"
    <3> SUFFICES ASSUME job[g] = "none" PROVE FALSE
      OBVIOUS
    <3>1. /\ \A t \in JobsInOrder : t # g => job[t] \in {"none", "success"}
          /\ job["promote"] # "success"
      BY <2>1, <2>2, OneAtWork
    <3> QED
      BY <1>2, <3>1 DEF Completed
  <2> QED
    BY <2>1, <2>2, <2>3 DEF ActionsInv, ActionsTyped, JobStates, Broken
<1>3. CASE StoredStatus \in ENDINGS
  <2>1. reconcileStatus(lively) = StoredStatus /\ "running" \notin ENDINGS
    BY <1>3 DEF reconcileStatus, ENDINGS
  <2>2. document.status = "failed" => indexed.state.security # "block"
    BY DEF ActionsInv, DocumentSound, RowSound
  <2>3. document.status = "rejected" =>
          \E g \in REQUIRED_GATES : job[g] \in {"skipped", "failure"}
    BY DEF ActionsInv, DocumentSound, Broken
  <2>4. document.status = "blocked" => document.security = "block"
    BY DEF ActionsInv, DocumentSound
  <2> QED
    BY <1>1, <1>3, <2>1, <2>2, <2>3, <2>4
<1>4. CASE StoredStatus \notin ENDINGS /\ (~lively \/ ~Completed)
  <2>1. reconcileStatus(lively) = "running" /\ "running" \notin ENDINGS
    BY <1>4 DEF reconcileStatus, ENDINGS
  <2> QED
    BY <1>4, <2>1
<1>5. CASE StoredStatus \notin ENDINGS /\ lively /\ Completed
  <2> DEFINE s == reconcileStatus(lively)
  <2>1. s = IF job["promote"] = "success" THEN "promoted"
            ELSE IF \E g \in REQUIRED_GATES : isRefusedGate(g) THEN "rejected"
            ELSE IF job["develop"] = "failure" /\ indexed.state.security = "block"
                 THEN "blocked"
            ELSE "failed"
    BY <1>5 DEF reconcileStatus
  <2> HIDE DEF s
  <2>2. s = "promoted" => document.status = "promoted"
    BY <2>1 DEF ActionsInv, DocumentSound
  <2>3. s = "blocked" => document.security = "block"
    BY <2>1 DEF ActionsInv, RowSound
  <2>4. s = "rejected" => \E g \in REQUIRED_GATES : job[g] \in Broken
    BY <1>2, <1>5, <2>1
  <2>5. s = "failed" => indexed.state.security # "block"
    BY <2>1 DEF ActionsInv, DocumentSound, RowSound
  <2>6. s # "running"
    BY <2>1
  <2>7. ASSUME s = "failed" PROVE document.status # "rejected"
    <3>1. ASSUME NEW g \in REQUIRED_GATES, job[g] \in Broken PROVE isRefusedGate(g)
      <4>1. job[g] \in {"failure", "skipped"} /\ g \in JobsInOrder
        BY <3>1, Needs DEF Broken
      <4>2. Succeeded(Before[g])
        BY <4>1 DEF ActionsInv, InOrderOfNeeds
      <4> QED
        BY <4>1, <4>2 DEF isRefusedGate, Conclusion
    <3>2. ~ \E g \in REQUIRED_GATES : isRefusedGate(g)
      BY <2>1, <2>7
    <3> QED
      BY <3>1, <3>2 DEF ActionsInv, DocumentSound
  <2>8. s = "failed" /\ document.status = "promoted" => job["promote"] = "failure"
    BY <2>1 DEF ActionsInv, DocumentSound
  <2> QED
    BY <1>5, <2>2, <2>3, <2>4, <2>5, <2>6, <2>7, <2>8 DEF s, Broken
<1> QED
  BY <1>3, <1>4, <1>5

\* Whatever writes of the index row were lost or cut, and with GitHub reachable or
\* not, the console shows an ending only of a run that is over, and promoted,
\* blocked and rejected only of a run that is; "failed" never stands for a recorded
\* rejection, nor for a block the row heard of, and for a promotion only where the
\* promote job itself failed.
THEOREM ConsoleAlwaysShowsTheEnding == ActionsSpec => []ConsoleShowsTheEnding
<1>1. ActionsInit => ActionsInv
  <2> SUFFICES ASSUME ActionsInit PROVE ActionsInv
    OBVIOUS
  <2>1. \A s \in JobsInOrder : job[s] = "none"
    BY DEF ActionsInit
  <2>2. {"develop", "promote"} \subseteq JobsInOrder
    BY Needs
  <2>3. ActionsTyped
    BY DEF ActionsInit, ActionsTyped, JobStates, NoIndexRow, Absent, Doc
  <2>4. DocumentSound /\ RowSound
    BY <2>1, <2>2 DEF ActionsInit, DocumentSound, RowSound, NoIndexRow, Absent, ENDINGS
  <2> QED
    BY <2>1, <2>3, <2>4 DEF ActionsInv, InOrderOfNeeds
<1>2. ActionsInv /\ [ActionsNext]_actionsVars => ActionsInv'
  <2> SUFFICES ASSUME ActionsInv, [ActionsNext]_actionsVars PROVE ActionsInv'
    OBVIOUS
  <2>1. CASE UNCHANGED actionsVars
    BY <2>1 DEF actionsVars, ActionsInv, ActionsTyped, InOrderOfNeeds, Succeeded,
                DocumentSound, RowSound
  <2> QED
    BY <2>1, JobsKeep, StagesKeep, GatesKeep, CancelKeeps DEF ActionsNext
<1> QED
  BY <1>1, <1>2, ConsoleFollows, PTL DEF ActionsSpec

-----------------------------------------------------------------------------
(* The reader of diffs. What the docstrings say of the whole text is said    *)
(* here of the lines read so far: the last header's body is still being      *)
(* gathered, and every other header's is where its path is stored, unless a  *)
(* later one took it over.                                                   *)

IsHeader(line) == line.kind \in {"header", "absent", "unreadable"}

\* Line i of the text f stands under line h, or under none.
Under(f, i, h) ==
  /\ h \in 0 .. i - 1
  /\ h > 0 => IsHeader(f[h])
  /\ \A k \in h + 1 .. i - 1 : ~IsHeader(f[k])

\* A run of unmarked lines under h is still open after line n.
OpenRun(f, h, n) ==
  \E k \in h + 1 .. n : f[k].kind = "unmarked" /\ \A j \in k + 1 .. n : f[j].kind # "hunk"

Gathered(f, h, i) ==
  \/ f[i].kind \in {"added", "unmarked"}
  \/ f[i].kind = "indented" /\ OpenRun(f, h, i - 1)

AddedTo(f, h) == {i \in h + 1 .. Len(f) : Under(f, i, h) /\ Gathered(f, h, i)}

Naming(f) == {h \in 1 .. Len(f) : f[h].kind = "header"}

\* The text read so far, whose last header is at last.
Standing(f, last) ==
  /\ f \in Seq(Lines) /\ last \in 0 .. Len(f)
  /\ Under(f, Len(f) + 1, last)

Placed(f) == \A i \in 1 .. Len(f) : \E h \in 0 .. Len(f) : Under(f, i, h)

BodySound(f, last, path, b, run) ==
  /\ b \in Seq(Nat) /\ run \in BOOLEAN
  /\ path = IF last = 0 THEN NoPath ELSE f[last].path
  /\ path # NoPath => InOrder(AddedTo(f, last), b) /\ (run <=> OpenRun(f, last, Len(f)))

\* Every header but one has its body stored, or lost it to a later one.
FilesSound(f, fs, but) ==
  /\ DOMAIN fs = {f[h].path : h \in Naming(f) \ {but}}
  /\ \A h \in Naming(f) \ {but} :
       (\A k \in (Naming(f) \ {but}) \intersect (h + 1 .. Len(f)) : f[k].path # f[h].path)
         => InOrder(AddedTo(f, h), fs[f[h].path])

RemovedSound(f, lines) ==
  \A x : x \in lines <=>
    \E i, h \in 1 .. Len(f) : /\ Under(f, i, h) /\ f[i].kind = "removed"
                              /\ f[h].kind = "header" /\ x = <<f[h].path, i>>

DiffInv ==
  /\ fed \in Seq(Lines) /\ Placed(fed) /\ RemovedSound(fed, removed)
  /\ recognised <=> \E h \in 1 .. Len(fed) : fed[h].kind \in {"header", "absent"}
  /\ outcome = "reading" =>
       \E last \in 0 .. Len(fed) :
         /\ Standing(fed, last) /\ BodySound(fed, last, current, body, in_run)
         /\ FilesSound(fed, files, last)
  /\ outcome = "written" =>
       /\ FilesSound(fed, files, 0) /\ DOMAIN files \intersect OutsidePaths = {}
       /\ recognised \/ \A i \in 1 .. Len(fed) : fed[i].kind = "blank"

LEMMA LineKinds ==
  ASSUME NEW line \in Lines
  PROVE  /\ line \in Headers <=> IsHeader(line)
         /\ line.kind = "header" => line.path \in Paths /\ line.path # NoPath
         /\ line.kind # "header" => line.path = NoPath
BY NoPathAssumption DEF Lines, Headers, IsHeader

LEMMA OneHeader ==
  ASSUME NEW f \in Seq(Lines), NEW i \in 1 .. Len(f) + 1, NEW h, NEW k,
         Under(f, i, h), Under(f, i, k)
  PROVE  h = k
BY DEF Under

\* A line more: what was known of the lines before stays.
LEMMA Longer ==
  ASSUME NEW f \in Seq(Lines), NEW line \in Lines, NEW g, g = Append(f, line)
  PROVE  /\ g \in Seq(Lines) /\ Len(g) = Len(f) + 1 /\ g[Len(f) + 1] = line
         /\ \A i \in 1 .. Len(f) : g[i] = f[i]
         /\ \A i \in 1 .. Len(f) + 1, h \in 0 .. Len(f) : Under(g, i, h) <=> Under(f, i, h)
         /\ \A n \in 0 .. Len(f), h \in 0 .. Len(f) : OpenRun(g, h, n) <=> OpenRun(f, h, n)
         /\ \A i \in 1 .. Len(f), h \in 0 .. Len(f) : Gathered(g, h, i) <=> Gathered(f, h, i)
<1>1. /\ g \in Seq(Lines) /\ Len(g) = Len(f) + 1 /\ g[Len(f) + 1] = line
      /\ \A i \in 1 .. Len(f) : g[i] = f[i]
  OBVIOUS
<1>2. Len(f) \in Nat
  OBVIOUS
<1>3. ASSUME NEW i \in 1 .. Len(f) + 1, NEW h \in 0 .. Len(f)
      PROVE  Under(g, i, h) <=> Under(f, i, h)
  <2>1. h \in 0 .. i - 1 /\ h > 0 => g[h] = f[h]
    BY <1>1, <1>2
  <2>2. \A k \in h + 1 .. i - 1 : g[k] = f[k]
    BY <1>1, <1>2
  <2> QED
    BY <2>1, <2>2 DEF Under
<1>4. ASSUME NEW n \in 0 .. Len(f), NEW h \in 0 .. Len(f)
      PROVE  OpenRun(g, h, n) <=> OpenRun(f, h, n)
  <2>1. \A k \in h + 1 .. n : g[k] = f[k] /\ \A j \in k + 1 .. n : g[j] = f[j]
    BY <1>1, <1>2
  <2> QED
    BY <2>1 DEF OpenRun
<1>5. ASSUME NEW i \in 1 .. Len(f), NEW h \in 0 .. Len(f)
      PROVE  Gathered(g, h, i) <=> Gathered(f, h, i)
  <2>1. i - 1 \in 0 .. Len(f) /\ g[i] = f[i]
    BY <1>1, <1>2
  <2> QED
    BY <1>4, <2>1 DEF Gathered
<1> QED
  BY <1>1, <1>3, <1>4, <1>5

LEMMA OneMore ==
  ASSUME NEW n \in Nat, NEW set, \A i \in set : i \in 1 .. n, NEW b \in Seq(Nat),
         InOrder(set, b)
  PROVE  InOrder(set \union {n + 1}, Append(b, n + 1)) /\ Append(b, n + 1) \in Seq(Nat)
<1> DEFINE c == Append(b, n + 1)
<1>1. /\ c \in Seq(Nat) /\ Len(c) = Len(b) + 1 /\ c[Len(b) + 1] = n + 1
      /\ \A m \in 1 .. Len(b) : c[m] = b[m]
  OBVIOUS
<1>2. Len(b) \in Nat /\ \A m \in 1 .. Len(c) : m \in 1 .. Len(b) \/ m = Len(b) + 1
  BY <1>1
<1> HIDE DEF c
<1>3. \A m \in 1 .. Len(c) : c[m] \in set \union {n + 1}
  BY <1>1, <1>2 DEF InOrder
<1>4. \A i \in set \union {n + 1} : \E m \in 1 .. Len(c) : c[m] = i
  <2>1. \A i \in set : \E m \in 1 .. Len(b) : c[m] = i
    BY <1>1 DEF InOrder
  <2>2. 1 .. Len(b) \subseteq 1 .. Len(c) /\ Len(b) + 1 \in 1 .. Len(c)
    BY <1>1, <1>2
  <2> QED
    BY <1>1, <2>1, <2>2
<1>5. \A l, m \in 1 .. Len(c) : l < m => c[l] < c[m]
  <2> SUFFICES ASSUME NEW l \in 1 .. Len(c), NEW m \in 1 .. Len(c), l < m
               PROVE  c[l] < c[m]
    OBVIOUS
  <2>1. l \in 1 .. Len(b)
    BY <1>1, <1>2
  <2>2. c[l] \in set /\ c[l] = b[l] /\ c[l] \in 1 .. n
    BY <1>1, <2>1 DEF InOrder
  <2>3. CASE m \in 1 .. Len(b)
    BY <1>1, <2>1, <2>2, <2>3 DEF InOrder
  <2>4. CASE m = Len(b) + 1
    BY <1>1, <2>2, <2>4
  <2> QED
    BY <1>2, <2>3, <2>4
<1> QED
  BY <1>1, <1>3, <1>4, <1>5 DEF InOrder, c

LEMMA NamingGrows ==
  ASSUME NEW f \in Seq(Lines), NEW line \in Lines, NEW g, g = Append(f, line)
  PROVE  /\ line.kind = "header" => Naming(g) = Naming(f) \union {Len(f) + 1}
         /\ line.kind # "header" => Naming(g) = Naming(f)
         /\ \A h \in Naming(f) : h \in 1 .. Len(f) /\ g[h] = f[h]
<1>1. /\ Len(f) \in Nat /\ Len(g) = Len(f) + 1 /\ g[Len(f) + 1] = line
      /\ \A i \in 1 .. Len(f) : g[i] = f[i]
  OBVIOUS
<1>2. \A i : i \in 1 .. Len(g) <=> i \in 1 .. Len(f) \/ i = Len(f) + 1
  BY <1>1
<1>3. Len(f) + 1 \notin 1 .. Len(f)
  BY <1>1
<1> QED
  BY <1>1, <1>2, <1>3 DEF Naming

\* All that the proofs below need of a line more.
Grown(f, line, last, g) ==
  /\ g \in Seq(Lines) /\ Len(g) = Len(f) + 1 /\ g[Len(f) + 1] = line
  /\ \A i \in 1 .. Len(f) : g[i] = f[i]
  /\ \A i \in 1 .. Len(f) + 1, h \in 0 .. Len(f) : Under(g, i, h) <=> Under(f, i, h)
  /\ \A n \in 0 .. Len(f), h \in 0 .. Len(f) : OpenRun(g, h, n) <=> OpenRun(f, h, n)
  /\ \A h \in 0 .. Len(f) :
       h # last \/ ~Gathered(g, last, Len(f) + 1) => AddedTo(g, h) = AddedTo(f, h)
  /\ Gathered(g, last, Len(f) + 1) => AddedTo(g, last) = AddedTo(f, last) \union {Len(f) + 1}
  /\ line.kind = "header" => Naming(g) = Naming(f) \union {Len(f) + 1}
  /\ line.kind # "header" => Naming(g) = Naming(f)

LEMMA Grows ==
  ASSUME NEW f, NEW last, Standing(f, last), NEW line \in Lines
  PROVE  Grown(f, line, last, Append(f, line))
<1>0. f \in Seq(Lines) /\ last \in 0 .. Len(f) /\ Under(f, Len(f) + 1, last)
  BY DEF Standing
<1> DEFINE g == Append(f, line)
<1>1. g = Append(f, line)
  OBVIOUS
<1> HIDE DEF g
<1>2. /\ g \in Seq(Lines) /\ Len(g) = Len(f) + 1 /\ g[Len(f) + 1] = line
      /\ \A i \in 1 .. Len(f) : g[i] = f[i]
  BY <1>0, <1>1, Longer
<1>3. \A i \in 1 .. Len(f) + 1, h \in 0 .. Len(f) : Under(g, i, h) <=> Under(f, i, h)
  BY <1>0, <1>1, Longer
<1>4. \A n \in 0 .. Len(f), h \in 0 .. Len(f) : OpenRun(g, h, n) <=> OpenRun(f, h, n)
  BY <1>0, <1>1, Longer
<1>5. \A i \in 1 .. Len(f), h \in 0 .. Len(f) : Gathered(g, h, i) <=> Gathered(f, h, i)
  BY <1>0, <1>1, Longer
<1>6. /\ \A h \in 0 .. Len(f) :
           h # last \/ ~Gathered(g, last, Len(f) + 1) => AddedTo(g, h) = AddedTo(f, h)
      /\ Gathered(g, last, Len(f) + 1) =>
           AddedTo(g, last) = AddedTo(f, last) \union {Len(f) + 1}
  <2>1. ASSUME NEW h \in 0 .. Len(f)
        PROVE  /\ h # last \/ ~Gathered(g, last, Len(f) + 1) => AddedTo(g, h) = AddedTo(f, h)
               /\ h = last /\ Gathered(g, last, Len(f) + 1) =>
                    AddedTo(g, h) = AddedTo(f, h) \union {Len(f) + 1}
    <3>1. Under(g, Len(f) + 1, h) <=> h = last
      <4>1. Len(f) + 1 \in 1 .. Len(f) + 1
        BY <1>0
      <4>2. Under(g, Len(f) + 1, h) <=> Under(f, Len(f) + 1, h)
        BY <1>3, <4>1
      <4> QED
        BY <1>0, <4>1, <4>2, OneHeader
    <3>2. \A i \in h + 1 .. Len(f) :
            (Under(g, i, h) <=> Under(f, i, h)) /\ (Gathered(g, h, i) <=> Gathered(f, h, i))
      <4>1. \A i \in h + 1 .. Len(f) : i \in 1 .. Len(f) + 1 /\ i \in 1 .. Len(f)
        BY <1>0
      <4> QED
        BY <1>3, <1>5, <4>1
    <3>3. \A i : i \in h + 1 .. Len(g) <=> i \in h + 1 .. Len(f) \/ i = Len(f) + 1
      BY <1>0, <1>2
    <3> QED
      BY <3>1, <3>2, <3>3 DEF AddedTo
  <2> QED
    BY <1>0, <2>1
<1>7. /\ line.kind = "header" => Naming(g) = Naming(f) \union {Len(f) + 1}
      /\ line.kind # "header" => Naming(g) = Naming(f)
  BY <1>0, <1>1, NamingGrows
<1>8. Grown(f, line, last, g)
  BY <1>2, <1>3, <1>4, <1>6, <1>7 DEF Grown
<1> QED
  BY <1>8 DEF g

\* Lines that are no header: where the text stands, and what is stored.
LEMMA LineStands ==
  ASSUME NEW f, NEW last, Standing(f, last), Placed(f), NEW line \in Lines,
         ~IsHeader(line), NEW g, Grown(f, line, last, g)
  PROVE  Standing(g, last) /\ Placed(g)
<1>0. f \in Seq(Lines) /\ last \in 0 .. Len(f) /\ Under(f, Len(f) + 1, last) /\ Len(f) \in Nat
  BY DEF Standing
<1>1. /\ g \in Seq(Lines) /\ Len(g) = Len(f) + 1 /\ g[Len(f) + 1] = line
      /\ \A i \in 1 .. Len(f) : g[i] = f[i]
      /\ \A i \in 1 .. Len(f) + 1, h \in 0 .. Len(f) : Under(g, i, h) <=> Under(f, i, h)
  BY DEF Grown
<1>2. Under(g, Len(f) + 1, last)
  BY <1>0, <1>1
<1>3. Under(g, Len(g) + 1, last)
  <2>1. \A k \in last + 1 .. Len(g) + 1 - 1 : k \in last + 1 .. Len(f) + 1 - 1 \/ k = Len(f) + 1
    BY <1>0, <1>1
  <2>2. last \in 0 .. Len(g) + 1 - 1
    BY <1>0, <1>1
  <2> QED
    BY <1>1, <1>2, <2>1, <2>2 DEF Under
<1>4. ASSUME NEW i \in 1 .. Len(g) PROVE \E h \in 0 .. Len(g) : Under(g, i, h)
  <2>1. 0 .. Len(f) \subseteq 0 .. Len(g)
    BY <1>0, <1>1
  <2>2. CASE i \in 1 .. Len(f)
    <3>1. PICK h \in 0 .. Len(f) : Under(f, i, h)
      BY <2>2 DEF Placed
    <3>2. i \in 1 .. Len(f) + 1
      BY <1>0, <2>2
    <3> QED
      BY <1>1, <2>1, <3>1, <3>2
  <2>3. CASE i = Len(f) + 1
    BY <1>0, <1>2, <2>1, <2>3
  <2> QED
    BY <1>0, <1>1, <2>2, <2>3
<1> QED
  BY <1>0, <1>1, <1>3, <1>4 DEF Standing, Placed

\* A header: the text stands under it.
LEMMA HeaderStands ==
  ASSUME NEW f, NEW last, Standing(f, last), Placed(f), NEW line \in Lines,
         IsHeader(line), NEW g, Grown(f, line, last, g)
  PROVE  Standing(g, Len(g)) /\ Placed(g)
<1>0. f \in Seq(Lines) /\ last \in 0 .. Len(f) /\ Under(f, Len(f) + 1, last) /\ Len(f) \in Nat
  BY DEF Standing
<1>1. /\ g \in Seq(Lines) /\ Len(g) = Len(f) + 1 /\ g[Len(f) + 1] = line
      /\ \A i \in 1 .. Len(f) + 1, h \in 0 .. Len(f) : Under(g, i, h) <=> Under(f, i, h)
  BY DEF Grown
<1>2. Under(g, Len(f) + 1, last)
  BY <1>0, <1>1
<1>3. Under(g, Len(g) + 1, Len(g))
  <2>1. ~\E k \in Len(g) + 1 .. Len(g) + 1 - 1 : TRUE
    BY <1>0, <1>1
  <2>2. Len(g) \in 0 .. Len(g) + 1 - 1
    BY <1>0, <1>1
  <2> QED
    BY <1>1, <2>1, <2>2 DEF Under
<1>4. ASSUME NEW i \in 1 .. Len(g) PROVE \E h \in 0 .. Len(g) : Under(g, i, h)
  <2>1. 0 .. Len(f) \subseteq 0 .. Len(g)
    BY <1>0, <1>1
  <2>2. CASE i \in 1 .. Len(f)
    <3>1. PICK h \in 0 .. Len(f) : Under(f, i, h)
      BY <2>2 DEF Placed
    <3>2. i \in 1 .. Len(f) + 1
      BY <1>0, <2>2
    <3> QED
      BY <1>1, <2>1, <3>1, <3>2
  <2>3. CASE i = Len(f) + 1
    BY <1>0, <1>2, <2>1, <2>3
  <2> QED
    BY <1>0, <1>1, <2>2, <2>3
<1>5. Len(g) \in 0 .. Len(g)
  BY <1>0, <1>1
<1> QED
  BY <1>1, <1>3, <1>4, <1>5 DEF Standing, Placed

\* What is stored stays right while the last header's lines are read, and the
\* next header's begin.
LEMMA FilesStand ==
  ASSUME NEW f, NEW last, Standing(f, last), NEW line \in Lines, NEW g,
         Grown(f, line, last, g), NEW fs, NEW but,
         \/ ~IsHeader(line) /\ but = last /\ FilesSound(f, fs, last)
         \/ IsHeader(line) /\ but = Len(f) + 1 /\ FilesSound(f, fs, 0)
  PROVE  FilesSound(g, fs, but)
<1>0. f \in Seq(Lines) /\ last \in 0 .. Len(f) /\ Under(f, Len(f) + 1, last) /\ Len(f) \in Nat
  BY DEF Standing
<1>1. PICK old \in {0, last} : /\ FilesSound(f, fs, old)
                               /\ Naming(g) \ {but} = Naming(f) \ {old}
                               /\ IsHeader(line) \/ old = last
  <2>1. 0 \notin Naming(f) /\ Len(f) + 1 \notin Naming(f)
    BY <1>0 DEF Naming
  <2>2. CASE ~IsHeader(line)
    <3>1. line.kind # "header"
      BY <2>2 DEF IsHeader
    <3> QED
      BY <2>2, <3>1 DEF Grown
  <2>3. CASE IsHeader(line)
    <3>1. but = Len(f) + 1 /\ FilesSound(f, fs, 0)
      BY <2>3
    <3>2. Naming(g) = Naming(f) \/ Naming(g) = Naming(f) \union {Len(f) + 1}
      BY DEF Grown
    <3>3. Naming(g) \ {but} = Naming(f) \ {0}
      <4> HIDE DEF Naming
      <4> QED
        BY <2>1, <3>1, <3>2
    <3> QED
      BY <2>3, <3>1, <3>3
  <2> QED
    BY <2>2, <2>3
<1>2. \A h \in Naming(f) : h \in 1 .. Len(f) /\ h \in 0 .. Len(f) /\ g[h] = f[h]
  BY <1>0 DEF Naming, Grown
<1>3. DOMAIN fs = {g[h].path : h \in Naming(g) \ {but}}
  BY <1>1, <1>2 DEF FilesSound
<1>4. ASSUME NEW h \in Naming(f) \ {old} PROVE AddedTo(g, h) = AddedTo(f, h)
  <2>1. h # last \/ ~Gathered(g, last, Len(f) + 1)
    <3>1. g[Len(f) + 1] = line
      BY DEF Grown
    <3> QED
      BY <1>1, <3>1 DEF Gathered, IsHeader
  <2>2. h \in 0 .. Len(f)
    BY <1>2
  <2>3. h # last \/ ~Gathered(g, last, Len(f) + 1) => AddedTo(g, h) = AddedTo(f, h)
    BY <2>2 DEF Grown
  <2>4. h # last \/ ~Gathered(g, last, Len(f) + 1)
    BY <2>1
  <2> QED
    BY <2>3, <2>4
<1>5. ASSUME NEW h \in Naming(g) \ {but},
             \A k \in (Naming(g) \ {but}) \intersect (h + 1 .. Len(g)) : g[k].path # g[h].path
      PROVE  InOrder(AddedTo(g, h), fs[g[h].path])
  <2>1. h \in Naming(f) \ {old}
    BY <1>1
  <2>2. \A k \in (Naming(f) \ {old}) \intersect (h + 1 .. Len(f)) : f[k].path # f[h].path
    <3>1. \A k \in h + 1 .. Len(f) : k \in h + 1 .. Len(g)
      BY <1>0, <1>2, <2>1 DEF Grown
    <3> QED
      BY <1>1, <1>2, <1>5, <2>1, <3>1
  <2>3. InOrder(AddedTo(f, h), fs[f[h].path])
    BY <1>1, <2>1, <2>2 DEF FilesSound
  <2> QED
    BY <1>2, <1>4, <2>1, <2>3
<1> QED
  BY <1>3, <1>5 DEF FilesSound

LEMMA BodyStands ==
  ASSUME NEW f, NEW last, Standing(f, last), NEW line \in Lines, ~IsHeader(line),
         NEW g, Grown(f, line, last, g), NEW path, NEW b, NEW run,
         BodySound(f, last, path, b, run), NEW c \in Seq(Nat), NEW still \in BOOLEAN,
         path # NoPath =>
           /\ c = IF \/ line.kind \in {"added", "unmarked"}
                     \/ line.kind = "indented" /\ run
                  THEN Append(b, Len(f) + 1) ELSE b
           /\ still <=> line.kind = "unmarked" \/ (run /\ line.kind # "hunk")
  PROVE  BodySound(g, last, path, c, still)
<1>0. f \in Seq(Lines) /\ last \in 0 .. Len(f) /\ Len(f) \in Nat
  BY DEF Standing
<1>1. Len(g) = Len(f) + 1 /\ g[Len(f) + 1] = line /\ \A i \in 1 .. Len(f) : g[i] = f[i]
  BY DEF Grown
<1>2. path = IF last = 0 THEN NoPath ELSE g[last].path
  BY <1>0, <1>1 DEF BodySound
<1>3. ASSUME path # NoPath PROVE InOrder(AddedTo(g, last), c)
  <2>1. /\ InOrder(AddedTo(f, last), b) /\ b \in Seq(Nat) /\ run \in BOOLEAN
        /\ run <=> OpenRun(f, last, Len(f))
    BY <1>3 DEF BodySound
  <2>2. OpenRun(g, last, Len(f) + 1 - 1) <=> run
    <3>1. Len(f) + 1 - 1 = Len(f) /\ Len(f) \in 0 .. Len(f)
      BY <1>0
    <3>2. OpenRun(g, last, Len(f)) <=> OpenRun(f, last, Len(f))
      BY <1>0, <3>1 DEF Grown
    <3> QED
      BY <2>1, <3>1, <3>2
  <2>3. Gathered(g, last, Len(f) + 1) <=>
          line.kind \in {"added", "unmarked"} \/ (line.kind = "indented" /\ run)
    BY <1>1, <2>2 DEF Gathered
  <2>4. CASE Gathered(g, last, Len(f) + 1)
    <3>1. AddedTo(g, last) = AddedTo(f, last) \union {Len(f) + 1}
      BY <2>4 DEF Grown
    <3>2. \A i \in AddedTo(f, last) : i \in 1 .. Len(f)
      BY <1>0 DEF AddedTo
    <3>3. c = Append(b, Len(f) + 1)
      BY <1>3, <2>3, <2>4
    <3> QED
      BY <1>0, <2>1, <3>1, <3>2, <3>3, OneMore
  <2>5. CASE ~Gathered(g, last, Len(f) + 1)
    <3>1. AddedTo(g, last) = AddedTo(f, last)
      BY <1>0, <2>5 DEF Grown
    <3> QED
      BY <1>3, <2>1, <2>3, <2>5, <3>1
  <2> QED
    BY <2>4, <2>5
<1>4. ASSUME path # NoPath PROVE still <=> OpenRun(g, last, Len(g))
  <2>1. run <=> OpenRun(f, last, Len(f))
    BY <1>4 DEF BodySound
  <2>2. OpenRun(g, last, Len(g)) <=>
          line.kind = "unmarked" \/ (OpenRun(f, last, Len(f)) /\ line.kind # "hunk")
    <3>1. ASSUME OpenRun(g, last, Len(g))
          PROVE  line.kind = "unmarked" \/ (OpenRun(f, last, Len(f)) /\ line.kind # "hunk")
      <4>1. PICK k \in last + 1 .. Len(g) :
              g[k].kind = "unmarked" /\ \A j \in k + 1 .. Len(g) : g[j].kind # "hunk"
        BY <3>1 DEF OpenRun
      <4>2. CASE k = Len(f) + 1
        BY <1>1, <4>1, <4>2
      <4>3. CASE k \in last + 1 .. Len(f)
        <5>1. Len(f) + 1 \in k + 1 .. Len(g) /\ k \in 1 .. Len(f)
          BY <1>0, <1>1, <4>3
        <5>2. \A j \in k + 1 .. Len(f) : j \in k + 1 .. Len(g) /\ j \in 1 .. Len(f)
          BY <1>0, <1>1, <4>3
        <5> QED
          BY <1>1, <4>1, <4>3, <5>1, <5>2 DEF OpenRun
      <4> QED
        BY <1>0, <1>1, <4>2, <4>3
    <3>2. ASSUME line.kind = "unmarked" PROVE OpenRun(g, last, Len(g))
      <4>1. Len(g) \in last + 1 .. Len(g) /\ g[Len(g)] = line
        BY <1>0, <1>1
      <4>2. \A j \in Len(g) + 1 .. Len(g) : FALSE
        BY <1>0, <1>1
      <4> QED
        BY <3>2, <4>1, <4>2 DEF OpenRun
    <3>3. ASSUME OpenRun(f, last, Len(f)), line.kind # "hunk" PROVE OpenRun(g, last, Len(g))
      <4>1. PICK k \in last + 1 .. Len(f) :
              f[k].kind = "unmarked" /\ \A j \in k + 1 .. Len(f) : f[j].kind # "hunk"
        BY <3>3 DEF OpenRun
      <4>2. k \in last + 1 .. Len(g) /\ k \in 1 .. Len(f)
        BY <1>0, <1>1
      <4>3. \A j \in k + 1 .. Len(g) : g[j].kind # "hunk"
        <5>1. \A j \in k + 1 .. Len(g) :
                j = Len(f) + 1 \/ (j \in k + 1 .. Len(f) /\ j \in 1 .. Len(f))
          BY <1>0, <1>1, <4>2
        <5> QED
          BY <1>1, <3>3, <4>1, <5>1
      <4> QED
        BY <1>1, <4>1, <4>2, <4>3 DEF OpenRun
    <3> QED
      BY <3>1, <3>2, <3>3
  <2> QED
    BY <1>4, <2>1, <2>2
<1> QED
  BY <1>2, <1>3, <1>4 DEF BodySound

LEMMA HeaderBody ==
  ASSUME NEW f, NEW last, Standing(f, last), NEW line \in Lines, IsHeader(line),
         NEW g, Grown(f, line, last, g)
  PROVE  BodySound(g, Len(g), line.path, << >>, FALSE)
<1>0. f \in Seq(Lines) /\ Len(f) \in Nat
  BY DEF Standing
<1>1. Len(g) = Len(f) + 1 /\ g[Len(f) + 1] = line
  BY DEF Grown
<1>2. \A i \in Len(g) + 1 .. Len(g) : FALSE
  BY <1>0, <1>1
<1>3. AddedTo(g, Len(g)) = {} /\ ~OpenRun(g, Len(g), Len(g))
  BY <1>2 DEF AddedTo, OpenRun
<1>4. InOrder({}, << >>) /\ << >> \in Seq(Nat)
  BY DEF InOrder
<1>5. line.path = IF Len(g) = 0 THEN NoPath ELSE g[Len(g)].path
  BY <1>0, <1>1
<1> QED
  BY <1>3, <1>4, <1>5 DEF BodySound

LEMMA RemovedStands ==
  ASSUME NEW f, NEW last, Standing(f, last), NEW line \in Lines, NEW g,
         Grown(f, line, last, g), NEW path,
         path = IF last = 0 THEN NoPath ELSE f[last].path,
         NEW lines, RemovedSound(f, lines), NEW more,
         more = IF line.kind = "removed" /\ path # NoPath
                THEN lines \union {<<path, Len(f) + 1>>} ELSE lines
  PROVE  RemovedSound(g, more)
<1>0. f \in Seq(Lines) /\ last \in 0 .. Len(f) /\ Under(f, Len(f) + 1, last) /\ Len(f) \in Nat
  BY DEF Standing
<1>1. /\ Len(g) = Len(f) + 1 /\ g[Len(f) + 1] = line
      /\ \A i \in 1 .. Len(f) : g[i] = f[i]
      /\ \A i \in 1 .. Len(f) + 1, h \in 0 .. Len(f) : Under(g, i, h) <=> Under(f, i, h)
  BY DEF Grown
<1>2. path # NoPath <=> last \in 1 .. Len(f) /\ f[last].kind = "header"
  <2>1. last \in 1 .. Len(f) => f[last] \in Lines
    BY <1>0
  <2> QED
    BY <1>0, <2>1, LineKinds
<1>3. ASSUME NEW x
      PROVE  x \in more <=>
               \E i, h \in 1 .. Len(g) : /\ Under(g, i, h) /\ g[i].kind = "removed"
                                         /\ g[h].kind = "header" /\ x = <<g[h].path, i>>
  <2>1. ASSUME x \in lines
        PROVE  \E i, h \in 1 .. Len(g) : /\ Under(g, i, h) /\ g[i].kind = "removed"
                                         /\ g[h].kind = "header" /\ x = <<g[h].path, i>>
    <3>1. PICK i \in 1 .. Len(f), h \in 1 .. Len(f) :
            /\ Under(f, i, h) /\ f[i].kind = "removed"
            /\ f[h].kind = "header" /\ x = <<f[h].path, i>>
      BY <2>1 DEF RemovedSound
    <3>2. i \in 1 .. Len(g) /\ h \in 1 .. Len(g) /\ i \in 1 .. Len(f) + 1 /\ h \in 0 .. Len(f)
      BY <1>0, <1>1
    <3> QED
      BY <1>1, <3>1, <3>2
  <2>2. ASSUME x \in more, x \notin lines
        PROVE  \E i, h \in 1 .. Len(g) : /\ Under(g, i, h) /\ g[i].kind = "removed"
                                         /\ g[h].kind = "header" /\ x = <<g[h].path, i>>
    <3>1. line.kind = "removed" /\ path # NoPath /\ x = <<path, Len(f) + 1>>
      BY <2>2
    <3>2. last \in 1 .. Len(f) /\ f[last].kind = "header" /\ path = f[last].path
      BY <1>0, <1>2, <3>1
    <3>3. /\ Len(f) + 1 \in 1 .. Len(g) /\ last \in 1 .. Len(g)
          /\ Len(f) + 1 \in 1 .. Len(f) + 1
      BY <1>0, <1>1, <3>2
    <3> QED
      BY <1>0, <1>1, <3>1, <3>2, <3>3
  <2>3. ASSUME NEW i \in 1 .. Len(g), NEW h \in 1 .. Len(g), Under(g, i, h),
               g[i].kind = "removed", g[h].kind = "header", x = <<g[h].path, i>>
        PROVE  x \in more
    <3>1. h \in 1 .. Len(f) /\ h \in 0 .. Len(f) /\ i \in 1 .. Len(f) + 1
      BY <1>0, <1>1, <2>3 DEF Under
    <3>2. Under(f, i, h) /\ f[h].kind = "header" /\ x = <<f[h].path, i>>
      BY <1>1, <2>3, <3>1
    <3>3. CASE i \in 1 .. Len(f)
      <4>1. f[i].kind = "removed"
        BY <1>1, <2>3, <3>3
      <4> QED
        BY <3>1, <3>2, <3>3, <4>1 DEF RemovedSound
    <3>4. CASE i = Len(f) + 1
      <4>1. h = last
        BY <1>0, <3>1, <3>2, <3>4, OneHeader
      <4>2. path # NoPath /\ path = f[last].path /\ line.kind = "removed"
        BY <1>0, <1>1, <1>2, <2>3, <3>1, <3>2, <3>4, <4>1
      <4> QED
        BY <3>2, <3>4, <4>1, <4>2
    <3> QED
      BY <1>0, <3>1, <3>3, <3>4
  <2> QED
    BY <2>1, <2>2, <2>3
<1> QED
  BY <1>3 DEF RemovedSound

Takes(store, fs, path, b) ==
  /\ path = NoPath => store = fs
  /\ path # NoPath => /\ DOMAIN store = DOMAIN fs \union {path} /\ store[path] = b
                      /\ \A p \in DOMAIN fs \ {path} : store[p] = fs[p]

LEMMA StoredTakes == Takes(Stored, files, current, body)
BY DEF Takes, Stored

\* A body that is complete takes its path.
LEMMA StoredStands ==
  ASSUME NEW f, NEW last, Standing(f, last), NEW path, NEW b, NEW run,
         BodySound(f, last, path, b, run), NEW fs, FilesSound(f, fs, last), NEW store,
         Takes(store, fs, path, b)
  PROVE  FilesSound(f, store, 0)
<1>0. f \in Seq(Lines) /\ last \in 0 .. Len(f) /\ Under(f, Len(f) + 1, last) /\ Len(f) \in Nat
  BY DEF Standing
<1>1. path = IF last = 0 THEN NoPath ELSE f[last].path
  BY DEF BodySound
<1>2. path # NoPath <=> last \in Naming(f)
  <2>1. last \in 1 .. Len(f) => f[last] \in Lines
    BY <1>0
  <2> QED
    BY <1>0, <1>1, <2>1, LineKinds DEF Naming
<1>3. 0 \notin Naming(f)
  BY DEF Naming
<1>4. CASE path = NoPath
  <2>1. Naming(f) \ {last} = Naming(f) \ {0}
    BY <1>2, <1>3, <1>4
  <2> QED
    BY <1>4, <2>1 DEF FilesSound, Takes
<1>5. CASE path # NoPath
  <2>1. last \in Naming(f) /\ path = f[last].path /\ InOrder(AddedTo(f, last), b)
    BY <1>1, <1>2, <1>5 DEF BodySound
  <2>2. DOMAIN store = DOMAIN fs \union {path} /\ store[path] = b
        /\ \A p \in DOMAIN fs \ {path} : store[p] = fs[p]
    BY <1>5 DEF Takes
  <2>3. DOMAIN store = {f[h].path : h \in Naming(f) \ {0}}
    BY <1>3, <2>1, <2>2 DEF FilesSound
  <2>4. ASSUME NEW h \in Naming(f),
               \A k \in Naming(f) \intersect (h + 1 .. Len(f)) : f[k].path # f[h].path
        PROVE  InOrder(AddedTo(f, h), store[f[h].path])
    <3>1. CASE h = last
      BY <2>1, <2>2, <3>1
    <3>2. CASE h # last
      <4>1. h \in 1 .. Len(f) /\ IsHeader(f[h])
        BY DEF Naming, IsHeader
      <4>2. last \in h + 1 .. Len(f)
        <5>1. h \notin last + 1 .. Len(f) + 1 - 1
          BY <1>0, <4>1 DEF Under
        <5> QED
          BY <1>0, <3>2, <4>1, <5>1
      <4>3. f[h].path # path /\ f[h].path \in DOMAIN fs
        BY <2>1, <2>4, <3>2, <4>2 DEF FilesSound
      <4>4. InOrder(AddedTo(f, h), fs[f[h].path])
        BY <2>4, <3>2 DEF FilesSound
      <4> QED
        BY <2>2, <4>3, <4>4
    <3> QED
      BY <3>1, <3>2
  <2> QED
    BY <1>3, <2>3, <2>4 DEF FilesSound
<1> QED
  BY <1>4, <1>5

\* What the invariant says while lines are still to come.
Reading(f, last, path, b, run, fs) ==
  Standing(f, last) /\ BodySound(f, last, path, b, run) /\ FilesSound(f, fs, last)

LEMMA LinesKeep ==
  ASSUME DiffInv, NEW line \in Lines, ReadLine(line)
  PROVE  DiffInv'
<1>1. PICK last \in 0 .. Len(fed) : Reading(fed, last, current, body, in_run, files)
  BY DEF ReadLine, DiffInv, Reading
<1>2. /\ Standing(fed, last) /\ BodySound(fed, last, current, body, in_run)
      /\ FilesSound(fed, files, last) /\ Placed(fed) /\ RemovedSound(fed, removed)
      /\ recognised <=> \E h \in 1 .. Len(fed) : fed[h].kind \in {"header", "absent"}
  BY <1>1 DEF Reading, DiffInv
<1>3. outcome' = "reading" /\ Grown(fed, line, last, fed')
  BY <1>2, Grows DEF ReadLine
<1>4. Len(fed) \in Nat /\ body \in Seq(Nat) /\ in_run \in BOOLEAN
  BY <1>2 DEF Standing, BodySound
<1>5. /\ fed' \in Seq(Lines) /\ Len(fed') = Len(fed) + 1 /\ fed'[Len(fed) + 1] = line
      /\ \A i \in 1 .. Len(fed) : fed'[i] = fed[i]
  BY <1>3 DEF Grown
<1>6. (\E h \in 1 .. Len(fed') : fed'[h].kind \in {"header", "absent"})
        <=> recognised \/ line.kind \in {"header", "absent"}
  <2>1. \A h : h \in 1 .. Len(fed') <=> h \in 1 .. Len(fed) \/ h = Len(fed) + 1
    BY <1>4, <1>5
  <2> QED
    BY <1>2, <1>5, <2>1
<1>7. current = IF last = 0 THEN NoPath ELSE fed[last].path
  BY <1>2 DEF BodySound
<1>8. CASE ReadHeader(line)
  <2>1. /\ IsHeader(line) /\ files' = Stored /\ current' = line.path /\ body' = << >>
        /\ in_run' = FALSE /\ removed' = removed
        /\ recognised' = (recognised \/ line.kind # "unreadable")
    BY <1>8, LineKinds DEF ReadHeader
  <2>2. Standing(fed', Len(fed')) /\ Placed(fed')
    BY <1>2, <1>3, <2>1, HeaderStands
  <2>3. BodySound(fed', Len(fed'), current', body', in_run')
    BY <1>2, <1>3, <2>1, HeaderBody
  <2>4. FilesSound(fed', files', Len(fed'))
    <3>1. FilesSound(fed, Stored, 0)
      BY <1>2, StoredTakes, StoredStands
    <3> QED
      BY <1>2, <1>3, <1>5, <2>1, <3>1, FilesStand
  <2>5. RemovedSound(fed', removed')
    <3>1. line.kind # "removed"
      BY <2>1 DEF IsHeader
    <3> QED
      BY <1>2, <1>3, <1>7, <2>1, <3>1, RemovedStands
  <2>6. recognised' <=> \E h \in 1 .. Len(fed') : fed'[h].kind \in {"header", "absent"}
    BY <1>6, <2>1 DEF IsHeader
  <2>7. Len(fed') \in 0 .. Len(fed')
    BY <2>2 DEF Standing
  <2> QED
    BY <1>3, <1>5, <2>2, <2>3, <2>4, <2>5, <2>6, <2>7 DEF DiffInv
<1>9. ASSUME ~IsHeader(line), files' = files, current' = current, recognised' = recognised,
             body' \in Seq(Nat), in_run' \in BOOLEAN,
             removed' = IF line.kind = "removed" /\ current # NoPath
                        THEN removed \union {<<current, Len(fed) + 1>>} ELSE removed,
             current # NoPath =>
               /\ body' = IF \/ line.kind \in {"added", "unmarked"}
                             \/ line.kind = "indented" /\ in_run
                          THEN Append(body, Len(fed) + 1) ELSE body
               /\ in_run' <=> line.kind = "unmarked" \/ (in_run /\ line.kind # "hunk")
      PROVE  DiffInv'
  <2>1. Standing(fed', last) /\ Placed(fed')
    BY <1>2, <1>3, <1>9, LineStands
  <2>2. BodySound(fed', last, current', body', in_run')
    BY <1>2, <1>3, <1>9, BodyStands
  <2>3. FilesSound(fed', files', last)
    BY <1>2, <1>3, <1>9, FilesStand
  <2>4. RemovedSound(fed', removed')
    BY <1>2, <1>3, <1>7, <1>9, RemovedStands
  <2>5. recognised' <=> \E h \in 1 .. Len(fed') : fed'[h].kind \in {"header", "absent"}
    BY <1>6, <1>9 DEF IsHeader
  <2>6. last \in 0 .. Len(fed')
    BY <2>1 DEF Standing
  <2> QED
    BY <1>3, <1>5, <2>1, <2>2, <2>3, <2>4, <2>5, <2>6 DEF DiffInv
<1>10. Append(body, Len(fed) + 1) \in Seq(Nat)
  BY <1>4
<1>11. CASE ReadAdded(line) \/ ReadHunk(line) \/ ReadRemoved(line) \/ ReadOther(line)
  BY <1>4, <1>9, <1>10, <1>11
     DEF ReadAdded, ReadHunk, ReadRemoved, ReadOther, IsHeader, Position
<1>12. CASE ReadUnmarked(line)
  <2>1. CASE current # NoPath /\ _unmarked(line)
    BY <1>4, <1>9, <1>10, <1>12, <2>1 DEF ReadUnmarked, IsHeader, Position, _unmarked
  <2>2. CASE ~(current # NoPath /\ _unmarked(line))
    BY <1>4, <1>9, <1>12, <2>2 DEF ReadUnmarked, IsHeader, _unmarked
  <2> QED
    BY <2>1, <2>2
<1> QED
  BY <1>8, <1>11, <1>12 DEF ReadLine

LEMMA EndKeeps == DiffInv /\ EndOfText => DiffInv'
<1> SUFFICES ASSUME DiffInv, EndOfText PROVE DiffInv'
  OBVIOUS
<1>1. PICK last \in 0 .. Len(fed) : Reading(fed, last, current, body, in_run, files)
  BY DEF EndOfText, DiffInv, Reading
<1>2. /\ fed' = fed /\ recognised' = recognised /\ removed' = removed /\ files' = Stored
      /\ outcome' # "reading"
      /\ outcome' = "written" =>
           /\ recognised \/ \A i \in DOMAIN fed : fed[i].kind = "blank"
           /\ ~\E p \in DOMAIN files' : p \in OutsidePaths
  BY DEF EndOfText
<1>3. FilesSound(fed, Stored, 0)
  BY <1>1, StoredTakes, StoredStands DEF Reading
<1>4. fed \in Seq(Lines) /\ DOMAIN fed = 1 .. Len(fed)
  BY DEF DiffInv
<1> QED
  BY <1>2, <1>3, <1>4 DEF DiffInv

LEMMA HeaderOfIs ==
  ASSUME fed \in Seq(Lines), Placed(fed), NEW i \in 1 .. Len(fed), NEW h
  PROVE  HeaderOf(i) = h <=> Under(fed, i, h)
<1>1. PICK k \in 0 .. Len(fed) : Under(fed, i, k)
  BY DEF Placed
<1>2. \A j \in 1 .. Len(fed) : HeaderAt(j) <=> IsHeader(fed[j])
  <2>1. \A j \in 1 .. Len(fed) : fed[j] \in Lines
    OBVIOUS
  <2> QED
    BY <2>1, LineKinds DEF HeaderAt
<1>3. ASSUME NEW j \in 0 .. i - 1
      PROVE  Under(fed, i, j) <=> /\ j > 0 => HeaderAt(j)
                                  /\ \A l \in j + 1 .. i - 1 : ~HeaderAt(l)
  <2>1. Len(fed) \in Nat
    OBVIOUS
  <2>2. j > 0 => j \in 1 .. Len(fed)
    BY <2>1
  <2>3. \A l \in j + 1 .. i - 1 : l \in 1 .. Len(fed)
    BY <2>1
  <2> QED
    BY <1>2, <2>2, <2>3 DEF Under
<1>4. k \in 0 .. i - 1
  BY <1>1 DEF Under
<1>5. HeaderOf(i) \in 0 .. i - 1 /\ Under(fed, i, HeaderOf(i))
  BY <1>1, <1>3, <1>4 DEF HeaderOf
<1>6. i \in 1 .. Len(fed) + 1
  OBVIOUS
<1> QED
  BY <1>5, <1>6, OneHeader

LEMMA AddedAreGathered ==
  ASSUME fed \in Seq(Lines), Placed(fed), NEW h \in 1 .. Len(fed)
  PROVE  AddedUnder(h) = AddedTo(fed, h)
<1>1. ASSUME NEW i \in h + 1 .. Len(fed)
      PROVE  (/\ ~HeaderAt(i) /\ HeaderOf(i) = h
              /\ fed[i].kind = "added" \/ InRun(i))
             <=> Under(fed, i, h) /\ Gathered(fed, h, i)
  <2>1. i \in 1 .. Len(fed) /\ fed[i] \in Lines
    OBVIOUS
  <2>2. HeaderOf(i) = h <=> Under(fed, i, h)
    BY <2>1, HeaderOfIs
  <2>3. HeaderAt(i) <=> IsHeader(fed[i])
    BY <2>1, LineKinds DEF HeaderAt
  <2>4. HeaderOf(i) = h =>
          (fed[i].kind = "added" \/ InRun(i) <=> Gathered(fed, h, i))
    BY DEF InRun, Gathered, OpenRun
  <2> QED
    BY <2>2, <2>3, <2>4 DEF Gathered, IsHeader
<1> QED
  BY <1>1 DEF AddedUnder, AddedTo

LEMMA WrittenIsWhatWasAdded == DiffInv => FilesHoldWhatWasAdded
<1> SUFFICES ASSUME DiffInv, outcome = "written"
             PROVE  FilesHoldWhatWasAdded
  BY DEF FilesHoldWhatWasAdded
<1>1. /\ fed \in Seq(Lines) /\ Placed(fed) /\ RemovedSound(fed, removed)
      /\ FilesSound(fed, files, 0) /\ DOMAIN files \intersect OutsidePaths = {}
      /\ recognised \/ \A i \in 1 .. Len(fed) : fed[i].kind = "blank"
      /\ recognised <=> \E h \in 1 .. Len(fed) : fed[h].kind \in {"header", "absent"}
      /\ DOMAIN fed = 1 .. Len(fed)
  BY DEF DiffInv
<1>2. NamingHeaders = Naming(fed) /\ Naming(fed) \ {0} = Naming(fed)
      /\ Naming(fed) \subseteq 1 .. Len(fed)
  BY <1>1 DEF NamingHeaders, Naming
<1>3. DOMAIN files = {fed[h].path : h \in NamingHeaders}
  BY <1>1, <1>2 DEF FilesSound
<1>4. ASSUME NEW h \in NamingHeaders, LastHeader(h)
      PROVE  InOrder(AddedUnder(h), files[fed[h].path])
  <2>1. \A k \in Naming(fed) : HeaderAt(k)
    <3>1. \A k \in Naming(fed) : fed[k] \in Lines /\ fed[k].kind = "header"
      BY <1>1 DEF Naming
    <3> QED
      BY <3>1, LineKinds DEF HeaderAt, IsHeader
  <2>2. \A k \in Naming(fed) \intersect (h + 1 .. Len(fed)) : fed[k].path # fed[h].path
    BY <1>4, <2>1 DEF LastHeader
  <2>3. InOrder(AddedTo(fed, h), files[fed[h].path])
    BY <1>1, <1>2, <2>2 DEF FilesSound
  <2> QED
    BY <1>1, <1>2, <2>3, AddedAreGathered
<1>5. (\E i \in DOMAIN fed : fed[i].kind # "blank")
        => \E h \in DOMAIN fed : fed[h].kind \in {"header", "absent"}
  BY <1>1
<1>6. removed = {<<fed[HeaderOf(i)].path, i>> :
                  i \in {k \in DOMAIN fed : fed[k].kind = "removed" /\ HeaderOf(k) # 0
                                            /\ fed[HeaderOf(k)].kind = "header"}}
  <2> DEFINE lines == {k \in DOMAIN fed : fed[k].kind = "removed" /\ HeaderOf(k) # 0
                                         /\ fed[HeaderOf(k)].kind = "header"}
  <2>1. ASSUME NEW x \in removed PROVE \E i \in lines : x = <<fed[HeaderOf(i)].path, i>>
    <3>1. PICK i \in 1 .. Len(fed), h \in 1 .. Len(fed) :
            /\ Under(fed, i, h) /\ fed[i].kind = "removed"
            /\ fed[h].kind = "header" /\ x = <<fed[h].path, i>>
      BY <1>1, <2>1 DEF RemovedSound
    <3>2. HeaderOf(i) = h /\ h # 0
      BY <1>1, <3>1, HeaderOfIs
    <3> QED
      BY <1>1, <3>1, <3>2
  <2>2. ASSUME NEW i \in lines PROVE <<fed[HeaderOf(i)].path, i>> \in removed
    <3>1. i \in 1 .. Len(fed) /\ Under(fed, i, HeaderOf(i))
      BY <1>1, HeaderOfIs
    <3>2. HeaderOf(i) \in 1 .. Len(fed)
      <4>1. HeaderOf(i) \in 0 .. i - 1 /\ HeaderOf(i) # 0
        BY <3>1 DEF Under
      <4> QED
        BY <1>1, <3>1, <4>1
    <3> QED
      BY <1>1, <3>1, <3>2 DEF RemovedSound
  <2> HIDE DEF lines
  <2>3. removed = {<<fed[HeaderOf(i)].path, i>> : i \in lines}
    BY <2>1, <2>2
  <2> QED
    BY <2>3 DEF lines
<1> QED
  BY <1>1, <1>3, <1>4, <1>5, <1>6 DEF FilesHoldWhatWasAdded

\* Whatever lines a model wrote, in whatever order, a change that is written out
\* for the scanners is the files its headers name, each with exactly the lines the
\* change adds to it, in order, and with none outside the directory.
THEOREM FilesAlwaysHoldWhatWasAdded == DiffSpec => []FilesHoldWhatWasAdded
<1>1. DiffInit => DiffInv
  <2> SUFFICES ASSUME DiffInit PROVE DiffInv
    OBVIOUS
  <2>1. /\ fed = << >> /\ files = << >> /\ current = NoPath /\ body = << >>
        /\ in_run = FALSE /\ recognised = FALSE /\ removed = {} /\ outcome = "reading"
    BY DEF DiffInit
  <2>2. fed \in Seq(Lines) /\ Len(fed) = 0 /\ body \in Seq(Nat) /\ DOMAIN files = {}
    BY <2>1
  <2>3. \A i \in 1 .. Len(fed) : FALSE
    BY <2>2
  <2>4. Naming(fed) = {}
    BY <2>3 DEF Naming
  <2>5. Standing(fed, 0)
    BY <2>2 DEF Standing, Under
  <2>6. BodySound(fed, 0, current, body, in_run) /\ FilesSound(fed, files, 0)
    BY <2>1, <2>2, <2>4 DEF BodySound, FilesSound
  <2>7. Placed(fed) /\ RemovedSound(fed, removed)
    BY <2>1, <2>3 DEF Placed, RemovedSound
  <2> QED
    BY <2>1, <2>2, <2>3, <2>5, <2>6, <2>7 DEF DiffInv
<1>2. DiffInv /\ [DiffNext]_diffVars => DiffInv'
  <2> SUFFICES ASSUME DiffInv, [DiffNext]_diffVars PROVE DiffInv'
    OBVIOUS
  <2>1. CASE UNCHANGED diffVars
    BY <2>1 DEF diffVars, DiffInv
  <2> QED
    BY <2>1, LinesKeep, EndKeeps DEF DiffNext
<1> QED
  BY <1>1, <1>2, WrittenIsWhatWasAdded, PTL DEF DiffSpec
=============================================================================
