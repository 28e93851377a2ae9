------------------------------ MODULE Ingress ------------------------------
(***************************************************************************)
(* The two doors deliveries come in by: the webhook function, which puts   *)
(* what it verified on the event bus (infra/ingress/handler.py), and the   *)
(* API's own route (api/ingress.py). The function keeps the secret for as  *)
(* long as an instance of it stays warm, across a rotation.                *)
(***************************************************************************)
EXTENDS Naturals, FiniteSets

CONSTANTS
  HookSecrets,   \* values the webhook secret may have
  Instances      \* instances of the function

ASSUME IngressAssumption == "" \notin HookSecrets /\ "blank" \notin HookSecrets

VARIABLES
  vault,     \* the secret as stored; "blank" when it is unusable
  history,   \* the values it has had
  warm,      \* what each instance has cached, "" before it read anything
  bus,       \* deliveries the event bus took
  accepted   \* deliveries the function answered with 202

ingressVars == <<vault, history, warm, bus, accepted>>

-----------------------------------------------------------------------------
Providers == {"github", "gitlab", "generic"}

\* by is the secret the signature was made with (for a provider that signs no
\* body, the token itself), "" when the header is missing or without its prefix.
Deliveries ==
  [provider : Providers \union {"unknown"}, post : BOOLEAN,
   by : HookSecrets \union {""},
   body : {"object", "array", "text", "undecodable"}]

\* api/ingress.py verify_delivery, by the code it is answered with.
verify_delivery(d, secret) ==
  CASE d.provider \notin Providers -> 404
    [] d.provider \in Providers /\ secret = "blank" -> 500
    [] d.provider \in Providers /\ secret # "blank" ->
         IF d.by # secret THEN 401
         ELSE IF d.body = "object" THEN 202 ELSE 400

\* What the instance works with: its cache, or what it reads now; a secret that
\* is blank or cannot be read is not cached.
webhook_secret(i) == IF warm[i] # "" THEN warm[i] ELSE vault

Reads(d) == d.post /\ d.by # "" /\ d.body # "undecodable"

\* handler, up to the publishing: the codes in the order of its refusals.
Admits(d, secret) ==
  CASE ~d.post -> 405
    [] d.post /\ ~Reads(d) -> 401
    [] Reads(d) -> IF secret = "blank" THEN 500
                   ELSE IF d.by # secret THEN 401
                        ELSE IF d.body = "text" THEN 400 ELSE 202

\* The cache is filled by any delivery that gets as far as needing it.
Caches(i, d) ==
  warm' = [warm EXCEPT ![i] =
             IF Reads(d) /\ webhook_secret(i) # "blank" THEN webhook_secret(i) ELSE @]

Took(d) == bus' = bus \union {d}
Acknowledged(d) == accepted' = accepted \union {d}

\* Deliberate bug: an entry the bus reports as failed is not noticed.
PublishUnchecked(d) ==
  \/ Took(d) /\ Acknowledged(d)
  \/ UNCHANGED bus /\ Acknowledged(d)

\* put_events: taken; taken, with the answer lost; refused, by an exception or
\* by the count of failed entries. The last two are answered with a 500.
Publish(d) ==
  \/ Took(d) /\ Acknowledged(d)
  \/ Took(d) /\ UNCHANGED accepted
  \/ UNCHANGED <<bus, accepted>>

handler(i, d) ==
  /\ d.provider = "github"
  /\ Caches(i, d)
  /\ IF Admits(d, webhook_secret(i)) = 202 THEN Publish(d) ELSE UNCHANGED <<bus, accepted>>
  /\ UNCHANGED <<vault, history>>

Rotate(s) ==
  /\ vault' = s
  /\ history' = history \union {s}
  /\ UNCHANGED <<warm, bus, accepted>>

\* An instance is recycled.
Recycle(i) ==
  /\ warm' = [warm EXCEPT ![i] = ""]
  /\ UNCHANGED <<vault, history, bus, accepted>>

IngressInit ==
  /\ vault = "blank"
  /\ history = {}
  /\ warm = [i \in Instances |-> ""]
  /\ bus = {}
  /\ accepted = {}

IngressNext ==
  \/ \E s \in HookSecrets \union {"blank"} : Rotate(s)
  \/ \E i \in Instances : Recycle(i) \/ \E d \in Deliveries : handler(i, d)

IngressSpec == IngressInit /\ [][IngressNext]_ingressVars

-----------------------------------------------------------------------------
IngressTypeOK ==
  /\ vault \in HookSecrets \union {"blank"}
  /\ warm \in [Instances -> HookSecrets \union {""}]
  /\ bus \subseteq Deliveries

\* What the function answers 202 to is on the bus, and the bus holds nothing but
\* JSON signed with a secret that was the stored one at some time, across every
\* rotation and every lost answer (handler: FailedEntryCount; the cached secret).
\* And with one secret, the API's door takes nothing the function would refuse.
AcceptedIsPublished ==
  /\ accepted \subseteq bus
  /\ \A d \in bus : d.by \in history \ {"blank"} /\ d.body \in {"object", "array"}
  /\ \A d \in Deliveries, s \in HookSecrets :
       d.provider = "github" /\ d.post /\ verify_delivery(d, s) = 202 => Admits(d, s) = 202
=============================================================================
