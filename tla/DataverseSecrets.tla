--------------------------- MODULE DataverseSecrets ---------------------------
(***************************************************************************)
(* The secrets of the applications (DataverseManager) and what is derived  *)
(* from them: the token in an application's .env, and the answers of       *)
(* dv_verify_token.  dataverse-secrets.json holds the secrets of all       *)
(* applications; every change reads it as a whole and writes it back as a  *)
(* whole, in place and with no lock, from the threads of hr-orchestrator   *)
(* and from hr-dataverse-migrate.                                          *)
(*                                                                         *)
(* A step is one access to a file.  A write empties the file and fills it  *)
(* again.  A secret is its uuid and its token, both numbers, 0 for none;   *)
(* the password goes with the uuid (see DataverseMigration).               *)
(***************************************************************************)
EXTENDS Naturals

CONSTANTS
    Requests,       \* calls in hr-orchestrator
    Tool,           \* hr-dataverse-migrate
    Slugs,
    MaxMinted,      \* bound: changes, each of which has a number for what it makes
    MaxDeaths       \* bound: processes that die

Actors == Requests \cup {Tool}

VARIABLES
    file,           \* whether it is whole, and the secrets
    env,            \* the token in the .env of each application, 0 for none
    change,         \* of each actor: its step, what it is to do, what it has read
    minted,         \* the number of the last change
    deaths,
    kept,           \* history: the secrets with every change applied that has been written
    lost,           \* history: a stale copy was written
    retired,        \* history: the tokens that a rotation or an adoption has replaced
    disturbed       \* history: applications whose syncs overlapped, were cut off or were left out

secretsVars == <<file, env, change, minted, deaths, kept, lost, retired, disturbed>>
unwritten == <<minted, kept, retired>>

NoSecret == [uuid |-> 0, token |-> 0]
Idle == [pc |-> "idle", op |-> "none", slug |-> "none", copy |-> [s \in Slugs |-> NoSecret],
         stale |-> FALSE, fresh |-> 0, token |-> 0]

\* Each application has a secret, one of the time before there were tokens, or none.
SecretsInit ==
    /\ \E apps \in [Slugs -> {NoSecret, [uuid |-> 1, token |-> 0], [uuid |-> 1, token |-> 1]}] :
            file = [whole |-> TRUE, apps |-> apps] /\ kept = apps
    /\ env = [s \in Slugs |-> file.apps[s].token]
    /\ change = [a \in Actors |-> Idle]
    /\ minted = 1 /\ deaths = 0 /\ lost = FALSE /\ retired = {} /\ disturbed = {}

Does(a, step) == change[a].pc = step
Go(a, step) == change' = [change EXCEPT ![a] = IF step = "idle" THEN Idle ELSE [@ EXCEPT !.pc = step]]
Syncing(a, s) == change[a].slug = s /\ change[a].op \in {"rotate", "sync"}

-----------------------------------------------------------------------------
(* rotate_token and sync_dv_env in hr-orchestrator; provision, adopt and    *)
(* drop in the tool.                                                       *)

Start(a, op, s) ==
    /\ Does(a, "idle")
    /\ op \in {"save", "forget"} <=> a = Tool
    /\ minted < MaxMinted /\ minted' = minted + 1
    /\ change' = [change EXCEPT ![a] = [Idle EXCEPT !.pc = "load", !.op = op, !.slug = s, !.fresh = minted']]
    /\ disturbed' = disturbed \cup {x \in {s} :
            op \in {"save", "forget"} \/ \E b \in Actors \ {a} : change[b].slug = s}
    /\ UNCHANGED <<file, env, deaths, kept, lost, retired>>

\* Mutant: a rotation only notes the time.
Changed_KeepsToken(op, secret, fresh) ==
    CASE op = "rotate" -> secret
      [] op = "sync"   -> [uuid |-> secret.uuid, token |-> fresh]
      [] op = "save"   -> [uuid |-> fresh, token |-> fresh]
      [] op = "forget" -> NoSecret

\* The secret that a change makes of the one it has read.
Changed(op, secret, fresh) ==
    CASE op = "rotate" -> [uuid |-> IF secret.uuid = 0 THEN fresh ELSE secret.uuid, token |-> fresh]
      [] op = "sync"   -> [uuid |-> secret.uuid, token |-> fresh]
      [] op = "save"   -> [uuid |-> fresh, token |-> fresh]
      [] op = "forget" -> NoSecret

\* What a change does with the file it reads.  rotate_token and ensure_gateway_credentials go no
\* further with an unreadable file or without a secret; provision and adopt_existing take an
\* unreadable file for an empty one.
Load(a) ==
    LET r == change[a]  secret == file.apps[r.slug]  read == [r EXCEPT !.copy = file.apps] IN
    /\ Does(a, "load")
    /\ change' = [change EXCEPT ![a] =
            IF r.op = "save"
            THEN IF file.whole THEN [read EXCEPT !.pc = "empty"] ELSE [r EXCEPT !.pc = "empty", !.stale = TRUE]
            ELSE IF ~file.whole THEN Idle
            ELSE IF r.op = "forget" THEN [read EXCEPT !.pc = "empty"]
            ELSE IF secret = NoSecret THEN Idle
            ELSE IF r.op = "sync" /\ secret.token # 0
                 THEN [r EXCEPT !.pc = "envToken", !.token = secret.token]
                 ELSE [read EXCEPT !.pc = "empty"]]
    /\ disturbed' = disturbed \cup (IF file.whole THEN {} ELSE {r.slug})
    /\ UNCHANGED <<file, env, unwritten, deaths, lost>>

Empty(a) ==
    /\ Does(a, "empty")
    /\ file' = [file EXCEPT !.whole = FALSE]
    /\ change' = [b \in Actors |->
                  IF b = a THEN [change[a] EXCEPT !.pc = "fill"]
                  ELSE [change[b] EXCEPT !.stale = @ \/ change[b].pc \in {"empty", "fill"}]]
    /\ UNCHANGED <<env, unwritten, deaths, lost, disturbed>>

\* Mutant: a fresh secret for every application in the file.
Fill_All(a) ==
    LET r == change[a]  fresh == change[a].fresh IN
    /\ Does(a, "fill")
    /\ file' = [whole |-> TRUE, apps |-> [s \in Slugs |-> Changed(r.op, r.copy[s], fresh)]]
    /\ kept' = [kept EXCEPT ![r.slug] = Changed(r.op, @, fresh)]
    /\ retired' = retired \cup {<<r.slug, kept[r.slug].token>>}
    /\ lost' = (lost \/ r.stale)
    /\ change' = [change EXCEPT ![a] = IF a = Tool THEN Idle
                                 ELSE [@ EXCEPT !.pc = IF r.op = "rotate" THEN "again" ELSE "envToken",
                                                !.token = fresh]]
    /\ UNCHANGED <<env, minted, deaths, disturbed>>

\* A rotation goes on with sync_dv_env.
Fill(a) ==
    LET r == change[a]  fresh == change[a].fresh IN
    /\ Does(a, "fill")
    /\ file' = [whole |-> TRUE, apps |-> [r.copy EXCEPT ![r.slug] = Changed(r.op, @, fresh)]]
    /\ kept' = [kept EXCEPT ![r.slug] = Changed(r.op, @, fresh)]
    /\ retired' = retired \cup {<<r.slug, kept[r.slug].token>>}
    /\ lost' = (lost \/ r.stale)
    /\ change' = [change EXCEPT ![a] = IF a = Tool THEN Idle
                                 ELSE [@ EXCEPT !.pc = IF r.op = "rotate" THEN "again" ELSE "envToken",
                                                !.token = fresh]]
    /\ UNCHANGED <<env, minted, deaths, disturbed>>

\* The secret is read once more for the .env.
LoadAgain(a) ==
    LET s == change[a].slug IN
    /\ Does(a, "again")
    /\ IF file.whole /\ file.apps[s] # NoSecret
       THEN /\ change' = [change EXCEPT ![a].pc = "envToken", ![a].token = file.apps[s].token]
            /\ UNCHANGED disturbed
       ELSE Go(a, "idle") /\ disturbed' = disturbed \cup {s}
    /\ UNCHANGED <<file, env, unwritten, deaths, lost>>

-----------------------------------------------------------------------------
(* The .env: upsert_env_var for the token, and then for other variables,   *)
(* each of which reads the lines and writes them back.                     *)

\* Mutant: a variable that is there is left as it is.
EnvToken_Keeps(a) ==
    /\ Does(a, "envToken") /\ Go(a, "envRead")
    /\ env' = [env EXCEPT ![change[a].slug] = IF @ = 0 THEN change[a].token ELSE @]
    /\ UNCHANGED <<file, unwritten, deaths, lost, disturbed>>

EnvToken(a) ==
    /\ Does(a, "envToken") /\ Go(a, "envRead")
    /\ env' = [env EXCEPT ![change[a].slug] = change[a].token]
    /\ UNCHANGED <<file, unwritten, deaths, lost, disturbed>>

EnvRead(a) ==
    /\ Does(a, "envRead")
    /\ change' = [change EXCEPT ![a].pc = "envWrite", ![a].token = env[change[a].slug]]
    /\ UNCHANGED <<file, env, unwritten, deaths, lost, disturbed>>

EnvWrite(a) ==
    /\ Does(a, "envWrite") /\ Go(a, "idle")
    /\ env' = [env EXCEPT ![change[a].slug] = change[a].token]
    /\ UNCHANGED <<file, unwritten, deaths, lost, disturbed>>

-----------------------------------------------------------------------------
\* verify_token, for a token that is not empty.
Accepts(s, token) == file.whole /\ file.apps[s].token = token /\ token # 0

-----------------------------------------------------------------------------
\* hr-orchestrator or the tool dies, perhaps within a write.
Die(who) ==
    /\ deaths < MaxDeaths /\ deaths' = deaths + 1
    /\ change' = [a \in Actors |-> IF a \in who THEN Idle ELSE change[a]]
    /\ disturbed' = disturbed \cup {s \in Slugs : \E a \in who : Syncing(a, s)}
    /\ UNCHANGED <<file, env, unwritten, lost>>

SecretsNext ==
    \/ \E a \in Actors, s \in Slugs, op \in {"rotate", "sync", "save", "forget"} : Start(a, op, s)
    \/ \E a \in Actors :
        \/ Load(a) \/ Empty(a) \/ Fill(a) \/ LoadAgain(a)
        \/ EnvToken(a) \/ EnvRead(a) \/ EnvWrite(a)
    \/ Die(Requests) \/ Die({Tool})

SecretsSpec == SecretsInit /\ [][SecretsNext]_secretsVars

-----------------------------------------------------------------------------
Secrets == [uuid : 0..MaxMinted, token : 0..MaxMinted]

SecretsTypeOK ==
    /\ file.whole \in BOOLEAN /\ file.apps \in [Slugs -> Secrets] /\ kept \in [Slugs -> Secrets]
    /\ env \in [Slugs -> 0..MaxMinted] /\ minted \in 1..MaxMinted
    /\ \A a \in Actors : change[a].copy \in [Slugs -> Secrets] /\ change[a].token \in 0..MaxMinted
    /\ deaths \in 0..MaxDeaths /\ retired \subseteq Slugs \X (0..MaxMinted) /\ disturbed \subseteq Slugs

\* No application loses its secret to the change of another one, unless two changes overlapped: a
\* process that dies within a write leaves a file that nobody takes for whole.
SecretsStay == (file.whole /\ ~lost) => file.apps = kept

\* A rotated token is refused from the moment the new one is written, whatever else is going on, as
\* long as no stale copy of the file was written.
RetiredIsRefused == \A r \in retired : Accepts(r[1], r[2]) => lost

\* When its rotations and synchronisations are over, the .env of an application has the token that
\* the gateway accepts, unless two of them overlapped, one was cut off, or the tool changed the secret.
EnvOpensGateway ==
    \A s \in Slugs :
        (s \notin disturbed /\ file.whole /\ ~lost /\ ~\E a \in Actors : Syncing(a, s)) =>
            env[s] = file.apps[s].token

\* What the file of secrets promises to the applications and to the gateway.
SecretsHold == SecretsStay /\ RetiredIsRefused /\ EnvOpensGateway
=============================================================================
