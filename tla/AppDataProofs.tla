----------------------------- MODULE AppDataProofs -----------------------------
(***************************************************************************)
(* Proofs about two parts of an application's data that live in files.     *)
(* DataverseSecrets, for any applications, requests, changes and deaths:   *)
(* no secret is lost, revived or out of date; the inductive invariant has  *)
(* a part for each promise: whose copy of the file is the current one,     *)
(* which numbers have been given to whom, and what the .env of an          *)
(* application nobody disturbs has at each step of a change.  DocsIndex,   *)
(* for any calls, entries, texts, diagrams and faults: search answers what *)
(* the files say, and a start keeps them.                                  *)
(***************************************************************************)
EXTENDS DataverseSecrets, DocsIndex, TLAPS


Apps  == [Slugs -> Secrets]
Ops   == {"rotate", "sync", "save", "forget"}
Steps == {"idle", "load", "empty", "fill", "again", "envToken", "envRead", "envWrite"}
Records ==
    [pc : Steps, op : Ops \cup {"none"}, slug : Slugs \cup {"none"}, copy : Apps,
     stale : BOOLEAN, fresh : 0..MaxMinted, token : 0..MaxMinted]

Types ==
    /\ file \in [whole : BOOLEAN, apps : Apps] /\ kept \in Apps
    /\ env \in [Slugs -> 0..MaxMinted] /\ minted \in 1..MaxMinted
    /\ change \in [Actors -> Records]
    /\ deaths \in 0..MaxDeaths /\ lost \in BOOLEAN
    /\ retired \subseteq Slugs \X (0..MaxMinted) /\ disturbed \subseteq Slugs

\* A change that is under way has an application; only the tool saves and forgets.
Engaged ==
    \A a \in Actors : change[a].pc # "idle" =>
        /\ change[a].slug \in Slugs /\ change[a].op \in Ops
        /\ change[a].op \in {"save", "forget"} <=> a = Tool

Writing(a) == change[a].pc \in {"empty", "fill"} /\ ~change[a].stale

\* A copy that is not stale is the current one, and who is between the halves of its write is the
\* only one with such a copy.
Copies ==
    ~lost =>
        /\ file.whole => file.apps = kept
        /\ \A a \in Actors : Writing(a) => change[a].copy = kept
        /\ \A a \in Actors : (Writing(a) /\ change[a].pc = "fill") =>
                ~file.whole /\ \A b \in Actors \ {a} : ~Writing(b)

Asking(a) == change[a].pc \in {"load", "empty", "fill"}

\* The number of a change that has not been written is nobody else's.
Unused(a) ==
    /\ change[a].fresh # 0
    /\ \A s \in Slugs : kept[s].token # change[a].fresh /\ <<s, change[a].fresh>> \notin retired
    /\ \A b \in Actors \ {a} : Asking(b) => change[b].fresh # change[a].fresh

Numbers ==
    /\ \A s \in Slugs : kept[s].token <= minted
    /\ \A s \in Slugs, t \in 0..MaxMinted : <<s, t>> \in retired => t <= minted
    /\ \A a \in Actors : change[a].fresh <= minted
    /\ \A a \in Actors : Asking(a) => Unused(a)

\* What a rotation has replaced is not the token again.
Gone == \A s \in Slugs : <<s, kept[s].token>> \in retired => kept[s].token = 0

Busy(a, s) == change[a].pc # "idle" /\ change[a].slug = s

\* Before the new secret is written and between the writes of the .env, the .env has the token; when
\* it is about to be written, the token is at hand.
Carries(a, s) ==
    /\ change[a].pc \in {"load", "empty", "fill", "envRead"} => env[s] = kept[s].token
    /\ change[a].pc \in {"envToken", "envWrite"} => change[a].token = kept[s].token

Envs ==
    ~lost => \A s \in Slugs \ disturbed :
        /\ \A a, b \in Actors : Busy(a, s) /\ Busy(b, s) => a = b
        /\ \A a \in Actors : Busy(a, s) => change[a].op \in {"rotate", "sync"} /\ Carries(a, s)
        /\ (\A a \in Actors : ~Busy(a, s)) => env[s] = kept[s].token

IInv == Types /\ Engaged /\ Copies /\ Numbers /\ Gone /\ Envs

-----------------------------------------------------------------------------
\* The record of nobody is a record of calls.
LEMMA IdleType ==
    ASSUME MaxMinted \in Nat PROVE Idle \in Records
<1>1. NoSecret \in Secrets
  BY DEF NoSecret, Secrets
<1> QED
  BY <1>1 DEF Idle, Records, Steps, Ops, Apps

\* A changed record of calls is still one.
LEMMA ChangedType ==
    ASSUME MaxMinted \in Nat, NEW op \in Ops, NEW secret \in Secrets, NEW fresh \in 0..MaxMinted
    PROVE  /\ Changed(op, secret, fresh) \in Secrets
           /\ Changed(op, secret, fresh).token = IF op = "forget" THEN 0 ELSE fresh
  BY DEF Changed, Secrets, NoSecret, Ops

\* The secrets hold wherever the invariant does.
LEMMA InvHolds ==
    ASSUME MaxMinted \in Nat \ {0}, MaxDeaths \in Nat, IInv
    PROVE  SecretsTypeOK /\ SecretsHold
<1>1. SecretsTypeOK
  BY DEF IInv, Types, SecretsTypeOK, Records, Apps
<1>2. SecretsStay
  BY DEF IInv, Copies, SecretsStay
<1>3. RetiredIsRefused
  <2> SUFFICES ASSUME NEW r \in retired, Accepts(r[1], r[2]), ~lost
               PROVE  FALSE
    BY DEF RetiredIsRefused, IInv, Types
  <2>1. r[1] \in Slugs /\ r[2] \in 0..MaxMinted /\ r = <<r[1], r[2]>>
    BY DEF IInv, Types
  <2>2. kept[r[1]].token = r[2] /\ r[2] # 0
    BY <1>2 DEF Accepts, SecretsStay
  <2> QED
    BY <2>1, <2>2 DEF IInv, Gone
<1>4. EnvOpensGateway
  <2> SUFFICES ASSUME NEW s \in Slugs, s \notin disturbed, file.whole, ~lost,
                      ~\E a \in Actors : Syncing(a, s)
               PROVE  env[s] = kept[s].token
    BY <1>2 DEF EnvOpensGateway, SecretsStay
  <2>1. \A a \in Actors : ~Busy(a, s)
    BY DEF IInv, Envs, Syncing, Busy
  <2> QED
    BY <2>1 DEF IInv, Envs
<1> QED
  BY <1>1, <1>2, <1>3, <1>4 DEF SecretsHold

\* The invariant of the secrets holds at first.
LEMMA InitInv ==
    ASSUME MaxMinted \in Nat \ {0}, MaxDeaths \in Nat, SecretsInit PROVE IInv
<1>1. PICK apps \in [Slugs -> {NoSecret, [uuid |-> 1, token |-> 0], [uuid |-> 1, token |-> 1]}] :
        file = [whole |-> TRUE, apps |-> apps] /\ kept = apps
  BY DEF SecretsInit
<1>2. apps \in Apps /\ \A s \in Slugs : apps[s].token \in 0..1
  BY <1>1 DEF Apps, Secrets, NoSecret
<1>3. \A a \in Actors : change[a] = Idle /\ change[a].pc = "idle" /\ change[a].fresh = 0
  BY DEF SecretsInit, Idle
<1>4. env = [s \in Slugs |-> kept[s].token]
  BY <1>1 DEF SecretsInit
<1>5. Types
  <2>1. env \in [Slugs -> 0..MaxMinted]
    BY <1>1, <1>2, <1>4 DEF Apps
  <2>2. change \in [Actors -> Records]
    BY IdleType DEF SecretsInit
  <2> QED
    BY <1>1, <1>2, <2>1, <2>2, 1 \in 1..MaxMinted, 0 \in 0..MaxDeaths DEF SecretsInit, Types
<1> QED
  BY <1>1, <1>2, <1>3, <1>4, <1>5
     DEF SecretsInit, IInv, Engaged, Copies, Writing, Numbers, Asking, Gone, Envs, Busy

-----------------------------------------------------------------------------
(* One lemma per action.  In each of them the invariant's parts come in    *)
(* their order; what is said of the other actors is what was said before.  *)

\* A step of one change: it stays with its application and its number or is over, and of the others
\* it alters at most whether their copies are stale.
Onward(a) ==
    /\ change[a].pc # "idle"
    /\ \A b \in Actors \ {a} :
            /\ change'[b].pc = change[b].pc /\ change'[b].slug = change[b].slug
            /\ change'[b].op = change[b].op /\ change'[b].token = change[b].token
            /\ change'[b].fresh = change[b].fresh
    /\ \/ change'[a].pc = "idle"
       \/ change'[a].slug = change[a].slug /\ change'[a].op = change[a].op
    /\ change'[a].fresh \in {0, change[a].fresh}

\* A call that goes on stays engaged with its application.
LEMMA OnwardKeepsEngaged ==
    ASSUME NEW a \in Actors, Engaged, Onward(a)
    PROVE  Engaged'
  BY DEF Engaged, Onward

\* What is left to show about the .env is what the step makes of its own application.
LEMMA OnwardKeepsEnvs ==
    ASSUME NEW a \in Actors, Engaged, Envs, Onward(a),
           disturbed \subseteq disturbed', lost => lost',
           \A x \in Slugs : x # change[a].slug => env'[x] = env[x] /\ kept'[x] = kept[x],
           ~lost' /\ change[a].slug \notin disturbed' =>
                IF change'[a].pc = "idle"
                THEN env'[change[a].slug] = kept'[change[a].slug].token
                ELSE Carries(a, change[a].slug)'
    PROVE  Envs'
<1> SUFFICES ASSUME ~lost', NEW x \in Slugs \ disturbed'
             PROVE  /\ \A b, c \in Actors : Busy(b, x)' /\ Busy(c, x)' => b = c
                    /\ \A b \in Actors : Busy(b, x)' =>
                          change'[b].op \in {"rotate", "sync"} /\ Carries(b, x)'
                    /\ (\A b \in Actors : ~Busy(b, x)') => env'[x] = kept'[x].token
  BY DEF Envs
<1>1. x \in Slugs \ disturbed /\ ~lost
  OBVIOUS
<1>2. \A b \in Actors : Busy(b, x)' => Busy(b, x) /\ change'[b].op = change[b].op
  BY DEF Onward, Busy
<1>3. \A b, c \in Actors : Busy(b, x) /\ Busy(c, x) => b = c
  BY <1>1 DEF Envs
<1>4. \A b \in Actors : Busy(b, x) => change[b].op \in {"rotate", "sync"} /\ Carries(b, x)
  BY <1>1 DEF Envs
<1>5. CASE x = change[a].slug
  <2>1. Busy(a, x) /\ \A b \in Actors \ {a} : ~Busy(b, x)
    BY <1>3, <1>5 DEF Onward, Busy
  <2> QED
    BY <1>2, <1>3, <1>4, <1>5, <2>1 DEF Onward, Busy
<1>6. CASE x # change[a].slug
  <2>1. env'[x] = env[x] /\ kept'[x] = kept[x] /\ ~Busy(a, x) /\ ~Busy(a, x)'
    BY <1>2, <1>6 DEF Busy
  <2>2. \A b \in Actors \ {a} : (Busy(b, x)' <=> Busy(b, x)) /\ (Carries(b, x)' <=> Carries(b, x))
    BY <2>1 DEF Onward, Busy, Carries
  <2>3. (\A b \in Actors : ~Busy(b, x)) => env[x] = kept[x].token
    BY <1>1 DEF Envs
  <2> QED
    BY <1>2, <1>3, <1>4, <2>1, <2>2, <2>3
<1> QED
  BY <1>5, <1>6

\* Where nothing is written, no number is used.
LEMMA OnwardKeepsNumbers ==
    ASSUME MaxMinted \in Nat, NEW a \in Actors, Types, Numbers, Gone, Onward(a),
           UNCHANGED unwritten, Asking(a)' => Asking(a) /\ change'[a].fresh = change[a].fresh
    PROVE  Numbers' /\ Gone'
<1>1. minted \in Nat /\ UNCHANGED <<minted, kept, retired>>
  BY DEF Types, unwritten
<1>2. \A b \in Actors : change'[b].fresh <= minted
  BY <1>1 DEF Onward, Numbers
<1>3. \A b \in Actors : Asking(b)' => Asking(b) /\ change'[b].fresh = change[b].fresh
  BY DEF Onward, Asking
<1>4. \A b \in Actors : Asking(b)' => Unused(b)'
  <2> SUFFICES ASSUME NEW b \in Actors, Asking(b)' PROVE Unused(b)'
    OBVIOUS
  <2>1. Unused(b) /\ change'[b].fresh = change[b].fresh
    BY <1>3 DEF Numbers
  <2> QED
    BY <1>1, <1>3, <2>1 DEF Unused
<1> QED
  BY <1>1, <1>2, <1>4 DEF Numbers, Gone

\* A request begins.
LEMMA StartStep ==
    ASSUME MaxMinted \in Nat \ {0}, NEW a \in Actors, NEW s \in Slugs, NEW op \in Ops,
           IInv, Start(a, op, s)
    PROVE  IInv'
<1> DEFINE r == [Idle EXCEPT !.pc = "load", !.op = op, !.slug = s, !.fresh = minted']
<1>1. minted' = minted + 1 /\ minted' \in 1..MaxMinted /\ minted \in Nat
  BY DEF Start, IInv, Types
<1>2. /\ r \in Records /\ r.pc = "load" /\ r.op = op /\ r.slug = s
      /\ r.fresh = minted' /\ r.stale = FALSE
  <2>1. Idle \in Records /\ Idle.stale = FALSE
    BY IdleType DEF Idle
  <2>2. minted' \in 0..MaxMinted /\ op \in Ops \cup {"none"} /\ s \in Slugs \cup {"none"}
    BY <1>1
  <2> QED
    BY <2>1, <2>2 DEF Records, Steps
<1> HIDE DEF r
<1>3. /\ change[a].pc = "idle" /\ (op \in {"save", "forget"} <=> a = Tool)
      /\ change' = [change EXCEPT ![a] = r]
      /\ disturbed' = disturbed \cup {x \in {s} :
            op \in {"save", "forget"} \/ \E b \in Actors \ {a} : change[b].slug = s}
      /\ UNCHANGED <<file, env, deaths, kept, lost, retired>>
  BY DEF Start, Does, unwritten, r
<1>4. change'[a] = r /\ \A b \in Actors \ {a} : change'[b] = change[b]
  BY <1>3 DEF IInv, Types
<1>5. Types'
  BY <1>1, <1>2, <1>3 DEF IInv, Types
<1>6. Engaged'
  BY <1>2, <1>3, <1>4 DEF IInv, Engaged
<1>7. Copies'
  BY <1>2, <1>3, <1>4 DEF IInv, Copies, Writing
<1>8. Numbers'
  <2>1. /\ \A x \in Slugs : kept'[x].token <= minted'
        /\ \A x \in Slugs, t \in 0..MaxMinted : <<x, t>> \in retired' => t <= minted'
        /\ \A b \in Actors : change'[b].fresh <= minted'
    <3>1. \A x \in Slugs : kept[x].token \in Nat
      BY DEF IInv, Types, Apps, Secrets
    <3>2. \A b \in Actors : change[b].fresh \in Nat
      BY DEF IInv, Types, Records
    <3> QED
      BY <1>1, <1>2, <1>3, <1>4, <3>1, <3>2 DEF IInv, Numbers
  <2>2. Unused(a)'
    <3>1. \A x \in Slugs : kept[x].token \in Nat
      BY DEF IInv, Types, Apps, Secrets
    <3>2. \A b \in Actors : change[b].fresh \in Nat
      BY DEF IInv, Types, Records
    <3>3. minted' \in 0..MaxMinted
      BY <1>1
    <3> QED
      BY <1>1, <1>2, <1>3, <1>4, <3>1, <3>2, <3>3 DEF IInv, Numbers, Unused
  <2>3. ASSUME NEW b \in Actors \ {a}, Asking(b)' PROVE Unused(b)'
    <3>1. change'[b].fresh # change'[a].fresh
      <4>1. change[b].fresh \in Nat
        BY DEF IInv, Types, Records
      <4> QED
        BY <1>1, <1>2, <1>4, <4>1 DEF IInv, Numbers
    <3> QED
      BY <1>3, <1>4, <2>3, <3>1 DEF IInv, Numbers, Unused, Asking
  <2> QED
    BY <2>1, <2>2, <2>3 DEF Numbers
<1>9. Gone'
  BY <1>3 DEF IInv, Gone
<1>10. Envs'
  <2> SUFFICES ASSUME ~lost, NEW x \in Slugs \ disturbed'
               PROVE  /\ \A b, c \in Actors : Busy(b, x)' /\ Busy(c, x)' => b = c
                      /\ \A b \in Actors : Busy(b, x)' =>
                            change'[b].op \in {"rotate", "sync"} /\ Carries(b, x)'
                      /\ (\A b \in Actors : ~Busy(b, x)') => env'[x] = kept'[x].token
    BY <1>3 DEF Envs
  <2>1. x \in Slugs \ disturbed
    BY <1>3
  <2>2. CASE x = s
    <3>1. op \in {"rotate", "sync"} /\ \A b \in Actors \ {a} : ~Busy(b, x)
      BY <1>3, <2>2 DEF Busy, Ops
    <3>2. env[x] = kept[x].token
      BY <1>3, <2>1, <3>1 DEF IInv, Envs, Busy
    <3> QED
      BY <1>2, <1>3, <1>4, <2>2, <3>1, <3>2 DEF Busy, Carries
  <2>3. CASE x # s
    <3>1. \A b \in Actors : Busy(b, x)' <=> Busy(b, x)
      BY <1>2, <1>3, <1>4, <2>3 DEF Busy
    <3>2. \A b \in Actors : Busy(b, x) => change'[b] = change[b]
      BY <1>3, <1>4 DEF Busy
    <3> QED
      BY <1>3, <2>1, <3>1, <3>2 DEF IInv, Envs, Carries
  <2> QED
    BY <2>2, <2>3
<1> QED
  BY <1>5, <1>6, <1>7, <1>8, <1>9, <1>10 DEF IInv

\* The record file is read.
LEMMA LoadStep ==
    ASSUME MaxMinted \in Nat \ {0}, NEW a \in Actors, IInv, Load(a)
    PROVE  IInv'
<1> DEFINE r == change[a]
           s == change[a].slug
<1>1. /\ r \in Records /\ r.pc = "load" /\ s \in Slugs /\ file.apps \in Apps
      /\ UNCHANGED <<file, env, unwritten, minted, kept, retired, deaths, lost>>
      /\ disturbed' = disturbed \cup (IF file.whole THEN {} ELSE {s})
  BY DEF Load, Does, IInv, Types, Engaged, unwritten
<1>2. PICK q : change' = [change EXCEPT ![a] = q] /\
        \/ q = Idle /\ (file.whole => r.op # "save" /\ file.apps[s] = NoSecret)
        \/ file.whole /\ q = [r EXCEPT !.copy = file.apps, !.pc = "empty"]
        \/ ~file.whole /\ q = [r EXCEPT !.pc = "empty", !.stale = TRUE] /\ r.op = "save"
        \/ file.whole /\ q = [r EXCEPT !.pc = "envToken", !.token = file.apps[s].token]
  BY DEF Load
<1>3. change'[a] = q /\ \A b \in Actors \ {a} : change'[b] = change[b]
  BY <1>2 DEF IInv, Types
<1>4. /\ q \in Records /\ q.pc \in {"idle", "empty", "envToken"} /\ q.fresh \in {0, r.fresh}
      /\ q.pc = "idle" \/ (q.slug = s /\ q.op = r.op)
      /\ q.pc = "empty" => q.fresh = r.fresh
      /\ q.pc = "empty" /\ ~q.stale => file.whole /\ q.copy = file.apps
      /\ q.pc = "envToken" => file.whole /\ q.token = file.apps[s].token
      /\ q.pc = "idle" => q = Idle
  <2>1. CASE q = Idle
    BY <2>1, IdleType DEF Idle
  <2>2. CASE file.whole /\ q = [r EXCEPT !.copy = file.apps, !.pc = "empty"]
    BY <1>1, <2>2 DEF Records, Steps
  <2>3. CASE q = [r EXCEPT !.pc = "empty", !.stale = TRUE]
    BY <1>1, <2>3 DEF Records, Steps
  <2>4. CASE file.whole /\ q = [r EXCEPT !.pc = "envToken", !.token = file.apps[s].token]
    <3>1. file.apps[s].token \in 0..MaxMinted
      BY <1>1 DEF Apps, Secrets
    <3> QED
      BY <1>1, <2>4, <3>1 DEF Records, Steps
  <2> QED
    BY <1>2, <2>1, <2>2, <2>3, <2>4
<1>4a. Onward(a)
  BY <1>1, <1>3, <1>4 DEF Onward
<1>5. Types'
  BY <1>1, <1>2, <1>4 DEF IInv, Types
<1>6. Copies'
  <2> SUFFICES ASSUME ~lost PROVE Copies'
    BY <1>1 DEF Copies
  <2>1. Writing(a)' => file.whole /\ q.copy = kept /\ q.pc = "empty"
    BY <1>1, <1>3, <1>4 DEF IInv, Copies, Writing
  <2> QED
    BY <1>1, <1>3, <1>4, <2>1 DEF IInv, Copies, Writing
<1>7. Numbers' /\ Gone'
  BY <1>1, <1>3, <1>4, <1>4a, OnwardKeepsNumbers DEF IInv, Asking
<1>8. Envs'
  <2>1. ~lost' /\ s \notin disturbed' =>
            /\ env[s] = kept[s].token /\ file.whole /\ file.apps = kept /\ r.op \in {"rotate", "sync"}
    BY <1>1 DEF IInv, Envs, Busy, Carries, Copies
  <2>2. ~lost' /\ s \notin disturbed' =>
            IF q.pc = "idle" THEN env'[s] = kept'[s].token ELSE Carries(a, s)'
    BY <1>1, <1>3, <1>4, <2>1 DEF Carries
  <2> QED
    BY <1>1, <1>3, <1>4a, <2>2, OnwardKeepsEnvs DEF IInv
<1> QED
  BY <1>4a, <1>5, <1>6, <1>7, <1>8, OnwardKeepsEngaged DEF IInv

\* The file is truncated to be written.
LEMMA EmptyStep ==
    ASSUME MaxMinted \in Nat \ {0}, NEW a \in Actors, IInv, Empty(a)
    PROVE  IInv'
<1>1. /\ change[a].pc = "empty" /\ file' = [file EXCEPT !.whole = FALSE]
      /\ UNCHANGED <<env, unwritten, minted, kept, retired, deaths, lost, disturbed>>
      /\ change' = [b \in Actors |->
                        IF b = a THEN [change[a] EXCEPT !.pc = "fill"]
                        ELSE [change[b] EXCEPT !.stale = @ \/ change[b].pc \in {"empty", "fill"}]]
  BY DEF Empty, Does, unwritten
<1>2. /\ change'[a] = [change[a] EXCEPT !.pc = "fill"]
      /\ \A b \in Actors \ {a} : change'[b] =
                [change[b] EXCEPT !.stale = @ \/ change[b].pc \in {"empty", "fill"}]
  BY <1>1
<1>3. \A b \in Actors : change[b] \in Records
  BY DEF IInv, Types
<1>4. \A b \in Actors : change'[b] \in Records
  <2>1. change'[a] \in Records
    BY <1>2, <1>3 DEF Records, Steps
  <2>2. \A b \in Actors \ {a} : change'[b] \in Records
    <3> SUFFICES ASSUME NEW b \in Actors \ {a} PROVE change'[b] \in Records
      OBVIOUS
    <3>1. change'[b] = [change[b] EXCEPT !.stale = change[b].stale \/ change[b].pc \in {"empty", "fill"}]
      BY <1>2
    <3> QED
      BY <1>3, <3>1 DEF Records
  <2> QED
    BY <2>1, <2>2
<1>5. Types'
  BY <1>1, <1>4 DEF IInv, Types
<1>6. Onward(a) /\ change'[a].fresh = change[a].fresh /\ change'[a].pc = "fill"
  BY <1>1, <1>2, <1>3 DEF Onward, Records
<1>7. Copies'
  <2>1. \A b \in Actors \ {a} : ~Writing(b)'
    BY <1>2, <1>3 DEF Writing, Records
  <2>2. Writing(a)' => Writing(a) /\ change'[a].copy = change[a].copy
    BY <1>1, <1>2, <1>3 DEF Writing, Records
  <2>3. file'.whole = FALSE
    BY <1>1 DEF IInv, Types
  <2> QED
    BY <1>1, <2>1, <2>2, <2>3 DEF IInv, Copies
<1>8. Numbers' /\ Gone'
  BY <1>1, <1>6, OnwardKeepsNumbers DEF IInv, Asking
<1>9. Envs'
  <2>1. ~lost' /\ change[a].slug \notin disturbed' => Carries(a, change[a].slug)'
    <3>1. Engaged /\ change[a].slug \in Slugs
      BY <1>1 DEF IInv, Engaged
    <3>2. ~lost /\ change[a].slug \notin disturbed => env[change[a].slug] = kept[change[a].slug].token
      BY <1>1, <3>1 DEF IInv, Envs, Busy, Carries
    <3> QED
      BY <1>1, <1>6, <3>2 DEF Onward, Carries
  <2> QED
    BY <1>1, <1>6, <2>1, OnwardKeepsEnvs DEF IInv
<1> QED
  BY <1>5, <1>6, <1>7, <1>8, <1>9, OnwardKeepsEngaged DEF IInv

\* The file receives its new text.
LEMMA FillStep ==
    ASSUME MaxMinted \in Nat \ {0}, NEW a \in Actors, IInv, Fill(a)
    PROVE  IInv'
<1> DEFINE r == change[a]
           s == change[a].slug
           new == Changed(r.op, kept[s], r.fresh)
           q == IF a = Tool THEN Idle
                ELSE [r EXCEPT !.pc = IF r.op = "rotate" THEN "again" ELSE "envToken", !.token = r.fresh]
<1>1. /\ r \in Records /\ r.pc = "fill" /\ s \in Slugs /\ r.op \in Ops /\ r.fresh \in 0..MaxMinted
      /\ r.copy \in Apps /\ kept \in Apps /\ (r.op \in {"save", "forget"} <=> a = Tool)
  BY DEF Fill, Does, IInv, Types, Engaged, Records
<1>2. /\ file' = [whole |-> TRUE, apps |-> [r.copy EXCEPT ![s] = Changed(r.op, @, r.fresh)]]
      /\ kept' = [kept EXCEPT ![s] = new]
      /\ retired' = retired \cup {<<s, kept[s].token>>}
      /\ lost' = (lost \/ r.stale)
      /\ change' = [change EXCEPT ![a] = q]
      /\ UNCHANGED <<env, minted, deaths, disturbed>>
  BY DEF Fill
<1>3. change'[a] = q /\ \A b \in Actors \ {a} : change'[b] = change[b]
  BY <1>2 DEF IInv, Types
<1>4. /\ q \in Records /\ q.pc \in {"idle", "again", "envToken"} /\ q.fresh \in {0, r.fresh}
      /\ q.pc = "idle" \/ (q.slug = s /\ q.op = r.op /\ q.token = r.fresh)
      /\ q.pc = "idle" <=> a = Tool
  BY <1>1, IdleType DEF Records, Steps, Idle
<1>5. Onward(a)
  BY <1>1, <1>3, <1>4 DEF Onward
<1>6. /\ kept[s] \in Secrets /\ kept[s].token \in 0..MaxMinted /\ r.copy[s] \in Secrets
      /\ new \in Secrets /\ new.token = (IF r.op = "forget" THEN 0 ELSE r.fresh)
      /\ Changed(r.op, r.copy[s], r.fresh) \in Secrets
  <2>1. kept[s] \in Secrets /\ r.copy[s] \in Secrets
    BY <1>1 DEF Apps
  <2>2. kept[s].token \in 0..MaxMinted
    BY <2>1 DEF Secrets
  <2> QED
    BY <1>1, <2>1, <2>2, ChangedType
<1> HIDE DEF new, q
<1>7. Types'
  <2>1. file' \in [whole : BOOLEAN, apps : Apps] /\ kept' \in Apps
    BY <1>1, <1>2, <1>6 DEF Apps
  <2>2. lost' \in BOOLEAN
    BY <1>1, <1>2 DEF IInv, Types, Records
  <2>3. retired' \subseteq Slugs \X (0..MaxMinted)
    BY <1>1, <1>2, <1>6 DEF IInv, Types
  <2> QED
    BY <1>2, <1>4, <2>1, <2>2, <2>3 DEF IInv, Types
<1>8. Copies'
  <2> SUFFICES ASSUME ~lost, ~r.stale PROVE Copies'
    BY <1>2 DEF Copies
  <2>1. r.copy = kept /\ \A b \in Actors \ {a} : ~Writing(b)
    BY <1>1 DEF IInv, Copies, Writing
  <2>2. file'.apps = kept'
    BY <1>2, <2>1 DEF new
  <2>3. \A b \in Actors : ~Writing(b)'
    BY <1>3, <1>4, <2>1 DEF Writing
  <2> QED
    BY <2>2, <2>3 DEF Copies
<1>9. Unused(a) /\ minted \in Nat /\ r.fresh <= minted /\ r.fresh # 0
  BY <1>1 DEF IInv, Types, Numbers, Asking, Unused
<1>10. \A x \in Slugs : kept'[x].token = IF x = s THEN new.token ELSE kept[x].token
  BY <1>1, <1>2 DEF Apps
<1>11. Numbers'
  <2>1. \A x \in Slugs : kept'[x].token <= minted'
    BY <1>1, <1>2, <1>6, <1>9, <1>10 DEF IInv, Numbers
  <2>2. \A x \in Slugs, t \in 0..MaxMinted : <<x, t>> \in retired' => t <= minted'
    BY <1>1, <1>2 DEF IInv, Numbers
  <2>3. \A b \in Actors : change'[b].fresh <= minted'
    BY <1>2, <1>3, <1>4, <1>9 DEF IInv, Numbers
  <2>4. ASSUME NEW b \in Actors, Asking(b)' PROVE Unused(b)'
    <3>1. b # a /\ Asking(b) /\ change'[b].fresh = change[b].fresh
      BY <1>3, <1>4, <2>4 DEF Asking
    <3>2. Unused(b)
      BY <3>1 DEF IInv, Numbers
    <3>3. change[b].fresh # r.fresh /\ change[b].fresh # kept[s].token /\ change[b].fresh # 0
      BY <1>1, <3>1, <3>2 DEF Unused, Asking
    <3>4. \A x \in Slugs : kept'[x].token # change'[b].fresh /\ <<x, change'[b].fresh>> \notin retired'
      BY <1>2, <1>6, <1>10, <3>1, <3>2, <3>3 DEF Unused
    <3>5. \A c \in Actors \ {b} : Asking(c)' => change'[c].fresh # change'[b].fresh
      BY <1>3, <1>4, <3>1, <3>2 DEF Unused, Asking
    <3> QED
      BY <3>1, <3>3, <3>4, <3>5 DEF Unused
  <2> QED
    BY <2>1, <2>2, <2>3, <2>4 DEF Numbers
<1>12. Gone'
  <2> SUFFICES ASSUME NEW x \in Slugs, <<x, kept'[x].token>> \in retired' PROVE kept'[x].token = 0
    BY DEF Gone
  <2>1. CASE x = s
    BY <1>2, <1>6, <1>9, <1>10, <2>1 DEF Unused
  <2>2. CASE x # s
    BY <1>2, <1>10, <2>2 DEF IInv, Gone
  <2> QED
    BY <2>1, <2>2
<1>13. Envs'
  <2>1. s \notin disturbed /\ ~lost => r.op \in {"rotate", "sync"}
    BY <1>1 DEF IInv, Envs, Busy
  <2>2. ~lost' /\ s \notin disturbed' => q.pc # "idle" /\ Carries(a, s)'
    <3>1. ~lost' /\ s \notin disturbed' => a # Tool /\ q.pc \in {"again", "envToken"} /\ q.token = r.fresh
      BY <1>1, <1>2, <1>4, <2>1
    <3>2. ~lost' /\ s \notin disturbed' => kept'[s].token = r.fresh
      BY <1>1, <1>2, <1>6, <1>10, <2>1
    <3> QED
      BY <1>3, <1>4, <3>1, <3>2 DEF Carries
  <2>3. \A x \in Slugs : x # s => env'[x] = env[x] /\ kept'[x] = kept[x]
    BY <1>1, <1>2 DEF Apps
  <2>4. lost => lost'
    BY <1>2
  <2> QED
    BY <1>2, <1>3, <1>5, <2>2, <2>3, <2>4, OnwardKeepsEnvs DEF IInv
<1> QED
  BY <1>5, <1>7, <1>8, <1>11, <1>12, <1>13, OnwardKeepsEngaged DEF IInv

\* The steps after the file is written, which leave it and the copies of it alone.
LEMMA AfterKeepsCopies ==
    ASSUME NEW a \in Actors, Copies, UNCHANGED <<file, kept, lost>>, ~Writing(a)',
           \A b \in Actors \ {a} : change'[b] = change[b]
    PROVE  Copies'
  BY DEF Copies, Writing

\* The record file is read once more.
LEMMA LoadAgainStep ==
    ASSUME MaxMinted \in Nat \ {0}, NEW a \in Actors, IInv, LoadAgain(a)
    PROVE  IInv'
<1> DEFINE r == change[a]
           s == change[a].slug
<1>1. /\ r \in Records /\ r.pc = "again" /\ s \in Slugs /\ file.apps \in Apps
      /\ UNCHANGED <<file, env, unwritten, minted, kept, retired, deaths, lost>>
  BY DEF LoadAgain, Does, IInv, Types, Engaged, unwritten
<1>2. PICK q : change' = [change EXCEPT ![a] = q] /\
        \/ /\ file.whole /\ q = [r EXCEPT !.pc = "envToken", !.token = file.apps[s].token]
           /\ disturbed' = disturbed
        \/ q = Idle /\ disturbed' = disturbed \cup {s}
  <2>1. CASE file.whole /\ file.apps[s] # NoSecret
    <3>1. change' = [change EXCEPT ![a] = [r EXCEPT !.pc = "envToken", !.token = file.apps[s].token]]
      BY <2>1 DEF LoadAgain, IInv, Types
    <3> QED
      BY <2>1, <3>1 DEF LoadAgain
  <2>2. CASE ~(file.whole /\ file.apps[s] # NoSecret)
    BY <2>2 DEF LoadAgain, Go
  <2> QED
    BY <2>1, <2>2
<1>3. change'[a] = q /\ \A b \in Actors \ {a} : change'[b] = change[b]
  BY <1>2 DEF IInv, Types
<1>4. /\ q \in Records /\ q.pc \in {"idle", "envToken"} /\ q.fresh \in {0, r.fresh}
      /\ q.pc = "idle" => s \in disturbed'
      /\ q.pc = "envToken" =>
            q.slug = s /\ q.op = r.op /\ file.whole /\ q.token = file.apps[s].token
      /\ disturbed \subseteq disturbed' /\ disturbed' \subseteq disturbed \cup {s}
  <2>1. CASE q = Idle /\ disturbed' = disturbed \cup {s}
    BY <2>1, IdleType DEF Idle
  <2>2. CASE /\ file.whole /\ q = [r EXCEPT !.pc = "envToken", !.token = file.apps[s].token]
             /\ disturbed' = disturbed
    <3>1. file.apps[s].token \in 0..MaxMinted
      BY <1>1 DEF Apps, Secrets
    <3> QED
      BY <1>1, <2>2, <3>1 DEF Records, Steps
  <2> QED
    BY <1>2, <2>1, <2>2
<1>4a. Onward(a)
  BY <1>1, <1>3, <1>4 DEF Onward
<1>5. Types'
  BY <1>1, <1>2, <1>4 DEF IInv, Types
<1>6. Copies'
  BY <1>1, <1>3, <1>4, AfterKeepsCopies DEF IInv, Writing
<1>7. Numbers' /\ Gone'
  BY <1>1, <1>3, <1>4, <1>4a, OnwardKeepsNumbers DEF IInv, Asking
<1>8. Envs'
  <2>1. ~lost' /\ s \notin disturbed' =>
            q.pc = "envToken" /\ Carries(a, s)'
    BY <1>1, <1>3, <1>4 DEF IInv, Copies, Carries
  <2> QED
    BY <1>1, <1>3, <1>4, <1>4a, <2>1, OnwardKeepsEnvs DEF IInv
<1> QED
  BY <1>4a, <1>5, <1>6, <1>7, <1>8, OnwardKeepsEngaged DEF IInv

\* What the three steps on the .env have in common.
LEMMA EnvSteps ==
    ASSUME MaxMinted \in Nat \ {0}, NEW a \in Actors, IInv,
           NEW q \in Records, q.pc \in {"idle", "envRead", "envWrite"}, q.fresh \in {0, change[a].fresh},
           q.pc = "idle" \/ (q.slug = change[a].slug /\ q.op = change[a].op),
           change[a].pc # "idle", change' = [change EXCEPT ![a] = q],
           NEW t \in 0..MaxMinted, env' = [env EXCEPT ![change[a].slug] = t],
           UNCHANGED <<file, unwritten, deaths, lost, disturbed>>,
           ~lost /\ change[a].slug \notin disturbed =>
                /\ t = kept[change[a].slug].token
                /\ q.pc = "envWrite" => q.token = t
    PROVE  IInv'
<1> DEFINE s == change[a].slug
<1>1. change'[a] = q /\ (\A b \in Actors \ {a} : change'[b] = change[b]) /\ s \in Slugs
  BY DEF IInv, Types, Engaged
<1>2. UNCHANGED <<minted, kept, retired>>
  BY DEF unwritten
<1>3. Onward(a)
  BY <1>1 DEF Onward
<1>4. Types'
  BY <1>1, <1>2 DEF IInv, Types
<1>5. Copies'
  BY <1>1, <1>2, AfterKeepsCopies DEF IInv, Writing
<1>6. Numbers' /\ Gone'
  BY <1>1, <1>3, OnwardKeepsNumbers DEF IInv, Asking
<1>7. env'[s] = t /\ \A x \in Slugs : x # s => env'[x] = env[x]
  BY <1>1 DEF IInv, Types
<1>8. Envs'
  <2>1. ~lost' /\ s \notin disturbed' =>
            IF q.pc = "idle" THEN env'[s] = kept'[s].token ELSE Carries(a, s)'
    BY <1>1, <1>2, <1>7 DEF Carries
  <2> QED
    BY <1>1, <1>2, <1>3, <1>7, <2>1, OnwardKeepsEnvs DEF IInv
<1> QED
  BY <1>3, <1>4, <1>5, <1>6, <1>8, OnwardKeepsEngaged DEF IInv

\* The token for the environment file is taken.
LEMMA EnvTokenStep ==
    ASSUME MaxMinted \in Nat \ {0}, NEW a \in Actors, IInv, EnvToken(a)
    PROVE  IInv'
<1> DEFINE q == [change[a] EXCEPT !.pc = "envRead"]
<1>1. change[a] \in Records /\ change[a].pc = "envToken" /\ change[a].slug \in Slugs
  BY DEF EnvToken, Does, IInv, Types, Engaged
<1>2. q \in Records /\ q.pc = "envRead" /\ q.slug = change[a].slug /\ q.op = change[a].op
      /\ q.fresh = change[a].fresh /\ change[a].token \in 0..MaxMinted
  BY <1>1 DEF Records, Steps
<1>3. change' = [change EXCEPT ![a] = q]
  BY DEF EnvToken, Go, IInv, Types
<1>4. ~lost /\ change[a].slug \notin disturbed => change[a].token = kept[change[a].slug].token
  BY <1>1 DEF IInv, Envs, Busy, Carries
<1> QED
  BY <1>1, <1>2, <1>3, <1>4, EnvSteps DEF EnvToken

\* The environment file is read.
LEMMA EnvReadStep ==
    ASSUME MaxMinted \in Nat \ {0}, NEW a \in Actors, IInv, EnvRead(a)
    PROVE  IInv'
<1> DEFINE s == change[a].slug
           q == [change[a] EXCEPT !.pc = "envWrite", !.token = env[s]]
<1>1. change[a] \in Records /\ change[a].pc = "envRead" /\ s \in Slugs /\ env[s] \in 0..MaxMinted
  BY DEF EnvRead, Does, IInv, Types, Engaged
<1>2. q \in Records /\ q.pc = "envWrite" /\ q.slug = s /\ q.op = change[a].op
      /\ q.fresh = change[a].fresh /\ q.token = env[s]
  BY <1>1 DEF Records, Steps
<1>3. change' = [change EXCEPT ![a] = q] /\ env' = [env EXCEPT ![s] = env[s]]
  BY <1>1 DEF EnvRead, IInv, Types
<1>4. ~lost /\ s \notin disturbed => env[s] = kept[s].token
  BY <1>1 DEF IInv, Envs, Busy, Carries
<1> HIDE DEF q
<1> QED
  BY <1>1, <1>2, <1>3, <1>4, EnvSteps DEF EnvRead

\* The environment file is written.
LEMMA EnvWriteStep ==
    ASSUME MaxMinted \in Nat \ {0}, NEW a \in Actors, IInv, EnvWrite(a)
    PROVE  IInv'
<1>1. change[a] \in Records /\ change[a].pc = "envWrite" /\ change[a].slug \in Slugs
      /\ change[a].token \in 0..MaxMinted
  BY DEF EnvWrite, Does, IInv, Types, Engaged, Records
<1>2. Idle \in Records /\ Idle.pc = "idle" /\ Idle.fresh = 0
  BY IdleType DEF Idle
<1>3. change' = [change EXCEPT ![a] = Idle]
  BY DEF EnvWrite, Go
<1>4. ~lost /\ change[a].slug \notin disturbed => change[a].token = kept[change[a].slug].token
  BY <1>1 DEF IInv, Envs, Busy, Carries
<1> QED
  BY <1>1, <1>2, <1>3, <1>4, EnvSteps DEF EnvWrite

\* Who dies is no longer at anything; what it was at for the .env of an application is disturbed.
LEMMA DieStep ==
    ASSUME MaxMinted \in Nat \ {0}, MaxDeaths \in Nat, NEW who, IInv, Die(who)
    PROVE  IInv'
<1>1. /\ deaths < MaxDeaths /\ deaths' = deaths + 1
      /\ change' = [a \in Actors |-> IF a \in who THEN Idle ELSE change[a]]
      /\ disturbed' = disturbed \cup {s \in Slugs : \E a \in who : Syncing(a, s)}
      /\ UNCHANGED <<file, env, minted, kept, retired, lost>>
  BY DEF Die, unwritten
<1>2. \A a \in Actors : change'[a] = IF a \in who THEN Idle ELSE change[a]
  BY <1>1
<1>3. Idle.pc = "idle" /\ Idle.fresh = 0
  BY DEF Idle
<1>4. Types'
  BY <1>1, <1>2, IdleType DEF IInv, Types
<1>5. Engaged'
  BY <1>2, <1>3 DEF IInv, Engaged
<1>6. Copies'
  BY <1>1, <1>2, <1>3 DEF IInv, Copies, Writing
<1>7. Numbers' /\ Gone'
  <2>1. minted \in Nat
    BY DEF IInv, Types
  <2>2. \A a \in Actors : Asking(a)' => Asking(a) /\ change'[a] = change[a]
    BY <1>2, <1>3 DEF Asking
  <2>3. \A a \in Actors : change'[a].fresh <= minted
    BY <1>2, <1>3, <2>1 DEF IInv, Numbers
  <2> QED
    BY <1>1, <2>2, <2>3 DEF IInv, Numbers, Unused, Gone
<1>8. Envs'
  <2> SUFFICES ASSUME ~lost, NEW x \in Slugs \ disturbed'
               PROVE  /\ \A b, c \in Actors : Busy(b, x)' /\ Busy(c, x)' => b = c
                      /\ \A b \in Actors : Busy(b, x)' =>
                            change'[b].op \in {"rotate", "sync"} /\ Carries(b, x)'
                      /\ (\A b \in Actors : ~Busy(b, x)') => env'[x] = kept'[x].token
    BY <1>1 DEF Envs
  <2>1. x \notin disturbed
    BY <1>1
  <2>2. \A b \in Actors : Busy(b, x) => b \notin who
    BY <1>1, <2>1 DEF IInv, Envs, Busy, Syncing
  <2>3. \A b \in Actors : (Busy(b, x)' <=> Busy(b, x)) /\ (Busy(b, x) => change'[b] = change[b])
    BY <1>2, <1>3, <2>2 DEF Busy
  <2> QED
    BY <1>1, <2>1, <2>3 DEF IInv, Envs, Carries
<1> QED
  BY <1>4, <1>5, <1>6, <1>7, <1>8 DEF IInv

-----------------------------------------------------------------------------
(* What holds of every behaviour. *)

\* Every step keeps the invariant of the secrets.
LEMMA StepInv ==
    ASSUME MaxMinted \in Nat \ {0}, MaxDeaths \in Nat, IInv, [SecretsNext]_secretsVars
    PROVE  IInv'
<1>1. CASE UNCHANGED secretsVars
  BY <1>1 DEF secretsVars, IInv, Types, Engaged, Copies, Writing, Numbers, Asking, Unused, Gone,
              Envs, Busy, Carries
<1>2. CASE SecretsNext
  BY <1>2, StartStep, LoadStep, EmptyStep, FillStep, LoadAgainStep, EnvTokenStep, EnvReadStep,
     EnvWriteStep, DieStep DEF SecretsNext, Ops
<1> QED
  BY <1>1, <1>2

\* Whatever overlaps, is cut off or dies (write_secrets_file, rotate_token, sync_dv_env, and the tool's
\* provision, adopt and drop): as long as no stale copy of the file is written no application loses its
\* secret, no token that was replaced is accepted, and the .env of an application whose changes did
\* not overlap opens the gateway.
THEOREM SecretsAreKept ==
    ASSUME MaxMinted \in Nat \ {0}, MaxDeaths \in Nat
    PROVE  SecretsSpec => [](SecretsTypeOK /\ SecretsHold)
<1>1. SecretsInit => IInv
  BY InitInv
<1>2. IInv /\ [SecretsNext]_secretsVars => IInv'
  BY StepInv
<1>3. IInv => SecretsTypeOK /\ SecretsHold
  BY InvHolds
<1> QED
  BY <1>1, <1>2, <1>3, PTL DEF SecretsSpec

-----------------------------------------------------------------------------
(* DocsIndex                                                               *)

\* The steps of a tool, and of the start of the orchestrator.
ToolSteps ==
    [none    |-> {"idle"},
     update  |-> {"truncate", "fill", "row", "unword", "word"},
     diagram |-> {"read", "reread", "truncate", "fill", "row", "unword", "word"},
     delete  |-> {"unlink", "undraw", "unrow", "unindex"},
     migrate |-> {},
     rebuild |-> {}]
StartSteps ==
    [none    |-> {"idle"},
     update  |-> {}, diagram |-> {}, delete |-> {},
     migrate |-> {"meta", "stamp", "truncate", "fill", "open"},
     rebuild |-> {"wipe", "next", "row", "unword", "word"}]

\* The tools wait until the start is over.
Roles ==
    /\ \A c \in Callers : call[c].at \in ToolSteps[call[c].op]
    /\ call[Startup].at \in StartSteps[call[Startup].op]
    /\ phase # "up" => \A c \in Callers : Stands(c, "idle")
    /\ phase # "boot" => Stands(Startup, "idle")

NoRows == \A e \in All : rows[e] = Missing

\* Nothing is indexed, and no file there, before the directory is of the new version.
Versions ==
    /\ phase = "up" => meta \in {"nodir", "none", "v2"}
    /\ meta \in {"nodir", "none"} =>
         /\ \A e \in All : files[e] = Missing
         /\ \A a \in Workers : call[a].at \in {"idle", "read", "reread", "meta", "open", "wipe", "next"}
    /\ meta # "v2" => NoRows
    /\ Stands(Startup, "meta") => meta # "v2"
    /\ Stands(Startup, "stamp") => meta = "torn"
    /\ call[Startup].at \in {"truncate", "fill"} => meta = "v2" /\ NoRows
    /\ call[Startup].at \in {"open", "wipe", "next", "row"} \cup InIndex => meta \in {"nodir", "v2"}

\* What the start has in hand.
Starts ==
    /\ call[Startup].op = "migrate" \/ Stands(Startup, "wipe") => call[Startup].e = Overview
    /\ Stands(Startup, "truncate") => files[Overview] = Missing
    /\ Stands(Startup, "fill") => files[Overview] = EmptyText
    /\ call[Startup].at \in {"truncate", "fill"} => call[Startup].new = Holder
    /\ \A e \in call[Startup].todo : call[Startup].op = "rebuild" /\ files[e] # Missing

\* One call at most is between the statements of an upsert or a removal.
OneInIndex ==
    \A a, b \in Workers : call[a].at \in InIndex /\ call[b].at \in InIndex => a = b

Tables ==
    /\ \A e \in All \ halved :
         words[e] = rows[e].text \/ \E a \in Workers : call[a].at \in InIndex /\ call[a].e = e
    /\ \A a \in Workers :
         /\ call[a].at \in {"unword", "word"} => rows[call[a].e] = call[a].new
         /\ Stands(a, "unindex") => rows[call[a].e] = Missing

\* What holds of an entry as long as calls handle it one after the other.
Flags ==
    \A e \in All \ crossed :
        /\ files[e].flag => e \in drawn
        /\ \A a \in Handlers(e) :
             /\ \A b \in Handlers(e) : a = b
             /\ call[a].at \in {"truncate", "fill"} /\ call[a].new.flag => e \in drawn
             /\ call[a].op = "diagram" => e \in drawn
             /\ Stands(a, "undraw") => files[e] = Missing

\* A call that nobody came across knows the file.
Alones ==
    \A a \in Workers : ~Stands(a, "idle") /\ call[a].alone =>
        /\ Handlers(call[a].e) = {a}
        /\ call[a].at \in {"row", "unword", "word"} => files[call[a].e] = call[a].new
        /\ call[a].at \in {"undraw", "unrow", "unindex"} => files[call[a].e] = Missing

Level(e) == rows[e] = files[e] /\ words[e] = files[e].text

\* A call that will write the index, or be known to have left it behind.
Owes(a) ==
    \/ call[a].at \in {"fill", "undraw", "row", "unword", "word", "unrow", "unindex", "wipe"}
    \/ Stands(a, "reread") /\ files[call[a].e] # Missing
    \/ Stands(a, "open") /\ NoRows

Follows == \A e \in All \ behind : Level(e) \/ \E a \in Handlers(e) : Owes(a)

DocsInv == DocsTypeOK /\ Roles /\ Versions /\ Starts /\ OneInIndex /\ Tables /\ Flags /\ Alones /\ Follows

CallRecord ==
    [op : {"none", "update", "diagram", "delete", "migrate", "rebuild"},
     at : InIndex \cup {"idle", "truncate", "fill", "read", "reread", "row", "unlink", "undraw", "unrow",
                        "meta", "stamp", "open", "wipe", "next"},
     e : All, new : Contents, todo : SUBSET All, alone : BOOLEAN]

\* The calls have the type that the proofs name.
LEMMA CallsAre == DocsTypeOK => call \in [Workers -> CallRecord]
  BY DEF DocsTypeOK, CallRecord

\* What a worker that has no call looks like.
LEMMA Fresh ==
    /\ NoCall = [op |-> "none", at |-> "idle", e |-> Overview, new |-> EmptyText, todo |-> {}, alone |-> TRUE]
    /\ NoCall \in CallRecord
  BY DocsAssumption DEF NoCall, CallRecord, EmptyText, Contents, All

DocSteps == InIndex \cup {"idle", "truncate", "fill", "read", "reread", "row", "unlink", "undraw", "unrow",
                       "meta", "stamp", "open", "wipe", "next"}

\* A call that only goes to its next step.
LEMMA Moved ==
    ASSUME DocsTypeOK, NEW a \in Workers, NEW at \in DocSteps, Moves(a, at)
    PROVE  call' \in [Workers -> CallRecord]
  BY CallsAre DEF Moves, CallRecord, DocSteps

\* A call that ends.
LEMMA Finished ==
    ASSUME DocsTypeOK, NEW a \in Workers, Finish(a)
    PROVE  call' \in [Workers -> CallRecord]
  BY CallsAre, Fresh DEF Finish

\* What is the same for all calls that begin.
Begun(c, e, op, at, new) ==
    /\ call' \in [Workers -> CallRecord]
    /\ call'[c].op = op /\ call'[c].at = at /\ call'[c].e = e /\ call'[c].new = new
    /\ call'[c].todo = {}
    /\ call'[c].alone <=> Handlers(e) = {}
    /\ \A a \in Workers \ {c} :
         /\ call'[a].op = call[a].op /\ call'[a].at = call[a].at /\ call'[a].e = call[a].e
         /\ call'[a].new = call[a].new /\ call'[a].todo = call[a].todo
         /\ call'[a].alone => call[a].alone /\ a \notin Handlers(e)
    /\ Stands(c, "idle") /\ phase = "up"
    /\ crossed' = IF Handlers(e) = {} THEN crossed ELSE crossed \cup {e}
    /\ c \in Workers /\ c # Startup

\* What the beginning of a tool does to the calls.
LEMMA Handling ==
    ASSUME DocsTypeOK, NEW c \in Callers, NEW e \in All, NEW new \in Contents,
           NEW op \in {"update", "diagram", "delete"}, NEW at \in {"truncate", "read", "unlink"},
           Handle(c, op, e, at, new)
    PROVE  Begun(c, e, op, at, new)
<1> DEFINE first == [NoCall EXCEPT !.op = op, !.at = at, !.e = e, !.new = new, !.alone = (Handlers(e) = {})]
           other(a) == [call[a] EXCEPT !.alone = FALSE]
<1>1. /\ first \in CallRecord
      /\ first.op = op /\ first.at = at /\ first.e = e /\ first.new = new /\ first.todo = {}
  BY Fresh DEF CallRecord, InIndex
<1>2. first.alone <=> Handlers(e) = {}
  BY Fresh DEF CallRecord
<1>3. ASSUME NEW a \in Workers
      PROVE  /\ other(a) \in CallRecord /\ ~other(a).alone
             /\ other(a).op = call[a].op /\ other(a).at = call[a].at /\ other(a).e = call[a].e
             /\ other(a).new = call[a].new /\ other(a).todo = call[a].todo
  BY CallsAre DEF CallRecord
<1>4. call' = [a \in Workers |-> IF a = c THEN first ELSE IF a \in Handlers(e) THEN other(a) ELSE call[a]]
  BY DEF Handle
<1>5. c \in Workers /\ c # Startup
  BY DocsAssumption DEF Workers
<1> HIDE DEF first, other
<1>6. call' \in [Workers -> CallRecord]
  BY <1>1, <1>3, <1>4, CallsAre
<1>7. call'[c] = first /\ \A a \in Workers \ {c} : call'[a] = IF a \in Handlers(e) THEN other(a) ELSE call[a]
  BY <1>4, <1>5
<1>8. /\ call'[c].op = op /\ call'[c].at = at /\ call'[c].e = e /\ call'[c].new = new
      /\ call'[c].todo = {}
      /\ call'[c].alone <=> Handlers(e) = {}
  BY <1>1, <1>2, <1>7
<1>9. ASSUME NEW a \in Workers \ {c}
      PROVE  /\ call'[a].op = call[a].op /\ call'[a].at = call[a].at /\ call'[a].e = call[a].e
             /\ call'[a].new = call[a].new /\ call'[a].todo = call[a].todo
             /\ call'[a].alone => call[a].alone /\ a \notin Handlers(e)
  BY <1>3, <1>7
<1>10. /\ Stands(c, "idle") /\ phase = "up"
       /\ crossed' = IF Handlers(e) = {} THEN crossed ELSE crossed \cup {e}
  BY DEF Handle
<1> QED
  BY <1>5, <1>6, <1>8, <1>9, <1>10 DEF Begun

\* docs.update begins.
LEMMA UpdateBegins ==
    ASSUME DocsTypeOK, NEW c \in Callers, NEW e \in All, Update(c, e)
    PROVE  /\ Begun(c, e, "update", "truncate", call'[c].new)
           /\ call'[c].new \in Contents /\ (call'[c].new.flag <=> e \in drawn)
<1> DEFINE new == [text |-> texts + 1, flag |-> e \in drawn]
<1>1. texts + 1 \in 0..MaxTexts + 1
  BY DocsAssumption DEF DocsTypeOK, Update
<1>2. new \in Contents /\ (new.flag <=> e \in drawn)
  <2>1. CASE e \in drawn
    <3>1. new = [text |-> texts + 1, flag |-> TRUE]
      BY <2>1
    <3> QED
      BY <1>1, <2>1, <3>1 DEF Contents
  <2>2. CASE e \notin drawn
    <3>1. (e \in drawn) = FALSE
      BY <2>2
    <3>2. new = [text |-> texts + 1, flag |-> FALSE]
      BY <3>1, Zenon
    <3> QED
      BY <1>1, <2>2, <3>2 DEF Contents
  <2> QED
    BY <2>1, <2>2
<1>3. Handle(c, "update", e, "truncate", new)
  BY DEF Update
<1> HIDE DEF new
<1>4. Begun(c, e, "update", "truncate", new)
  BY <1>2, <1>3, Handling
<1>5. call'[c].new = new
  BY <1>4 DEF Begun
<1> QED
  BY <1>2, <1>4, <1>5

\* The text of a truncated file is a text, and announces nothing.
LEMMA EmptyContents == EmptyText \in Contents /\ ~EmptyText.flag
  BY DocsAssumption DEF EmptyText, Contents

\* docs.diagram_set begins.
LEMMA DiagramBegins ==
    ASSUME DocsTypeOK, NEW c \in Callers, NEW e \in All, DiagramSet(c, e)
    PROVE  Begun(c, e, "diagram", "read", EmptyText)
  BY EmptyContents, Handling DEF DiagramSet

\* docs.delete begins.
LEMMA DeleteBegins ==
    ASSUME DocsTypeOK, NEW c \in Callers, NEW e \in All, Delete(c, e)
    PROVE  Begun(c, e, "delete", "unlink", EmptyText)
  BY EmptyContents, Handling DEF Delete

\* Every step keeps the types.  First what the steps of a call and of the start do to the calls.
LEMMA ToolCalls ==
    ASSUME DocsTypeOK, NEW c \in Callers,
           ReadEntry(c) \/ ReadAgain(c) \/ Unlink(c) \/ Undraw(c) \/ DropRow(c) \/ DropEntry(c)
    PROVE  call' \in [Workers -> CallRecord]
<1>1. c \in Workers
  BY DEF Workers
<1>2. CASE Finish(c) \/ \E at \in DocSteps : Moves(c, at)
  BY <1>1, <1>2, Finished, Moved
<1>3. CASE ReadEntry(c)
  BY <1>3, CallsAre, DocsAssumption
     DEF ReadEntry, Moves, Workers, DocsTypeOK, CallRecord, Contents, Missing
<1>4. CASE ReadAgain(c) /\ ~Finish(c)
  <2> DEFINE r == [call[c] EXCEPT !.at = "row", !.new = files[call[c].e]]
  <2>1. files[call[c].e] \in Contents /\ call' = [call EXCEPT ![c].at = "row", ![c].new = files[call[c].e]]
    BY <1>1, <1>4, CallsAre DEF ReadAgain, DocsTypeOK, CallRecord
  <2>2. r \in CallRecord
    BY <1>1, <2>1, CallsAre DEF CallRecord
  <2>3. call' = [call EXCEPT ![c] = r]
    BY <1>1, <2>1, CallsAre DEF CallRecord
  <2> QED
    BY <2>2, <2>3, CallsAre
<1>5. CASE Unlink(c) \/ Undraw(c) \/ DropRow(c) \/ DropEntry(c)
  BY <1>2, <1>5 DEF Unlink, Undraw, DropRow, DropEntry, DocSteps, InIndex
<1> QED
  BY <1>2, <1>3, <1>4, <1>5

\* What the writes of files and of the index do to the calls.
LEMMA WorkCalls ==
    ASSUME DocsTypeOK, NEW a \in Workers,
           \/ Truncate(a) \/ FillFile(a) \/ PutRow(a) \/ DropWords(a) \/ PutWords(a) \/ IndexFails(a)
    PROVE  call' \in [Workers -> CallRecord]
<1>1. Finish(a) \/ \E at \in DocSteps : Moves(a, at)
  BY DEF Truncate, FillFile, PutRow, DropWords, PutWords, IndexFails, DocSteps, InIndex
<1> QED
  BY <1>1, Finished, Moved

\* What the start does to the calls.
LEMMA BootCalls ==
    ASSUME DocsTypeOK, Roles, Starts,
           Boot \/ WriteMeta \/ StampMeta \/ OpenIndex \/ Wipe \/ IndexNext \/ Rebuilt \/ DocsDie
    PROVE  call' \in [Workers -> CallRecord]
<1>1. Startup \in Workers
  BY DEF Workers
<1>2. CASE Finish(Startup) \/ \E at \in DocSteps : Moves(Startup, at)
  BY <1>1, <1>2, Finished, Moved
<1>3. CASE Boot
  <2>1. PICK at \in {"open", "meta"} :
               call' = [call EXCEPT ![Startup] = [NoCall EXCEPT !.op = "migrate", !.at = at]]
    BY <1>3 DEF Boot
  <2> QED
    BY <2>1, Fresh, CallsAre DEF CallRecord, InIndex, Workers
<1>4. CASE StampMeta
  BY <1>4, CallsAre, DocsAssumption DEF StampMeta, Moves, Workers, CallRecord, Contents, Holder
<1>5. CASE OpenIndex /\ ~Finish(Startup)
  <2> DEFINE r == [call[Startup] EXCEPT !.op = "rebuild", !.at = "wipe", !.todo = Written]
  <2>1. call' = [call EXCEPT ![Startup].op = "rebuild", ![Startup].at = "wipe", ![Startup].todo = Written]
    BY <1>5 DEF OpenIndex
  <2>2. r \in CallRecord
    BY <1>1, CallsAre DEF CallRecord, Written
  <2>3. call' = [call EXCEPT ![Startup] = r]
    BY <1>1, <2>1, CallsAre DEF CallRecord
  <2> QED
    BY <2>2, <2>3, CallsAre
<1>6. CASE IndexNext
  <2>1. PICK e \in call[Startup].todo :
          call' = [call EXCEPT ![Startup].at = "row", ![Startup].e = e, ![Startup].new = files[e],
                               ![Startup].todo = @ \ {e}]
    BY <1>6 DEF IndexNext
  <2> DEFINE r == [call[Startup] EXCEPT !.at = "row", !.e = e, !.new = files[e], !.todo = @ \ {e}]
  <2>2. e \in All /\ files[e] \in Contents
    BY <1>1, <2>1, CallsAre DEF Starts, DocsTypeOK, CallRecord
  <2>3. r \in CallRecord
    BY <1>1, <2>2, CallsAre DEF CallRecord
  <2>4. call' = [call EXCEPT ![Startup] = r]
    BY <1>1, <2>1, CallsAre DEF CallRecord
  <2> QED
    BY <2>3, <2>4, CallsAre
<1>7. CASE DocsDie
  BY <1>7, Fresh DEF DocsDie
<1>8. CASE WriteMeta \/ Wipe \/ Rebuilt
  BY <1>2, <1>8 DEF WriteMeta, Wipe, Rebuilt, DocSteps
<1> QED
  BY <1>2, <1>3, <1>4, <1>5, <1>6, <1>7, <1>8

\* No step leaves the type of the calls.
LEMMA CallsNext ==
    ASSUME DocsTypeOK, Roles, Starts, DocsNext
    PROVE  call' \in [Workers -> CallRecord]
<1>1. ASSUME NEW c \in Callers, NEW e \in All, Update(c, e) \/ DiagramSet(c, e) \/ Delete(c, e)
      PROVE  call' \in [Workers -> CallRecord]
  BY <1>1, UpdateBegins, DiagramBegins, DeleteBegins DEF Begun
<1> QED
  BY <1>1, ToolCalls, WorkCalls, BootCalls DEF DocsNext

\* The types of what is not a call.
Kept ==
    /\ files \in [All -> Contents \cup {Missing}] /\ drawn \subseteq All
    /\ meta \in {"nodir", "none", "old", "torn", "v2"}
    /\ rows \in [All -> Contents \cup {Missing}]
    /\ words \in [All -> -1..MaxTexts + 1]
    /\ phase \in {"down", "boot", "up"}
    /\ texts \in 0..MaxTexts /\ diagrams \in 0..MaxDiagrams /\ faults \in 0..MaxFaults
    /\ behind \subseteq All /\ halved \subseteq All /\ crossed \subseteq All

\* The type, in the two parts that are proved apart.
LEMMA KeptAndCalls == DocsTypeOK <=> Kept /\ indexed \in BOOLEAN /\ call \in [Workers -> CallRecord]
  BY DEF DocsTypeOK, Kept, CallRecord

\* No step leaves the types.
LEMMA DocsTypesNext ==
    ASSUME DocsTypeOK, Roles, Starts, DocsNext
    PROVE  DocsTypeOK'
<1>1. Kept /\ indexed \in BOOLEAN /\ call \in [Workers -> CallRecord]
  BY KeptAndCalls
<1> USE DEF Stands, Moves, Finish, Settles, Limits, History, Index, Files, Life
<1>2. ASSUME UNCHANGED <<files, rows, words>>, drawn' \subseteq drawn \cup All,
             meta' \in {meta, "none", "torn", "v2"}, phase' \in {phase, "boot", "up"},
             texts' \in 0..MaxTexts, diagrams' \in 0..MaxDiagrams, faults' = faults,
             UNCHANGED <<behind, halved>>, crossed' \subseteq crossed \cup All
      PROVE  Kept'
  BY <1>1, <1>2 DEF Kept
<1>3. ASSUME NEW c \in Callers, NEW e \in All, Update(c, e) \/ DiagramSet(c, e) \/ Delete(c, e)
      PROVE  Kept'
  <2>1. /\ UNCHANGED <<files, rows, words, phase, faults, behind, halved>>
        /\ drawn' \subseteq drawn \cup All /\ meta' \in {meta, "none", "v2"}
    BY <1>3 DEF Update, DiagramSet, Delete
  <2>2. texts' \in 0..MaxTexts /\ diagrams' \in 0..MaxDiagrams
    BY <1>1, <1>3, DocsAssumption DEF Update, DiagramSet, Delete, Kept
  <2>3. crossed' \subseteq crossed \cup All
    BY <1>3 DEF Update, DiagramSet, Delete, Handle
  <2> QED
    BY <1>1, <1>2, <2>1, <2>2, <2>3 DEF Kept
<1>4. ASSUME Boot \/ WriteMeta \/ StampMeta \/ OpenIndex \/ IndexNext \/ Rebuilt
      PROVE  Kept'
  <2>1. UNCHANGED <<files, drawn, rows, words, texts, diagrams, faults, behind, halved, crossed>>
    BY <1>4 DEF Boot, WriteMeta, StampMeta, OpenIndex, IndexNext, Rebuilt
  <2>2. meta' \in {meta, "torn", "v2"}
    BY <1>4 DEF Boot, WriteMeta, StampMeta, OpenIndex, IndexNext, Rebuilt
  <2>3. phase' \in {phase, "boot", "up"}
    BY <1>4 DEF Boot, WriteMeta, StampMeta, OpenIndex, IndexNext, Rebuilt
  <2> QED
    BY <1>1, <1>2, <2>1, <2>2, <2>3 DEF Kept
<1>5. ASSUME NEW c \in Callers, ReadEntry(c) \/ ReadAgain(c) \/ Unlink(c) \/ Undraw(c)
      PROVE  Kept'
  BY <1>1, <1>5, DocsAssumption, EmptyContents
     DEF ReadEntry, ReadAgain, Unlink, Undraw, CallRecord, Workers, Kept
<1>6. ASSUME NEW c \in Callers, DropRow(c) \/ DropEntry(c)
      PROVE  Kept'
  BY <1>1, <1>6, DocsAssumption, EmptyContents DEF DropRow, DropEntry, CallRecord, Workers, Kept
<1>7. ASSUME NEW a \in Workers, Truncate(a) \/ FillFile(a)
      PROVE  Kept'
  BY <1>1, <1>7, DocsAssumption, EmptyContents DEF Truncate, FillFile, CallRecord, Kept
<1>8. ASSUME NEW a \in Workers, PutRow(a) \/ DropWords(a)
      PROVE  Kept'
  BY <1>1, <1>8, DocsAssumption, EmptyContents DEF PutRow, DropWords, CallRecord, Kept
<1>9. ASSUME NEW a \in Workers, PutWords(a)
      PROVE  Kept'
  BY <1>1, <1>9, DocsAssumption, EmptyContents DEF PutWords, CallRecord, Contents, Kept
<1>10. ASSUME NEW a \in Workers, IndexFails(a)
       PROVE  Kept'
  BY <1>1, <1>10, DocsAssumption, EmptyContents DEF IndexFails, CallRecord, Kept
<1>11. ASSUME Wipe PROVE Kept'
  <2>1. /\ UNCHANGED <<files, drawn, meta, phase, texts, diagrams, faults, crossed>>
        /\ behind' \subseteq All /\ halved' = {}
    BY <1>11 DEF Wipe, Written
  <2>2. rows' = [e \in All |-> Missing] /\ words' = [e \in All |-> -1]
    BY <1>11 DEF Wipe
  <2> QED
    BY <1>1, <2>1, <2>2, DocsAssumption DEF Kept
<1>12. ASSUME DocsDie PROVE Kept'
  <2>1. /\ UNCHANGED <<files, drawn, meta, rows, words, texts, diagrams>>
        /\ phase' = "down" /\ faults' \in 0..MaxFaults
    BY <1>1, <1>12, DocsAssumption DEF DocsDie, Kept
  <2>2. \A a \in Workers : call[a].e \in All
    BY <1>1 DEF CallRecord
  <2>3. behind' \subseteq behind \cup All /\ crossed' \subseteq crossed \cup All /\ halved' \subseteq halved \cup All
    BY <1>12, <2>2 DEF DocsDie
  <2> QED
    BY <1>1, <2>1, <2>3 DEF Kept
<1>13. Kept'
  BY <1>3, <1>4, <1>5, <1>6, <1>7, <1>8, <1>9, <1>10, <1>11, <1>12 DEF DocsNext
<1>14. indexed' \in BOOLEAN
  BY <1>1
     DEF DocsNext, Update, DiagramSet, Delete, ReadEntry, ReadAgain, Unlink, Undraw, DropRow,
         DropEntry,
         Truncate, FillFile, PutRow, DropWords, PutWords, IndexFails, Boot, WriteMeta, StampMeta, OpenIndex,
         Wipe, IndexNext, Rebuilt, DocsDie
<1> QED
  BY <1>13, <1>14, CallsNext, KeptAndCalls DEF Kept, CallRecord, DocsTypeOK

\* A call keeps to the steps of its own kind.
LEMMA RolesNext ==
    ASSUME DocsTypeOK, Roles, DocsNext
    PROVE  Roles'
<1> USE DocsAssumption
    DEF DocsTypeOK, Roles, ToolSteps, StartSteps, InIndex, Handlers, Workers, All, Startup,
       Overview, Stands, Moves, Finish, Settles, NoCall, Limits, History, Index, Files, Life
<1>1. ASSUME NEW c \in Callers, NEW e \in All, Update(c, e) PROVE Roles'
  BY <1>1, UpdateBegins DEF Update, Begun
<1>2. ASSUME NEW c \in Callers, NEW e \in All, DiagramSet(c, e) PROVE Roles'
  BY <1>2, DiagramBegins DEF DiagramSet, Begun
<1>3. ASSUME NEW c \in Callers, NEW e \in All, Delete(c, e) PROVE Roles'
  BY <1>3, DeleteBegins DEF Delete, Begun
<1>4. ASSUME NEW c \in Callers, ReadEntry(c) \/ ReadAgain(c) \/ Unlink(c) \/ Undraw(c)
      PROVE  Roles'
  BY <1>4 DEF ReadEntry, ReadAgain, Unlink, Undraw
<1>5. ASSUME NEW c \in Callers, DropRow(c) \/ DropEntry(c)
      PROVE  Roles'
  BY <1>5 DEF DropRow, DropEntry
<1>6. ASSUME NEW a \in Workers, Truncate(a) \/ FillFile(a)
      PROVE  Roles'
  BY <1>6 DEF Truncate, FillFile
<1>7. ASSUME NEW a \in Workers, PutRow(a) \/ DropWords(a) \/ PutWords(a)
      PROVE  Roles'
  BY <1>7 DEF PutRow, DropWords, PutWords
<1>8. ASSUME NEW a \in Workers, IndexFails(a)
      PROVE  Roles'
  BY <1>8 DEF IndexFails
<1>9. CASE Boot
  BY <1>9 DEF Boot
<1>10. CASE WriteMeta
  BY <1>10 DEF WriteMeta
<1>11. CASE StampMeta
  BY <1>11 DEF StampMeta
<1>12. CASE OpenIndex
  BY <1>12 DEF OpenIndex
<1>13. CASE Wipe
  BY <1>13 DEF Wipe
<1>14. CASE IndexNext
  BY <1>14 DEF IndexNext
<1>15. CASE Rebuilt
  BY <1>15 DEF Rebuilt
<1>16. CASE DocsDie
  BY <1>16 DEF DocsDie
<1> QED
  BY <1>1, <1>2, <1>3, <1>4, <1>5, <1>6, <1>7, <1>8, <1>9, <1>10, <1>11, <1>12, <1>13, <1>14, <1>15,
     <1>16
     DEF DocsNext

\* A directory of the old version has nothing in the index.
LEMMA VersionsNext ==
    ASSUME DocsTypeOK, Roles, Versions, Starts, DocsNext
    PROVE  Versions'
<1> USE DocsAssumption
    DEF DocsTypeOK, Roles, Versions, Starts, ToolSteps, StartSteps, InIndex, NoRows, Written,
       Missing, Contents, EmptyText, Holder, Workers, All, Startup, Overview, Stands, Moves, Finish,
       Settles, NoCall, Limits, History, Index, Files, Life
<1>1. ASSUME NEW c \in Callers, NEW e \in All, Update(c, e) PROVE Versions'
  BY <1>1, UpdateBegins DEF Update, Begun
<1>2. ASSUME NEW c \in Callers, NEW e \in All, DiagramSet(c, e) PROVE Versions'
  BY <1>2, DiagramBegins DEF DiagramSet, Begun
<1>3. ASSUME NEW c \in Callers, NEW e \in All, Delete(c, e) PROVE Versions'
  BY <1>3, DeleteBegins DEF Delete, Begun
<1>4. ASSUME NEW c \in Callers, ReadEntry(c) \/ ReadAgain(c) \/ Unlink(c) \/ Undraw(c)
      PROVE  Versions'
  BY <1>4 DEF ReadEntry, ReadAgain, Unlink, Undraw
<1>5. ASSUME NEW c \in Callers, DropRow(c) \/ DropEntry(c)
      PROVE  Versions'
  BY <1>5 DEF DropRow, DropEntry
<1>6. ASSUME NEW a \in Workers, Truncate(a) \/ FillFile(a)
      PROVE  Versions'
  BY <1>6 DEF Truncate, FillFile
<1>7. ASSUME NEW a \in Workers, PutRow(a) \/ DropWords(a) \/ PutWords(a)
      PROVE  Versions'
  BY <1>7 DEF PutRow, DropWords, PutWords
<1>8. ASSUME NEW a \in Workers, IndexFails(a)
      PROVE  Versions'
  BY <1>8 DEF IndexFails
<1>9. CASE Boot
  BY <1>9 DEF Boot
<1>10. CASE WriteMeta
  BY <1>10 DEF WriteMeta
<1>11. CASE StampMeta
  BY <1>11 DEF StampMeta
<1>12. CASE OpenIndex
  BY <1>12 DEF OpenIndex
<1>13. CASE Wipe
  BY <1>13 DEF Wipe
<1>14. CASE IndexNext
  BY <1>14 DEF IndexNext
<1>15. CASE Rebuilt
  BY <1>15 DEF Rebuilt
<1>16. CASE DocsDie
  BY <1>16 DEF DocsDie
<1> QED
  BY <1>1, <1>2, <1>3, <1>4, <1>5, <1>6, <1>7, <1>8, <1>9, <1>10, <1>11, <1>12, <1>13, <1>14, <1>15,
     <1>16
     DEF DocsNext

\* The start finds every file of its list as it was.
LEMMA StartsNext ==
    ASSUME DocsTypeOK, Roles, Starts, Versions, DocsNext
    PROVE  Starts'
<1> USE DocsAssumption
    DEF DocsTypeOK, Roles, Starts, Versions, ToolSteps, StartSteps, InIndex, Written, NoRows,
       Missing, EmptyText, Contents, Holder, Workers, All, Startup, Overview, Stands, Moves, Finish,
       Settles, NoCall, Limits, History, Index, Files, Life
<1>1. ASSUME NEW c \in Callers, NEW e \in All, Update(c, e) PROVE Starts'
  BY <1>1, UpdateBegins DEF Update, Begun
<1>2. ASSUME NEW c \in Callers, NEW e \in All, DiagramSet(c, e) PROVE Starts'
  BY <1>2, DiagramBegins DEF DiagramSet, Begun
<1>3. ASSUME NEW c \in Callers, NEW e \in All, Delete(c, e) PROVE Starts'
  BY <1>3, DeleteBegins DEF Delete, Begun
<1>4. ASSUME NEW c \in Callers, ReadEntry(c) \/ ReadAgain(c) \/ Unlink(c) \/ Undraw(c)
      PROVE  Starts'
  BY <1>4 DEF ReadEntry, ReadAgain, Unlink, Undraw
<1>5. ASSUME NEW c \in Callers, DropRow(c) \/ DropEntry(c)
      PROVE  Starts'
  BY <1>5 DEF DropRow, DropEntry
<1>6. ASSUME NEW a \in Workers, Truncate(a) \/ FillFile(a)
      PROVE  Starts'
  BY <1>6 DEF Truncate, FillFile
<1>7. ASSUME NEW a \in Workers, PutRow(a) \/ DropWords(a) \/ PutWords(a)
      PROVE  Starts'
  BY <1>7 DEF PutRow, DropWords, PutWords
<1>8. ASSUME NEW a \in Workers, IndexFails(a)
      PROVE  Starts'
  BY <1>8 DEF IndexFails
<1>9. CASE Boot
  BY <1>9 DEF Boot
<1>10. CASE WriteMeta
  BY <1>10 DEF WriteMeta
<1>11. CASE StampMeta
  <2>1. CASE files[Overview] = Missing
    <3>1. call' = [call EXCEPT ![Startup].at = "truncate", ![Startup].new = Holder]
      BY <1>11, <2>1 DEF StampMeta
    <3>2. /\ call'[Startup].at = "truncate" /\ call'[Startup].new = Holder
          /\ call'[Startup].op = call[Startup].op /\ call'[Startup].e = call[Startup].e
          /\ call'[Startup].todo = call[Startup].todo
      BY <3>1, CallsAre DEF CallRecord
    <3> QED
      BY <1>11, <2>1, <3>2 DEF StampMeta
  <2>2. CASE files[Overview] # Missing
    BY <1>11, <2>2 DEF StampMeta
  <2> QED
    BY <2>1, <2>2
<1>12. CASE OpenIndex
  BY <1>12 DEF OpenIndex
<1>13. CASE Wipe
  BY <1>13 DEF Wipe
<1>14. CASE IndexNext
  BY <1>14 DEF IndexNext
<1>15. CASE Rebuilt
  BY <1>15 DEF Rebuilt
<1>16. CASE DocsDie
  BY <1>16 DEF DocsDie
<1> QED
  BY <1>1, <1>2, <1>3, <1>4, <1>5, <1>6, <1>7, <1>8, <1>9, <1>10, <1>11, <1>12, <1>13, <1>14, <1>15,
     <1>16
     DEF DocsNext

\* One worker at a time is between the two writes of the index.
LEMMA OneInIndexNext ==
    ASSUME DocsTypeOK, Roles, OneInIndex, DocsNext
    PROVE  OneInIndex'
<1> USE DocsAssumption
    DEF DocsTypeOK, Roles, OneInIndex, ToolSteps, StartSteps, InIndex, IndexFree, Workers, All,
       Startup, Overview, Stands, Moves, Finish, Settles, NoCall, Limits, History, Index, Files,
       Life
<1>1. ASSUME NEW c \in Callers, NEW e \in All, Update(c, e) PROVE OneInIndex'
  BY <1>1, UpdateBegins DEF Update, Begun
<1>2. ASSUME NEW c \in Callers, NEW e \in All, DiagramSet(c, e) PROVE OneInIndex'
  BY <1>2, DiagramBegins DEF DiagramSet, Begun
<1>3. ASSUME NEW c \in Callers, NEW e \in All, Delete(c, e) PROVE OneInIndex'
  BY <1>3, DeleteBegins DEF Delete, Begun
<1>4. ASSUME NEW c \in Callers, ReadEntry(c) \/ ReadAgain(c) \/ Unlink(c) \/ Undraw(c)
      PROVE  OneInIndex'
  BY <1>4 DEF ReadEntry, ReadAgain, Unlink, Undraw
<1>5. ASSUME NEW c \in Callers, DropRow(c) \/ DropEntry(c)
      PROVE  OneInIndex'
  BY <1>5 DEF DropRow, DropEntry
<1>6. ASSUME NEW a \in Workers, Truncate(a) \/ FillFile(a)
      PROVE  OneInIndex'
  BY <1>6 DEF Truncate, FillFile
<1>7. ASSUME NEW a \in Workers, PutRow(a) \/ DropWords(a) \/ PutWords(a)
      PROVE  OneInIndex'
  BY <1>7 DEF PutRow, DropWords, PutWords
<1>8. ASSUME NEW a \in Workers, IndexFails(a)
      PROVE  OneInIndex'
  BY <1>8 DEF IndexFails
<1>9. CASE Boot
  BY <1>9 DEF Boot
<1>10. CASE WriteMeta
  BY <1>10 DEF WriteMeta
<1>11. CASE StampMeta
  BY <1>11 DEF StampMeta
<1>12. CASE OpenIndex
  BY <1>12 DEF OpenIndex
<1>13. CASE Wipe
  BY <1>13 DEF Wipe
<1>14. CASE IndexNext
  BY <1>14 DEF IndexNext
<1>15. CASE Rebuilt
  BY <1>15 DEF Rebuilt
<1>16. CASE DocsDie
  BY <1>16 DEF DocsDie
<1> QED
  BY <1>1, <1>2, <1>3, <1>4, <1>5, <1>6, <1>7, <1>8, <1>9, <1>10, <1>11, <1>12, <1>13, <1>14, <1>15,
     <1>16
     DEF DocsNext

\* The two tables differ only under the worker that is between its writes.
LEMMA TablesNext ==
    ASSUME DocsTypeOK, Roles, OneInIndex, Tables, DocsNext
    PROVE  Tables'
<1> USE DocsAssumption
    DEF DocsTypeOK, Roles, OneInIndex, Tables, ToolSteps, StartSteps, InIndex, IndexFree, Missing,
       Contents, Workers, All, Startup, Overview, Stands, Moves, Finish, Settles, NoCall, Limits,
       History, Index, Files, Life
<1>1. ASSUME NEW c \in Callers, UNCHANGED <<halved, rows, words>>, Stands(c, "idle"),
             call'[c].at \notin InIndex,
             \A a \in Workers \ {c} : /\ call'[a].at = call[a].at /\ call'[a].e = call[a].e
                                     /\ call'[a].new = call[a].new
      PROVE  Tables'
  BY <1>1
<1>2. ASSUME NEW c \in Callers, NEW e \in All, Update(c, e) \/ DiagramSet(c, e) \/ Delete(c, e)
      PROVE  Tables'
  <2>1. UNCHANGED <<halved, rows, words>>
    BY <1>2 DEF Update, DiagramSet, Delete
  <2>2. \E op, at, new : at \in {"truncate", "read", "unlink"} /\ Begun(c, e, op, at, new)
    BY <1>2, UpdateBegins, DiagramBegins, DeleteBegins
  <2> QED
    BY <1>1, <2>1, <2>2 DEF Begun
<1>4. ASSUME NEW c \in Callers, ReadEntry(c) \/ ReadAgain(c) \/ Unlink(c) \/ Undraw(c)
      PROVE  Tables'
  <2>1. CASE ReadEntry(c)
    BY <2>1 DEF ReadEntry
  <2>2. CASE ReadAgain(c)
    BY <2>2 DEF ReadAgain
  <2>3. CASE Unlink(c)
    BY <2>3, SMTT(30) DEF Unlink
  <2>4. CASE Undraw(c)
    BY <2>4, SMTT(30) DEF Undraw
  <2> QED
    BY <1>4, <2>1, <2>2, <2>3, <2>4
<1>5. ASSUME NEW c \in Callers, DropRow(c) \/ DropEntry(c)
      PROVE  Tables'
  BY <1>5 DEF DropRow, DropEntry
<1>6. ASSUME NEW a \in Workers, Truncate(a) \/ FillFile(a)
      PROVE  Tables'
  BY <1>6 DEF Truncate, FillFile
<1>7. ASSUME NEW a \in Workers, PutRow(a) \/ DropWords(a) \/ PutWords(a)
      PROVE  Tables'
  BY <1>7 DEF PutRow, DropWords, PutWords
<1>8. ASSUME NEW a \in Workers, IndexFails(a)
      PROVE  Tables'
  BY <1>8 DEF IndexFails
<1>9. CASE Boot
  BY <1>9 DEF Boot
<1>10. CASE WriteMeta
  BY <1>10 DEF WriteMeta
<1>11. CASE StampMeta
  BY <1>11 DEF StampMeta
<1>12. CASE OpenIndex
  BY <1>12 DEF OpenIndex
<1>13. CASE Wipe
  BY <1>13 DEF Wipe
<1>14. CASE IndexNext
  BY <1>14 DEF IndexNext
<1>15. CASE Rebuilt
  BY <1>15 DEF Rebuilt
<1>16. CASE DocsDie
  BY <1>16 DEF DocsDie
<1> QED
  BY <1>2, <1>4, <1>5, <1>6, <1>7, <1>8, <1>9, <1>10, <1>11, <1>12, <1>13, <1>14, <1>15, <1>16
     DEF DocsNext

\* What an entry announces of its diagram stays true.
LEMMA FlagsNext ==
    ASSUME DocsTypeOK, Roles, Starts, Flags, DocsNext
    PROVE  Flags'
<1> USE DocsAssumption
    DEF DocsTypeOK, Roles, Starts, Flags, ToolSteps, StartSteps, InIndex, Handlers, Missing,
       EmptyText, Holder, Contents, Workers, All, Startup, Overview, Stands, Moves, Finish, Settles,
       NoCall, Limits, History, Index, Files, Life
<1>1. ASSUME NEW c \in Callers, NEW e \in All, NEW op, NEW at, NEW new, Begun(c, e, op, at, new),
             UNCHANGED files, drawn \subseteq drawn', at # "undraw",
             op = "diagram" \/ new.flag => e \in drawn'
      PROVE  Flags'
  <2> SUFFICES ASSUME NEW x \in All \ crossed'
               PROVE  /\ files[x].flag => x \in drawn'
                      /\ \A a \in Handlers(x)' :
                           /\ \A b \in Handlers(x)' : a = b
                           /\ call'[a].at \in {"truncate", "fill"} /\ call'[a].new.flag => x \in drawn'
                           /\ call'[a].op = "diagram" => x \in drawn'
                           /\ call'[a].at = "undraw" => files[x] = Missing
    BY <1>1 DEF Flags
  <2>1. x \notin crossed /\ (x = e => Handlers(e) = {})
    BY <1>1 DEF Begun
  <2>2. CASE x = e
    BY <1>1, <2>1, <2>2 DEF Begun
  <2>3. CASE x # e
    BY <1>1, <2>1, <2>3 DEF Begun
  <2> QED
    BY <2>2, <2>3
<1>2. ASSUME NEW c \in Callers, NEW e \in All, Update(c, e)
      PROVE  Flags'
  <2>1. UNCHANGED <<files, drawn>>
    BY <1>2 DEF Update
  <2>2. Begun(c, e, "update", "truncate", call'[c].new) /\ (call'[c].new.flag => e \in drawn')
    BY <1>2, <2>1, UpdateBegins
  <2> QED
    BY <1>1, <2>1, <2>2
<1>3. ASSUME NEW c \in Callers, NEW e \in All, DiagramSet(c, e) \/ Delete(c, e)
      PROVE  Flags'
  <2>1. UNCHANGED files /\ drawn \subseteq drawn' /\ (DiagramSet(c, e) => e \in drawn')
    BY <1>3 DEF DiagramSet, Delete
  <2>2. CASE DiagramSet(c, e)
    BY <1>1, <2>1, <2>2, DiagramBegins
  <2>3. CASE Delete(c, e)
    BY <1>1, <2>1, <2>3, DeleteBegins, EmptyContents, SMTT(30)
  <2> QED
    BY <1>3, <2>2, <2>3
<1>4. ASSUME NEW c \in Callers, ReadEntry(c) \/ ReadAgain(c) \/ Unlink(c) \/ Undraw(c)
      PROVE  Flags'
  <2>1. CASE ReadEntry(c)
    <3>1. UNCHANGED <<files, drawn, crossed>> /\ call[c].at = "read" /\ call[c].op = "diagram"
      <4>1. UNCHANGED <<files, drawn, crossed>> /\ call[c].at = "read"
        BY <2>1 DEF ReadEntry
      <4>2. c \in Workers /\ c # Startup
        BY DEF Workers
      <4> QED
        BY <4>1, <4>2, SMTT(30)
    <3>2. /\ call'[c].op = call[c].op /\ call'[c].e = call[c].e /\ call'[c].at \in {"reread", "truncate"}
          /\ \A a \in Workers \ {c} : call'[a] = call[a]
      BY <2>1, <3>1 DEF ReadEntry
    <3>3. \A x \in All : Handlers(x)' = Handlers(x)
      BY <3>1, <3>2
    <3> QED
      BY <3>1, <3>2, <3>3
  <2>2. CASE ReadAgain(c)
    BY <2>2 DEF ReadAgain
  <2>3. CASE Unlink(c)
    BY <2>3 DEF Unlink
  <2>4. CASE Undraw(c)
    BY <2>4, SMTT(30) DEF Undraw
  <2> QED
    BY <1>4, <2>1, <2>2, <2>3, <2>4
<1>5. ASSUME NEW c \in Callers, DropRow(c) \/ DropEntry(c)
      PROVE  Flags'
  <2>1. CASE DropRow(c)
    BY <2>1 DEF DropRow
  <2>2. CASE DropEntry(c)
    BY <2>2 DEF DropEntry
  <2> QED
    BY <1>5, <2>1, <2>2
<1>6. ASSUME NEW a \in Workers, Truncate(a) \/ FillFile(a)
      PROVE  Flags'
  BY <1>6 DEF Truncate, FillFile
<1>7. ASSUME NEW a \in Workers, PutRow(a) \/ DropWords(a) \/ PutWords(a)
      PROVE  Flags'
  BY <1>7 DEF PutRow, DropWords, PutWords
<1>8. ASSUME NEW a \in Workers, IndexFails(a)
      PROVE  Flags'
  BY <1>8 DEF IndexFails
<1>9. CASE Boot
  BY <1>9 DEF Boot
<1>10. CASE WriteMeta
  BY <1>10 DEF WriteMeta
<1>11. CASE StampMeta
  BY <1>11 DEF StampMeta
<1>12. CASE OpenIndex
  BY <1>12 DEF OpenIndex
<1>13. CASE Wipe
  BY <1>13 DEF Wipe
<1>14. CASE IndexNext
  BY <1>14 DEF IndexNext
<1>15. CASE Rebuilt
  BY <1>15 DEF Rebuilt
<1>16. CASE DocsDie
  BY <1>16 DEF DocsDie
<1> QED
  BY <1>2, <1>3, <1>4, <1>5, <1>6, <1>7, <1>8, <1>9, <1>10, <1>11, <1>12, <1>13, <1>14, <1>15,
     <1>16
     DEF DocsNext

\* A call that nobody came across goes on knowing the file.
LEMMA AlonesNext ==
    ASSUME DocsTypeOK, Roles, Starts, Alones, DocsNext
    PROVE  Alones'
<1> USE DocsAssumption
    DEF DocsTypeOK, Roles, Starts, Alones, ToolSteps, StartSteps, InIndex, Handlers, Missing,
       Written, Workers, All, Startup, Overview, Stands, Moves, Finish, Settles, NoCall, Limits,
       History, Index, Files, Life
<1>1. ASSUME NEW c \in Callers, NEW e \in All, Update(c, e) PROVE Alones'
  BY <1>1, UpdateBegins DEF Update, Begun
<1>2. ASSUME NEW c \in Callers, NEW e \in All, DiagramSet(c, e) PROVE Alones'
  BY <1>2, DiagramBegins DEF DiagramSet, Begun
<1>3. ASSUME NEW c \in Callers, NEW e \in All, Delete(c, e) PROVE Alones'
  BY <1>3, DeleteBegins DEF Delete, Begun
<1>4. ASSUME NEW c \in Callers, ReadEntry(c) \/ ReadAgain(c) \/ Unlink(c) \/ Undraw(c)
      PROVE  Alones'
  BY <1>4 DEF ReadEntry, ReadAgain, Unlink, Undraw
<1>5. ASSUME NEW c \in Callers, DropRow(c) \/ DropEntry(c)
      PROVE  Alones'
  BY <1>5 DEF DropRow, DropEntry
<1>6. ASSUME NEW a \in Workers, Truncate(a) \/ FillFile(a)
      PROVE  Alones'
  BY <1>6 DEF Truncate, FillFile
<1>7. ASSUME NEW a \in Workers, PutRow(a) \/ DropWords(a) \/ PutWords(a)
      PROVE  Alones'
  BY <1>7 DEF PutRow, DropWords, PutWords
<1>8. ASSUME NEW a \in Workers, IndexFails(a)
      PROVE  Alones'
  BY <1>8 DEF IndexFails
<1>9. CASE Boot
  BY <1>9 DEF Boot
<1>10. CASE WriteMeta
  BY <1>10 DEF WriteMeta
<1>11. CASE StampMeta
  BY <1>11 DEF StampMeta
<1>12. CASE OpenIndex
  BY <1>12 DEF OpenIndex
<1>13. CASE Wipe
  BY <1>13 DEF Wipe
<1>14. CASE IndexNext
  BY <1>14 DEF IndexNext
<1>15. CASE Rebuilt
  BY <1>15 DEF Rebuilt
<1>16. CASE DocsDie
  BY <1>16 DEF DocsDie
<1> QED
  BY <1>1, <1>2, <1>3, <1>4, <1>5, <1>6, <1>7, <1>8, <1>9, <1>10, <1>11, <1>12, <1>13, <1>14, <1>15,
     <1>16
     DEF DocsNext

\* An entry that is not level has a call that owes it the index.
LEMMA FollowsNext ==
    ASSUME DocsTypeOK, Roles, Starts, Versions, Tables, Alones, Follows, DocsNext
    PROVE  Follows'
<1> USE DocsAssumption
    DEF DocsTypeOK, Roles, Starts, Versions, Tables, Alones, Follows, ToolSteps, StartSteps,
       InIndex, Handlers, Level, Owes, NoRows, Missing, Written, Contents, EmptyText, Workers, All,
       Startup, Overview, Stands, Moves, Finish, Settles, NoCall, Limits, History, Index, Files,
       Life
<1>1. ASSUME NEW c \in Callers, UNCHANGED <<behind, files, rows, words>>, Stands(c, "idle"),
             c \in Workers,
             \A a \in Workers \ {c} : call'[a].at = call[a].at /\ call'[a].e = call[a].e
      PROVE  Follows'
  BY <1>1
<1>2. ASSUME NEW c \in Callers, NEW e \in All, Update(c, e) \/ DiagramSet(c, e) \/ Delete(c, e)
      PROVE  Follows'
  <2>1. UNCHANGED <<behind, files, rows, words>>
    BY <1>2 DEF Update, DiagramSet, Delete
  <2>2. \E op, at, new : Begun(c, e, op, at, new)
    BY <1>2, UpdateBegins, DiagramBegins, DeleteBegins
  <2> QED
    BY <1>1, <2>1, <2>2 DEF Begun
<1>4. ASSUME NEW c \in Callers, ReadEntry(c) \/ ReadAgain(c) \/ Unlink(c) \/ Undraw(c)
      PROVE  Follows'
  <2>1. CASE ReadEntry(c)
    BY <2>1 DEF ReadEntry
  <2>2. CASE ReadAgain(c)
    BY <2>2, SMTT(30) DEF ReadAgain
  <2>3. CASE Unlink(c)
    BY <2>3 DEF Unlink
  <2>4. CASE Undraw(c)
    BY <2>4, SMTT(30) DEF Undraw
  <2> QED
    BY <1>4, <2>1, <2>2, <2>3, <2>4
<1>5. ASSUME NEW c \in Callers, DropRow(c) \/ DropEntry(c)
      PROVE  Follows'
  BY <1>5 DEF DropRow, DropEntry
<1>6. ASSUME NEW a \in Workers, Truncate(a) \/ FillFile(a)
      PROVE  Follows'
  <2>1. CASE Truncate(a)
    BY <2>1 DEF Truncate
  <2>2. CASE FillFile(a)
    BY <2>2 DEF FillFile
  <2> QED
    BY <1>6, <2>1, <2>2
<1>7. ASSUME NEW a \in Workers, PutRow(a) \/ DropWords(a) \/ PutWords(a)
      PROVE  Follows'
  <2>1. CASE PutRow(a)
    BY <2>1 DEF PutRow
  <2>2. CASE DropWords(a)
    BY <2>2 DEF DropWords
  <2>3. CASE PutWords(a)
    <3>0. PICK own \in All : own = call[a].e
      BY <2>3 DEF PutWords
    <3>1. \A e \in All \ {own} : Level(e)' <=> Level(e)
      BY <2>3, <3>0 DEF PutWords
    <3>2. call[a].alone => Level(own)'
      <4>1. rows[own] = call[a].new
        BY <2>3, <3>0 DEF PutWords
      <4>2. call[a].alone => files[own] = call[a].new
        BY <2>3, <3>0 DEF PutWords
      <4>3. UNCHANGED <<files, rows>> /\ words'[own] = call[a].new.text
        BY <2>3, <3>0 DEF PutWords
      <4> QED
        BY <4>1, <4>2, <4>3
    <3>3. /\ behind' = IF call[a].alone THEN behind \ {own} ELSE behind \cup {own}
          /\ UNCHANGED <<files, rows>>
      BY <2>3, <3>0 DEF PutWords
    <3>4. \A b \in Workers \ {a} : call'[b] = call[b]
      BY <2>3 DEF PutWords
    <3>5. ASSUME NEW x \in All \ behind', x # own
          PROVE  Level(x)' \/ \E b \in Handlers(x)' : Owes(b)'
      <4>1. x \in All \ behind
        BY <3>3, <3>5
      <4>2. Level(x) \/ \E b \in Handlers(x) : Owes(b)
        BY <4>1
      <4>3. CASE Level(x)
        BY <3>1, <3>5, <4>3
      <4>4. ASSUME NEW b \in Handlers(x), Owes(b) PROVE b \in Handlers(x)' /\ Owes(b)'
        <5>1. b \in Workers \ {a} /\ call'[b] = call[b]
          BY <3>0, <3>4, <3>5, <4>4
        <5> QED
          BY <3>3, <4>4, <5>1
      <4> QED
        BY <4>2, <4>3, <4>4
    <3>6. own \in behind' \/ Level(own)'
      BY <3>2, <3>3
    <3> QED
      <4>1. \A x \in All \ behind' : Level(x)' \/ \E b \in Handlers(x)' : Owes(b)'
        BY <3>5, <3>6
      <4> HIDE DEF Level, Owes, Handlers
      <4> QED
        BY <4>1 DEF Follows
  <2> QED
    BY <1>7, <2>1, <2>2, <2>3
<1>8. ASSUME NEW a \in Workers, IndexFails(a)
      PROVE  Follows'
  BY <1>8 DEF IndexFails
<1>9. CASE Boot
  BY <1>9 DEF Boot
<1>10. CASE WriteMeta
  BY <1>10 DEF WriteMeta
<1>11. CASE StampMeta
  BY <1>11 DEF StampMeta
<1>12. CASE OpenIndex
  BY <1>12 DEF OpenIndex
<1>13. CASE Wipe
  BY <1>13 DEF Wipe
<1>14. CASE IndexNext
  BY <1>14 DEF IndexNext
<1>15. CASE Rebuilt
  BY <1>15 DEF Rebuilt
<1>16. CASE DocsDie
  BY <1>16 DEF DocsDie
<1> QED
  BY <1>2, <1>4, <1>5, <1>6, <1>7, <1>8, <1>9, <1>10, <1>11, <1>12, <1>13, <1>14, <1>15, <1>16
     DEF DocsNext

\* The invariant holds at first.
LEMMA DocsInvInit == DocsInit => DocsInv
<1> SUFFICES ASSUME DocsInit PROVE DocsInv
  OBVIOUS
<1>1. /\ \A a \in Workers : call[a] = NoCall
      /\ \A a \in Workers : Stands(a, "idle")
  BY DEF DocsInit, NoCall, Stands
<1>2. Startup \in Workers /\ Callers \subseteq Workers
  BY DEF Workers
<1>3. DocsTypeOK
  <2>1. call \in [Workers -> CallRecord]
    BY Fresh DEF DocsInit
  <2>2. Holder \in Contents
    BY DocsAssumption DEF Holder, Contents
  <2>3. Kept /\ indexed \in BOOLEAN
    <3>1. files \in [All -> Contents \cup {Missing}]
      BY <2>2, EmptyContents DEF DocsInit
    <3>2. rows \in [All -> Contents \cup {Missing}] /\ words \in [All -> -1..MaxTexts + 1]
      BY DocsAssumption DEF DocsInit
    <3>3. drawn \subseteq All /\ behind \subseteq All /\ halved \subseteq All /\ crossed \subseteq All
      BY DEF DocsInit
    <3>4. texts \in 0..MaxTexts /\ diagrams \in 0..MaxDiagrams /\ faults \in 0..MaxFaults
      BY DocsAssumption DEF DocsInit
    <3>5. indexed \in BOOLEAN /\ phase = "down" /\ meta \in {"nodir", "old"}
      BY DEF DocsInit
    <3> QED
      BY <3>1, <3>2, <3>3, <3>4, <3>5 DEF Kept
  <2> QED
    BY <2>1, <2>3, KeptAndCalls
<1>4. Roles /\ OneInIndex /\ Alones
  BY <1>1, <1>2 DEF Roles, OneInIndex, Alones, ToolSteps, StartSteps, NoCall, Stands, InIndex
<1>5. Versions /\ Starts
  BY <1>1, <1>2 DEF DocsInit, Versions, Starts, NoRows, NoCall, Stands, InIndex
<1>6. Tables
  BY <1>1 DEF DocsInit, Tables, Missing, Stands, NoCall
<1>7. Flags /\ Follows
  BY <1>1 DEF DocsInit, Flags, Follows, Handlers, Stands, Missing, EmptyText, Holder
<1> QED
  BY <1>3, <1>4, <1>5, <1>6, <1>7 DEF DocsInv

\* The invariant is inductive.
LEMMA DocsInvNext == DocsInv /\ [DocsNext]_docsVars => DocsInv'
<1>1. ASSUME DocsInv, DocsNext PROVE DocsInv'
  BY <1>1, DocsTypesNext, RolesNext, VersionsNext, StartsNext, OneInIndexNext, TablesNext,
     FlagsNext,
     AlonesNext, FollowsNext DEF DocsInv
<1>2. ASSUME DocsInv, UNCHANGED docsVars PROVE DocsInv'
  BY <1>2
     DEF docsVars, DocsInv, DocsTypeOK, Roles, Versions, Starts, OneInIndex, Tables, Flags, Alones,
              Follows, Stands, NoRows, Handlers, Level, Owes
<1> QED
  BY <1>1, <1>2

\* The invariant always holds.
LEMMA DocsInvAlways == DocsSpec => []DocsInv
  BY DocsInvInit, DocsInvNext, PTL DEF DocsSpec

\* Whatever crosses, fails or dies: outside the entries where that has been recorded, search answers
\* what the files say, the two tables of the index agree, and a diagram that is announced is there.
THEOREM DocsFollowFiles == DocsSpec => []DocsHold
<1>1. DocsInv => IndexFollows
  BY DEF DocsInv, Follows, IndexFollows, Quiet, Level
<1>2. DocsInv => TablesAgree
  BY DEF DocsInv, Tables, TablesAgree, IndexFree
<1>3. DocsInv => FlagsHold
  BY DEF DocsInv, Flags, FlagsHold
<1> QED
  BY <1>1, <1>2, <1>3, DocsInvAlways, PTL DEF DocsHold

\* However often the orchestrator dies while it starts, no start loses or changes an entry.
THEOREM BootsKeepDocs == DocsSpec => BootKeepsDocs
<1> DEFINE Keeps == phase = "boot" => \A e \in All : files[e] \notin {Missing, EmptyText} => files'[e] = files[e]
<1>1. ASSUME DocsInv, DocsNext PROVE Keeps
  <2> SUFFICES ASSUME phase = "boot", NEW e \in All, files[e] \notin {Missing, EmptyText}
               PROVE  files'[e] = files[e]
    OBVIOUS
  <2>1. files \in [All -> Contents \cup {Missing}] /\ Startup \notin Callers
    BY <1>1, DocsAssumption DEF DocsInv, DocsTypeOK
  <2>2. \A c \in Callers : Stands(c, "idle")
    BY <1>1 DEF DocsInv, Roles
  <2>3. CASE UNCHANGED files
    BY <2>3
  <2>4. ASSUME NEW a \in Workers, Truncate(a) \/ FillFile(a) PROVE files'[e] = files[e]
    <3>1. a = Startup
      BY <2>2, <2>4 DEF Truncate, FillFile, Stands, Workers
    <3>2. call[a].e = Overview /\ files[Overview] \in {Missing, EmptyText}
      <4>1. call[Startup].op \in {"none", "update", "diagram", "delete", "migrate", "rebuild"}
        BY <1>1, CallsAre DEF DocsInv, CallRecord, Workers
      <4>2. call[Startup].at \in {"truncate", "fill"} => call[Startup].op = "migrate"
        BY <1>1, <4>1 DEF DocsInv, Roles, StartSteps
      <4> QED
        BY <1>1, <2>4, <3>1, <4>2 DEF Truncate, FillFile, Stands, DocsInv, Starts
    <3> QED
      BY <2>1, <2>4, <3>2 DEF Truncate, FillFile
  <2>5. ASSUME NEW c \in Callers, Unlink(c) PROVE FALSE
    BY <2>2, <2>5 DEF Unlink, Stands
  <2> QED
    BY <1>1, <2>3, <2>4, <2>5
       DEF DocsNext, Update, DiagramSet, Delete, ReadEntry, ReadAgain, Undraw, DropRow, DropEntry,
          PutRow,
           DropWords, PutWords, IndexFails, Boot, WriteMeta, StampMeta, OpenIndex, Wipe, IndexNext, Rebuilt,
           DocsDie, Files
<1>2. ASSUME DocsInv, [DocsNext]_docsVars PROVE [Keeps]_docsVars
  BY <1>1, <1>2
<1> QED
  BY <1>2, DocsInvAlways, PTL DEF DocsSpec, BootKeepsDocs

\* Every file, row, word and call of the documentation keeps its type.
THEOREM DocsKeepTypes == DocsSpec => []DocsTypeOK
<1>1. DocsInv => DocsTypeOK
  BY DEF DocsInv
<1> QED
  BY <1>1, DocsInvAlways, PTL
================================================================================
