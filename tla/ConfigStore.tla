---------------------------- MODULE ConfigStore ----------------------------
(***************************************************************************)
(* The configuration: the store in memory, its file, the environment       *)
(* variable it may come from, and the handlers of the admin API that       *)
(* change it.  A handler changes the store in one step under its lock      *)
(* (Store.Update), but some read it before, in a step of their own.        *)
(*                                                                         *)
(* Names and remarks of accounts, hosts of proxies, aliases and the other  *)
(* settings are left out: the handlers that change only those save the     *)
(* store as it is.  Order of keys and accounts is left out too.            *)
(***************************************************************************)
EXTENDS Integers, Functions

CONSTANTS
  Accounts, Proxies, Keys,
  Names,           \* names of keys
  Passwords,       \* of accounts and of the admin
  Limits,          \* account_max_inflight and global_max_inflight
  ImportedProxies, \* proxies named by PUT /admin/config and /admin/import
  Imports,         \* configurations that are imported
  Setups,          \* [env, writeback, vercel, secret, file] of the deployment
  Actors,          \* admin requests at a time
  MaxOps,          \* admin requests in all
  MaxRestarts,
  MaxTime,
  None,
  Broken           \* a text that is no configuration

VARIABLES
  setup,     \* the environment of the process
  mem,       \* Store.cfg
  fromEnv,   \* Store.fromEnv
  status,    \* Store.accTest
  disk,      \* the file: a configuration, None or Broken
  up,        \* whether the process runs
  pc, loc,   \* the requests and what they have read
  now,       \* the clock, in seconds
  sessions,  \* the admin's JWTs, [iat, secret, live]
  vercel,    \* the configuration Vercel was given, its hash
  asked,     \* the keys as the requests set them
  promise,   \* the last configuration whose write succeeded
  muddled,   \* two syncs overlapped, or the outcome of one was lost
  ops, restarts

vars == <<setup, mem, fromEnv, status, disk, up, pc, loc, now, sessions, vercel, asked,
          promise, muddled, ops, restarts>>

store == <<mem, fromEnv, status, disk, promise>>
rest  == <<setup, up, now, sessions, vercel, muddled, restarts>>

----------------------------------------------------------------------------
(* A configuration *)

Maps(K, V) == UNION {[ks -> V] : ks \in SUBSET K}

Account == [pw : Passwords \cup {None}, proxy : Proxies \cup {None}, token : BOOLEAN]

APIKeys == Maps(Keys, Names \cup {None})
AccountMaps == Maps(Accounts, Account)

ConfigsSynced(syncs) ==
  [api : APIKeys, keys : SUBSET Keys, acc : AccountMaps,
   prox : SUBSET Proxies, infl : Nat, glob : Nat,
   hash : Passwords \cup {None}, after : Nat, sync : syncs]

(* Config; a hash of one stands for the configuration, without its own hash *)
Hashes == ConfigsSynced({None})
Configs == ConfigsSynced(Hashes \cup {None})

ASSUME ConfigAssumption ==
  /\ None \notin Accounts \cup Proxies \cup Keys \cup Names \cup Passwords
  /\ None # Broken /\ {None, Broken} \cap Configs = {}
  /\ ImportedProxies \subseteq Proxies
  /\ Limits \subseteq Nat

(* What comes from a text went through UnmarshalJSON: the keys of both forms are the same *)
ASSUME TextsAssumption ==
  /\ \A c \in Imports : c \in Configs /\ c.keys = DOMAIN c.api
  /\ Setups \subseteq [env : Configs \cup {None, Broken}, file : Configs \cup {None, Broken},
                       writeback : BOOLEAN, vercel : BOOLEAN, secret : BOOLEAN]

Unnamed(ks) == [k \in ks |-> None]

EmptyConfig ==
  [api |-> Unnamed({}), keys |-> {}, acc |-> Unnamed({}), prox |-> {}, infl |-> 0, glob |-> 0,
   hash |-> None, after |-> 0, sync |-> None]

(* ClearAccountTokens *)
Stored(c) == [c EXCEPT !.acc = [a \in DOMAIN @ |-> [@[a] EXCEPT !.token = FALSE]]]

(* syncHashForJSON *)
Hash(c) == [Stored(c) EXCEPT !.sync = None]

(* NormalizeCredentials *)
Normalized(c) ==
  IF DOMAIN c.api # {} THEN [c EXCEPT !.keys = DOMAIN c.api]
  ELSE [c EXCEPT !.api = Unnamed(c.keys)]

Reconciled_KeysWin(c, base) ==
  LET api == [k \in c.keys |-> IF k \in DOMAIN c.api THEN c.api[k] ELSE None]
  IN  [c EXCEPT !.api = api, !.keys = DOMAIN api]

(* ReconcileCredentials: the keys as plain strings, or with names? *)
Reconciled(c, base) ==
  LET plain == c.keys # base.keys /\ c.api = base.api
      api == IF plain
             THEN [k \in c.keys |-> IF k \in DOMAIN base.api THEN base.api[k] ELSE None]
             ELSE c.api
  IN  [c EXCEPT !.api = api, !.keys = DOMAIN api]

(* mergeAPIKeysPreferStructured *)
Merged(old, new) ==
  [k \in DOMAIN old \cup DOMAIN new |->
     IF k \in DOMAIN old /\ (old[k] # None \/ k \notin DOMAIN new) THEN old[k] ELSE new[k]]

Dangling(c) == {a \in DOMAIN c.acc : c.acc[a].proxy \notin c.prox \cup {None}}

LimitsFit(c) == c.infl > 0 /\ c.glob > 0 => c.glob >= c.infl

(* ValidateConfig *)
Valid(c) == LimitsFit(c) /\ Dangling(c) = {}

----------------------------------------------------------------------------
(* The store *)

(* loadConfigFromFile and parseConfigString succeed *)
Readable == disk \notin {None, Broken}
EnvReadable == setup.env \notin {None, Broken}

Error == [err |-> TRUE, cfg |-> EmptyConfig, env |-> FALSE, writes |-> FALSE]
From(c, env) == [Error EXCEPT !.err = FALSE, !.cfg = c, !.env = env]

Source_EnvFirst ==
  CASE ~EnvReadable /\ Readable -> From(disk, setup.vercel)
    [] setup.env = None /\ setup.vercel -> From(EmptyConfig, TRUE)
    [] EnvReadable -> From(Stored(setup.env), TRUE)
    [] OTHER -> Error

(***************************************************************************)
(* loadConfig: without the environment variable the file; with it the      *)
(* variable, unless writeback is on and there is a file.                   *)
(***************************************************************************)
Source ==
  CASE setup.env = None /\ Readable -> From(disk, setup.vercel)
    [] setup.env = None /\ ~Readable -> IF setup.vercel THEN From(EmptyConfig, TRUE) ELSE Error
    [] setup.env = Broken ->
         IF ~setup.vercel /\ setup.writeback /\ Readable THEN From(disk, FALSE) ELSE Error
    [] OTHER ->
         IF setup.vercel \/ ~setup.writeback THEN From(Stored(setup.env), TRUE)
         ELSE IF Readable THEN From(disk, FALSE)
         ELSE [From(Stored(setup.env), disk # None) EXCEPT !.writes = (disk = None)]

SkipsSave == fromEnv /\ (setup.vercel \/ ~setup.writeback)

(* writeConfigBytes; a write that fails leaves the file as it was, or cut off *)
Write(c, ok) ==
  \/ /\ ok
     /\ disk' = Stored(c) /\ promise' = Stored(c)
  \/ /\ ~ok
     /\ disk' \in {disk, Broken}
     /\ promise' = IF disk' = Broken THEN None ELSE promise

(* saveLocked *)
Save(c, ok) ==
  IF SkipsSave THEN ok /\ UNCHANGED <<disk, fromEnv, promise>>
  ELSE /\ Write(c, ok)
       /\ fromEnv' = (fromEnv /\ ~ok)

(* rebuildIndexes: the test results of the accounts that are left *)
Rebuilt(c) == Restrict(status, DOMAIN status \cap DOMAIN c.acc)

(* Store.Update: memory changes even if the write fails *)
Update(c, ok) ==
  LET new == Normalized(Reconciled(c, mem))
  IN  /\ mem' = new
      /\ status' = Rebuilt(new)
      /\ Save(new, ok)

(* Sessions are followed until other settings of the admin come from a file *)
Followed(c) == IF c.hash = mem.hash /\ c.after = mem.after THEN sessions ELSE {}

SetMem(c) == \E ok \in BOOLEAN : Update(c, ok)

Init ==
  /\ setup \in Setups
  /\ disk = setup.file
  /\ LET l == Source
     IN  /\ ~l.err /\ Valid(l.cfg)
         /\ mem = Normalized(l.cfg) /\ fromEnv = (l.env \/ l.writes)
         /\ asked = Normalized(l.cfg).api
  /\ status = <<>> /\ up = TRUE
  /\ pc = [i \in Actors |-> "idle"] /\ loc = [i \in Actors |-> None]
  /\ now = 1 /\ sessions = {} /\ vercel = None
  /\ promise = None /\ muddled = (mem.sync # None)
  /\ ops = 0 /\ restarts = 0

(* A request that begins, one that has read and goes on, one that ends *)
Begins(i) ==
  /\ up /\ pc[i] = "idle" /\ ops < MaxOps /\ ops' = ops + 1

Reads(i, at, x) ==
  /\ Begins(i)
  /\ pc' = [pc EXCEPT ![i] = at] /\ loc' = [loc EXCEPT ![i] = x]

Ends(i) ==
  /\ up /\ pc' = [pc EXCEPT ![i] = "idle"] /\ loc' = [loc EXCEPT ![i] = None]
  /\ UNCHANGED ops

(* A request that is one update *)
Handles(i, c) ==
  /\ Begins(i) /\ SetMem(c)
  /\ UNCHANGED <<pc, loc>>

----------------------------------------------------------------------------
(* Keys *)

Put(f, k, x) == [y \in DOMAIN f \cup {k} |-> IF y = k THEN x ELSE f[y]]
Drop(f, k) == Restrict(f, DOMAIN f \ {k})

(* What g has and f has not is added to f *)
Added(f, g) == [x \in DOMAIN f \cup DOMAIN g |-> IF x \in DOMAIN f THEN f[x] ELSE g[x]]

AddKey(i) ==
  \E k \in Keys \ DOMAIN mem.api, nm \in Names \cup {None} :
    /\ Handles(i, [mem EXCEPT !.api = Put(@, k, nm)])
    /\ asked' = Put(asked, k, nm)
    /\ UNCHANGED rest

UpdateKey(i) ==
  \E k \in DOMAIN mem.api, nm \in Names \cup {None} :
    /\ Handles(i, [mem EXCEPT !.api[k] = nm])
    /\ asked' = Put(asked, k, nm)
    /\ UNCHANGED rest

DeleteKey(i) ==
  \E k \in DOMAIN mem.api :
    /\ Handles(i, [mem EXCEPT !.api = Drop(@, k)])
    /\ asked' = Drop(asked, k)
    /\ UNCHANGED rest

(***************************************************************************)
(* PUT /admin/config reads the store, for the passwords, before it updates *)
(* it.  The keys come as strings, with names, or not at all.               *)
(***************************************************************************)
UpdateConfigReads(i) ==
  /\ Reads(i, "config", [acc |-> mem.acc])
  /\ UNCHANGED <<store, rest, asked>>

UpdateConfigKeys(i) ==
  /\ pc[i] = "config"
  /\ \E ks \in SUBSET Keys :
       \/ /\ SetMem([mem EXCEPT !.keys = ks])
          /\ asked' = [k \in ks |-> IF k \in DOMAIN asked THEN asked[k] ELSE None]
       \/ \E nm \in Names :
            /\ SetMem([mem EXCEPT !.api = [k \in ks |-> nm]])
            /\ asked' = [k \in ks |-> nm]
  /\ Ends(i)
  /\ UNCHANGED rest

(* The accounts are replaced; one without a password keeps the one it had *)
UpdateConfigAccounts(i) ==
  /\ pc[i] = "config"
  /\ \E S \in SUBSET Accounts, pw \in Passwords \cup {None}, p \in ImportedProxies \cup {None} :
       SetMem([mem EXCEPT !.acc =
         [a \in S |-> [pw |-> IF pw = None /\ a \in DOMAIN loc[i].acc THEN loc[i].acc[a].pw ELSE pw,
                       proxy |-> p, token |-> FALSE]]])
  /\ Ends(i)
  /\ UNCHANGED <<rest, asked>>

NewAccount(pw, p) == [pw |-> pw, proxy |-> p, token |-> FALSE]

(* POST /admin/import adds what is not there *)
BatchImport(i) ==
  \E ks \in SUBSET Keys, a \in Accounts, pw \in Passwords, p \in ImportedProxies \cup {None} :
    /\ Handles(i, [mem EXCEPT !.api = Merged(@, Unnamed(ks)),
                              !.acc = Added(@, [x \in {a} |-> NewAccount(pw, p)])])
    /\ asked' = Added(asked, Unnamed(ks))
    /\ UNCHANGED rest

(* configImport in its two modes *)
ImportReplace(i) ==
  \E c \in Imports :
    /\ Valid(c)
    /\ Handles(i, [Stored(c) EXCEPT !.sync = mem.sync])
    /\ asked' = c.api /\ sessions' = Followed(c)
    /\ UNCHANGED <<setup, up, now, vercel, muddled, restarts>>

ImportMerge(i) ==
  \E c \in Imports :
    LET next == [mem EXCEPT !.api = Merged(@, c.api), !.acc = Added(@, Stored(c).acc),
                            !.hash = IF c.hash # None THEN c.hash ELSE @,
                            !.after = IF c.after > 0 THEN c.after ELSE @,
                            !.infl = IF c.infl > 0 THEN c.infl ELSE @,
                            !.glob = IF c.glob > 0 THEN c.glob ELSE @]
    IN  /\ Valid(next)
        /\ Handles(i, next)
        /\ asked' = Merged(asked, c.api) /\ sessions' = Followed(next)
        /\ UNCHANGED <<setup, up, now, vercel, muddled, restarts>>

----------------------------------------------------------------------------
(* Accounts, proxies, settings *)

AddAccount(i) ==
  \E a \in Accounts \ DOMAIN mem.acc, pw \in Passwords, p \in mem.prox \cup {None} :
    /\ Handles(i, [mem EXCEPT !.acc = Put(@, a, NewAccount(pw, p))])
    /\ UNCHANGED <<rest, asked>>

DeleteAccount(i) ==
  \E a \in DOMAIN mem.acc :
    /\ Handles(i, [mem EXCEPT !.acc = Drop(@, a)])
    /\ UNCHANGED <<rest, asked>>

(* validateProxyMutation refuses a change that leaves a dangling reference *)
ProxyMutation(i, c) ==
  /\ Dangling(c) = {}
  /\ Handles(i, c)
  /\ UNCHANGED <<rest, asked>>

AddProxy(i) == \E p \in Proxies \ mem.prox : ProxyMutation(i, [mem EXCEPT !.prox = @ \cup {p}])

Unproxied(acc, p) ==
  [a \in DOMAIN acc |-> [acc[a] EXCEPT !.proxy = IF @ = p THEN None ELSE @]]

DeleteProxy_Unchecked(i) ==
  \E p \in mem.prox :
    /\ Handles(i, [mem EXCEPT !.prox = @ \ {p}])
    /\ UNCHANGED <<rest, asked>>

DeleteProxy(i) ==
  \E p \in mem.prox :
    ProxyMutation(i, [mem EXCEPT !.prox = @ \ {p}, !.acc = Unproxied(@, p)])

SetAccountProxy(i) ==
  \E a \in DOMAIN mem.acc, p \in mem.prox \cup {None} :
    ProxyMutation(i, [mem EXCEPT !.acc[a].proxy = p])

(* What is left out: names and remarks, the hosts of proxies *)
UpdateAccount(i) ==
  /\ DOMAIN mem.acc # {}
  /\ Handles(i, mem)
  /\ UNCHANGED <<rest, asked>>

UpdateProxy(i) == mem.prox # {} /\ ProxyMutation(i, mem)

(* parseSettingsUpdateRequest: the limits a request may have, 0 for none *)
Settings == {l \in [infl : Limits \cup {0}, glob : Limits \cup {0}] : LimitsFit(l)}

(* updateSettings validates the limits with a snapshot, then updates *)
Limited(c, l) ==
  [c EXCEPT !.infl = IF l.infl > 0 THEN l.infl ELSE @, !.glob = IF l.glob > 0 THEN l.glob ELSE @]

SettingsReads(i) ==
  \E l \in Settings :
    /\ LimitsFit(Limited(mem, l))
    /\ Reads(i, "settings", l)
    /\ UNCHANGED <<store, rest, asked>>

SettingsUpdates(i) ==
  /\ pc[i] = "settings"
  /\ SetMem(Limited(mem, loc[i]))
  /\ Ends(i)
  /\ UNCHANGED <<rest, asked>>

----------------------------------------------------------------------------
(* The test of an account, and the deletion of its sessions: each logs in, *)
(* again if DeepSeek then refuses, and the test records its result.        *)

TestReads(i) ==
  \E a \in DOMAIN mem.acc :
    /\ Reads(i, "login", [id |-> a])
    /\ UNCHANGED <<store, rest, asked>>

(* UpdateAccountToken, if the account is still there *)
TestLogsIn(i) ==
  /\ up /\ pc[i] \in {"login", "tested"}
  /\ pc' = [pc EXCEPT ![i] = "tested"]
  /\ IF loc[i].id \in DOMAIN mem.acc
     THEN LET c == [mem EXCEPT !.acc[loc[i].id].token = TRUE]
          IN  mem' = c /\ UNCHANGED status /\ \E ok \in BOOLEAN : Save(c, ok)
     ELSE UNCHANGED store
  /\ UNCHANGED <<rest, asked, loc, ops>>

(* UpdateAccountTestStatus; a login that failed gets here at once *)
TestEnds(i) ==
  /\ pc[i] \in {"login", "tested"}
  /\ \E ok \in BOOLEAN :
       /\ pc[i] = "login" => ~ok
       /\ status' = IF loc[i].id \in DOMAIN mem.acc THEN Put(status, loc[i].id, ok) ELSE status
  /\ Ends(i)
  /\ UNCHANGED <<rest, asked, mem, fromEnv, disk, promise>>

DeleteAllSessions(i) ==
  /\ pc[i] \in {"login", "tested"}
  /\ Ends(i)
  /\ UNCHANGED <<store, rest, asked>>

----------------------------------------------------------------------------
(* The admin's password and sessions *)

AdminPassword == IF mem.hash # None THEN mem.hash ELSE "admin"

(* jwtSecret *)
Secret == IF setup.secret THEN "secret" ELSE AdminPassword

(* updateSettingsPassword, not twice in a second *)
UpdatePassword(i) ==
  \E pw \in Passwords :
    /\ now > mem.after
    /\ Handles(i, [mem EXCEPT !.hash = pw, !.after = now])
    /\ sessions' = {[s EXCEPT !.live = FALSE] : s \in sessions}
    /\ UNCHANGED <<setup, up, now, vercel, muddled, restarts, asked>>

IssuedAt_Now == now

(* CreateJWTWithStore: never at or before the second that is cut off *)
IssuedAt == IF mem.after >= now THEN mem.after + 1 ELSE now

(* login: the password is checked, then the token is made *)
LoginChecks(i) ==
  /\ Reads(i, "admin", None)
  /\ UNCHANGED <<store, rest, asked>>

LoginIssues(i) ==
  /\ pc[i] = "admin"
  /\ sessions' = sessions \cup {[iat |-> IssuedAt, secret |-> Secret, live |-> TRUE]}
  /\ Ends(i)
  /\ UNCHANGED <<store, setup, up, now, vercel, muddled, restarts, asked>>

(* VerifyJWTWithStore, expiry left out *)
Verified(s) == s.secret = Secret /\ (mem.after > 0 => s.iat > mem.after)

Tick ==
  /\ up /\ now < MaxTime /\ now' = now + 1
  /\ UNCHANGED <<store, setup, up, sessions, vercel, muddled, restarts, asked, pc, loc, ops>>

----------------------------------------------------------------------------
(* syncVercel: export, push, record *)

(* exportSyncConfig: the configuration, or the one the request brings in its place *)
SyncExports(i) ==
  \E c \in {mem} \cup Imports :
    /\ Reads(i, "export", Hash(c))
    /\ UNCHANGED <<store, rest, asked>>

Syncing == {i \in Actors : pc[i] \in {"export", "pushed"}}

(* vercelRequest: the answer may be an error, or lost *)
Outcomes == {"ok", "error", "lost"}

SyncPushes(i) ==
  /\ up /\ pc[i] = "export"
  /\ \E outcome \in Outcomes :
       /\ vercel' = IF outcome = "error" THEN vercel ELSE loc[i]
       /\ muddled' = (muddled \/ outcome = "lost" \/ Syncing # {i})
       /\ pc' = [pc EXCEPT ![i] = IF outcome = "ok" THEN "pushed" ELSE "idle"]
       /\ loc' = [loc EXCEPT ![i] = IF outcome = "ok" THEN @ ELSE None]
  /\ UNCHANGED <<store, setup, up, now, sessions, restarts, asked, ops>>

SyncedHash_Current(x) == Hash(mem)
SyncedHash(x) == x

(* SetVercelSync; its error is ignored *)
SyncRecords(i) ==
  /\ pc[i] = "pushed"
  /\ SetMem([mem EXCEPT !.sync = SyncedHash(loc[i])])
  /\ Ends(i)
  /\ UNCHANGED <<rest, asked>>

(* vercelStatus *)
SaysSynced == up /\ mem.sync # None /\ mem.sync = Hash(mem)

----------------------------------------------------------------------------
(* The process stops and starts *)

(* LoadStoreWithError; a configuration that is not valid does not start *)
Restart ==
  /\ up /\ restarts < MaxRestarts
  /\ restarts' = restarts + 1
  /\ pc' = [i \in Actors |-> "idle"] /\ loc' = [i \in Actors |-> None]
  /\ LET l == Source
         c == Normalized(l.cfg)
     IN  IF l.err \/ ~Valid(l.cfg)
         THEN up' = FALSE /\ UNCHANGED <<store, sessions, muddled, asked>>
         ELSE /\ up' = TRUE /\ mem' = c /\ asked' = c.api
              /\ status' = <<>>
              /\ \/ ~l.writes /\ fromEnv' = l.env /\ UNCHANGED <<disk, promise>>
                 \/ l.writes /\ fromEnv' = FALSE /\ disk' = Stored(c) /\ UNCHANGED promise
                 \/ l.writes /\ fromEnv' = TRUE /\ UNCHANGED <<disk, promise>>
              /\ sessions' = Followed(c)
              /\ muddled' = (muddled \/ c.sync # vercel)
  /\ UNCHANGED <<setup, now, vercel, ops>>

Next ==
  \/ \E i \in Actors :
       \/ AddKey(i) \/ UpdateKey(i) \/ DeleteKey(i)
       \/ UpdateConfigReads(i) \/ UpdateConfigKeys(i) \/ UpdateConfigAccounts(i)
       \/ BatchImport(i) \/ ImportReplace(i) \/ ImportMerge(i)
       \/ AddAccount(i) \/ DeleteAccount(i)
       \/ UpdateAccount(i)
       \/ AddProxy(i) \/ UpdateProxy(i) \/ DeleteProxy(i) \/ SetAccountProxy(i)
       \/ SettingsReads(i) \/ SettingsUpdates(i)
       \/ TestReads(i) \/ TestLogsIn(i) \/ TestEnds(i) \/ DeleteAllSessions(i)
       \/ UpdatePassword(i) \/ LoginChecks(i) \/ LoginIssues(i)
       \/ SyncExports(i) \/ SyncPushes(i) \/ SyncRecords(i)
  \/ Tick \/ Restart

Spec == Init /\ [][Next]_vars

----------------------------------------------------------------------------
(* Properties *)

(***************************************************************************)
(* What was written is what the next start reads, wherever the             *)
(* configuration came from at first, until a write is cut off.             *)
(***************************************************************************)
SavedSurvives == promise # None => ~Source.err /\ Source.cfg = promise

(***************************************************************************)
(* After any sequence of requests, in either form, the API keys are those  *)
(* that were asked for, and a key that stays keeps its name.               *)
(***************************************************************************)
KeysAsAsked == mem.api = asked /\ mem.keys = DOMAIN asked

(***************************************************************************)
(* Nothing refers to what is gone, whatever requests overlap: an account   *)
(* to a proxy, or a test result, which may come late, to an account.       *)
(***************************************************************************)
NothingDangles == Dangling(mem) = {} /\ DOMAIN status \subseteq DOMAIN mem.acc

(***************************************************************************)
(* A new password ends the sessions there are (API.md), and a session that *)
(* is opened after it works, even in the same second.                      *)
(***************************************************************************)
SessionsFollowPassword == \A s \in sessions : Verified(s) <=> s.live

(***************************************************************************)
(* When the status says that Vercel is in sync, it has this configuration, *)
(* unless syncs overlapped, an outcome was lost, or a push that has        *)
(* replaced what Vercel has is not recorded yet.                           *)
(***************************************************************************)
SyncedMeansPushed ==
  ~muddled /\ SaysSynced /\ (\A i \in Actors : pc[i] # "pushed") => vercel = Hash(mem)

(***************************************************************************)
(* validation.go: "runtime.global_max_inflight must be >=                  *)
(* runtime.account_max_inflight"; a configuration in use is one the next   *)
(* start accepts.                                                          *)
(***************************************************************************)
InUseIsValid == Valid(mem)
============================================================================
