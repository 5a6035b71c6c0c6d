------------------------- MODULE ConfigStoreProofs -------------------------
(***************************************************************************)
(* Proofs about ConfigStore, for any accounts, keys, proxies and requests: *)
(* the keys are those that were asked for, sessions follow the password,   *)
(* what was written survives a restart, what is called synced was pushed,  *)
(* and nothing refers to what is gone.                                     *)
(***************************************************************************)
EXTENDS ConfigStore, TLAPS

(* A map is a function on some of the keys *)
LEMMA MapsAre ==
  ASSUME NEW K, NEW V, NEW f
  PROVE  f \in Maps(K, V) <=> DOMAIN f \subseteq K /\ f \in [DOMAIN f -> V]
  BY DEF Maps

(* A function on some of the keys is a map *)
LEMMA MapsHold ==
  ASSUME NEW K, NEW V, NEW S \in SUBSET K, NEW f \in [S -> V]
  PROVE  f \in Maps(K, V)
  BY DEF Maps

(* Putting, dropping and adding keep a map a map *)
LEMMA PutIsMap ==
  ASSUME NEW K, NEW V, NEW f \in Maps(K, V), NEW k \in K, NEW x \in V
  PROVE  Put(f, k, x) \in Maps(K, V) /\ DOMAIN Put(f, k, x) = DOMAIN f \cup {k}
<1>1. DOMAIN f \subseteq K /\ f \in [DOMAIN f -> V]
  BY MapsAre
<1>2. Put(f, k, x) \in [DOMAIN f \cup {k} -> V]
  BY <1>1 DEF Put
<1>3. DOMAIN f \cup {k} \in SUBSET K
  BY <1>1
<1> QED
  BY <1>2, <1>3, MapsHold DEF Put

(* What is left without a key is a map *)
LEMMA DropIsMap ==
  ASSUME NEW K, NEW V, NEW f \in Maps(K, V), NEW k
  PROVE  Drop(f, k) \in Maps(K, V) /\ DOMAIN Drop(f, k) = DOMAIN f \ {k}
<1>1. DOMAIN f \subseteq K /\ f \in [DOMAIN f -> V]
  BY MapsAre
<1>2. Drop(f, k) \in [DOMAIN f \ {k} -> V]
  BY <1>1 DEF Drop, Restrict
<1>3. DOMAIN f \ {k} \in SUBSET K
  BY <1>1
<1> QED
  BY <1>2, <1>3, MapsHold DEF Drop, Restrict

(* Two maps put together are a map *)
LEMMA AddedIsMap ==
  ASSUME NEW K, NEW V, NEW f \in Maps(K, V), NEW g \in Maps(K, V)
  PROVE  Added(f, g) \in Maps(K, V) /\ DOMAIN Added(f, g) = DOMAIN f \cup DOMAIN g
<1>1. DOMAIN f \subseteq K /\ f \in [DOMAIN f -> V]
  BY MapsAre
<1>2. DOMAIN g \subseteq K /\ g \in [DOMAIN g -> V]
  BY MapsAre
<1>3. Added(f, g) \in [DOMAIN f \cup DOMAIN g -> V]
  BY <1>1, <1>2 DEF Added
<1>4. DOMAIN f \cup DOMAIN g \in SUBSET K
  BY <1>1, <1>2
<1> QED
  BY <1>3, <1>4, MapsHold DEF Added

(* Keys that are merged stay a map of keys *)
LEMMA MergedIsMap ==
  ASSUME NEW f \in APIKeys, NEW g \in APIKeys
  PROVE  Merged(f, g) \in APIKeys /\ DOMAIN Merged(f, g) = DOMAIN f \cup DOMAIN g
<1>1. DOMAIN f \subseteq Keys /\ f \in [DOMAIN f -> Names \cup {None}]
  BY MapsAre DEF APIKeys
<1>2. DOMAIN g \subseteq Keys /\ g \in [DOMAIN g -> Names \cup {None}]
  BY MapsAre DEF APIKeys
<1>3. Merged(f, g) \in [DOMAIN f \cup DOMAIN g -> Names \cup {None}]
  BY <1>1, <1>2 DEF Merged
<1>4. DOMAIN f \cup DOMAIN g \in SUBSET Keys
  BY <1>1, <1>2
<1> QED
  BY <1>3, <1>4, MapsHold DEF Merged, APIKeys

(* Keys that come as strings are keys without names *)
LEMMA UnnamedIsMap ==
  ASSUME NEW ks \in SUBSET Keys
  PROVE  Unnamed(ks) \in APIKeys /\ DOMAIN Unnamed(ks) = ks
<1>1. Unnamed(ks) \in [ks -> Names \cup {None}]
  BY DEF Unnamed
<1> QED
  BY <1>1, MapsHold DEF APIKeys, Unnamed

(* Merging keys without names into others adds those that are not there *)
LEMMA MergedUnnamed ==
  ASSUME NEW f \in APIKeys, NEW ks \in SUBSET Keys
  PROVE  Merged(f, Unnamed(ks)) = Added(f, Unnamed(ks))
<1>1. \A k \in DOMAIN f \cup ks :
        (IF k \in DOMAIN f /\ (f[k] # None \/ k \notin ks) THEN f[k] ELSE None)
        = (IF k \in DOMAIN f THEN f[k] ELSE None)
  OBVIOUS
<1> QED
  BY <1>1 DEF Merged, Added, Unnamed

----------------------------------------------------------------------------
(* Configurations *)

(* A configuration with another value in one field is a configuration *)
LEMMA ConfigSet ==
  ASSUME NEW c \in Configs
  PROVE  /\ \A x \in APIKeys : [c EXCEPT !.api = x] \in Configs
         /\ \A x \in SUBSET Keys : [c EXCEPT !.keys = x] \in Configs
         /\ \A x \in AccountMaps : [c EXCEPT !.acc = x] \in Configs
         /\ \A x \in SUBSET Proxies : [c EXCEPT !.prox = x] \in Configs
         /\ \A x \in Passwords \cup {None} : [c EXCEPT !.hash = x] \in Configs
         /\ \A x \in Nat : [c EXCEPT !.after = x] \in Configs
         /\ \A x \in Nat : [c EXCEPT !.infl = x] \in Configs
         /\ \A x \in Nat : [c EXCEPT !.glob = x] \in Configs
         /\ \A x \in Hashes \cup {None} : [c EXCEPT !.sync = x] \in Configs
  BY DEF Configs, ConfigsSynced

(* The fields of a configuration *)
LEMMA ConfigFields ==
  ASSUME NEW c \in Configs
  PROVE  /\ c.api \in APIKeys /\ c.keys \in SUBSET Keys /\ c.acc \in AccountMaps
         /\ c.prox \in SUBSET Proxies /\ c.infl \in Nat /\ c.glob \in Nat
         /\ c.hash \in Passwords \cup {None} /\ c.after \in Nat
         /\ c.sync \in Hashes \cup {None}
  BY DEF Configs, ConfigsSynced

(* What is not a key or a name is the same in both *)
SameRest(c, d) ==
  /\ d.acc = c.acc /\ d.prox = c.prox /\ d.infl = c.infl /\ d.glob = c.glob
  /\ d.hash = c.hash /\ d.after = c.after /\ d.sync = c.sync

(* Reconciling and normalizing change keys and names only *)
LEMMA ReconciledIsConfig ==
  ASSUME NEW c \in Configs, NEW b \in Configs
  PROVE  Reconciled(c, b) \in Configs /\ SameRest(c, Reconciled(c, b))
<1> DEFINE plain == c.keys # b.keys /\ c.api = b.api
           fresh == [k \in c.keys |-> IF k \in DOMAIN b.api THEN b.api[k] ELSE None]
           api == IF plain THEN fresh ELSE c.api
<1>1. fresh \in APIKeys
  <2>1. DOMAIN b.api \subseteq Keys /\ b.api \in [DOMAIN b.api -> Names \cup {None}]
    BY ConfigFields, MapsAre DEF APIKeys
  <2>2. fresh \in [c.keys -> Names \cup {None}]
    BY <2>1
  <2> QED
    BY <2>2, ConfigFields, MapsHold DEF APIKeys
<1>2. api \in APIKeys
  BY <1>1, ConfigFields
<1>3. PICK x \in APIKeys : x = api
  BY <1>2
<1>4. PICK ks \in SUBSET Keys : ks = DOMAIN x
  BY MapsAre DEF APIKeys
<1>5. Reconciled(c, b) = [c EXCEPT !.api = x, !.keys = ks]
  BY <1>3, <1>4 DEF Reconciled
<1>6. [c EXCEPT !.api = x, !.keys = ks] \in Configs
  BY DEF Configs, ConfigsSynced
<1>7. SameRest(c, [c EXCEPT !.api = x, !.keys = ks])
  BY DEF Configs, ConfigsSynced, SameRest
<1> QED
  BY <1>5, <1>6, <1>7

(* Normalising leaves a configuration, its keys those with names *)
LEMMA NormalizedIsConfig ==
  ASSUME NEW c \in Configs
  PROVE  /\ Normalized(c) \in Configs /\ SameRest(c, Normalized(c))
         /\ Normalized(c).keys = DOMAIN Normalized(c).api
<1>1. CASE DOMAIN c.api # {}
  <2>1. PICK ks \in SUBSET Keys : ks = DOMAIN c.api
    BY ConfigFields, MapsAre DEF APIKeys
  <2>2. Normalized(c) = [c EXCEPT !.keys = ks]
    BY <1>1, <2>1 DEF Normalized
  <2>3. [c EXCEPT !.keys = ks] \in Configs
    BY ConfigSet
  <2>4. SameRest(c, [c EXCEPT !.keys = ks]) /\ [c EXCEPT !.keys = ks].keys = ks
        /\ [c EXCEPT !.keys = ks].api = c.api
    BY DEF Configs, ConfigsSynced, SameRest
  <2> QED
    BY <2>1, <2>2, <2>3, <2>4
<1>2. CASE DOMAIN c.api = {}
  <2>1. PICK ks \in SUBSET Keys : ks = c.keys
    BY ConfigFields
  <2>2. PICK x \in APIKeys : x = Unnamed(ks)
    BY UnnamedIsMap
  <2>3. Normalized(c) = [c EXCEPT !.api = x]
    BY <1>2, <2>1, <2>2 DEF Normalized
  <2>4. [c EXCEPT !.api = x] \in Configs
    BY ConfigSet
  <2>5. SameRest(c, [c EXCEPT !.api = x]) /\ [c EXCEPT !.api = x].keys = ks
        /\ [c EXCEPT !.api = x].api = x
    BY <2>1 DEF Configs, ConfigsSynced, SameRest
  <2>6. DOMAIN x = ks
    BY <2>2, UnnamedIsMap
  <2> QED
    BY <2>3, <2>4, <2>5, <2>6
<1> QED
  BY <1>1, <1>2

(* Keys and names that already agree are normalized to themselves *)
LEMMA NormalizedKeeps ==
  ASSUME NEW c \in Configs, c.keys = DOMAIN c.api
  PROVE  Normalized(c).api = c.api
<1>1. CASE DOMAIN c.api # {}
  <2>1. Normalized(c) = [c EXCEPT !.keys = DOMAIN c.api]
    BY <1>1 DEF Normalized
  <2> QED
    BY <2>1 DEF Configs, ConfigsSynced
<1>2. CASE DOMAIN c.api = {}
  <2>1. c.api \in [{} -> Names \cup {None}]
    BY <1>2, ConfigFields, MapsAre DEF APIKeys
  <2>2. Unnamed({}) = c.api
    BY <2>1 DEF Unnamed
  <2>3. Normalized(c) = [c EXCEPT !.api = Unnamed({})]
    BY <1>2 DEF Normalized
  <2>4. [c EXCEPT !.api = Unnamed({})].api = Unnamed({})
    BY DEF Configs, ConfigsSynced
  <2> QED
    BY <2>2, <2>3, <2>4
<1> QED
  BY <1>1, <1>2

(* What Update puts in the place of the configuration *)
New(c) == Normalized(Reconciled(c, mem))

(* What an update stores is a configuration with the keys of its names *)
LEMMA NewIsConfig ==
  ASSUME NEW c \in Configs, mem \in Configs
  PROVE  New(c) \in Configs /\ SameRest(c, New(c)) /\ New(c).keys = DOMAIN New(c).api
<1>1. PICK r \in Configs : r = Reconciled(c, mem) /\ SameRest(c, r)
  BY ReconciledIsConfig
<1>2. Normalized(r) \in Configs /\ SameRest(r, Normalized(r))
      /\ Normalized(r).keys = DOMAIN Normalized(r).api
  BY NormalizedIsConfig
<1> QED
  BY <1>1, <1>2 DEF New, SameRest

(* A request that sends names, or no keys, gets the keys it has *)
LEMMA NewNamed ==
  ASSUME NEW c \in Configs, mem \in Configs,
         c.keys = mem.keys \/ c.keys = DOMAIN c.api,
         mem.keys = DOMAIN mem.api
  PROVE  New(c).api = c.api
<1>1. PICK r \in Configs : r = Reconciled(c, mem)
  BY ReconciledIsConfig
<1>2. ~(c.keys # mem.keys /\ c.api = mem.api)
  OBVIOUS
<1>3. r = [c EXCEPT !.api = c.api, !.keys = DOMAIN c.api]
  BY <1>1, <1>2 DEF Reconciled
<1>4. r.api = c.api /\ r.keys = DOMAIN c.api
  BY <1>3 DEF Configs, ConfigsSynced
<1>5. Normalized(r).api = r.api
  BY <1>4, NormalizedKeeps
<1> QED
  BY <1>1, <1>4, <1>5 DEF New

(* A request that sends keys as strings gets them, with the names they had *)
LEMMA NewPlain ==
  ASSUME NEW ks \in SUBSET Keys, mem \in Configs, mem.keys = DOMAIN mem.api
  PROVE  New([mem EXCEPT !.keys = ks]).api
         = [k \in ks |-> IF k \in DOMAIN mem.api THEN mem.api[k] ELSE None]
<1> DEFINE fresh == [k \in ks |-> IF k \in DOMAIN mem.api THEN mem.api[k] ELSE None]
<1>1. PICK c \in Configs : c = [mem EXCEPT !.keys = ks]
  BY ConfigSet
<1>2. c.keys = ks /\ c.api = mem.api
  BY <1>1 DEF Configs, ConfigsSynced
<1>3. CASE ks = mem.keys
  <2>1. New(c).api = mem.api
    BY <1>2, <1>3, NewNamed
  <2>2. mem.api \in [ks -> Names \cup {None}]
    BY <1>3, ConfigFields, MapsAre DEF APIKeys
  <2>3. fresh = mem.api
    BY <2>2
  <2> QED
    BY <1>1, <2>1, <2>3
<1>4. CASE ks # mem.keys
  <2>1. PICK r \in Configs : r = Reconciled(c, mem)
    BY ReconciledIsConfig
  <2>2. r = [c EXCEPT !.api = fresh, !.keys = DOMAIN fresh]
    BY <1>2, <1>4, <2>1 DEF Reconciled
  <2>3. r.api = fresh /\ r.keys = DOMAIN fresh
    BY <2>2 DEF Configs, ConfigsSynced
  <2>4. Normalized(r).api = r.api
    BY <2>3, NormalizedKeeps
  <2> QED
    BY <1>1, <2>1, <2>3, <2>4 DEF New
<1> QED
  BY <1>3, <1>4

(* What is written, and what is hashed, are configurations *)
LEMMA StoredIsConfig ==
  ASSUME NEW c \in Configs
  PROVE  /\ Stored(c) \in Configs
         /\ Stored(c).api = c.api /\ Stored(c).keys = c.keys /\ Stored(c).prox = c.prox
         /\ Stored(c).hash = c.hash /\ Stored(c).after = c.after
         /\ Stored(c).infl = c.infl /\ Stored(c).glob = c.glob /\ Stored(c).sync = c.sync
         /\ DOMAIN Stored(c).acc = DOMAIN c.acc
         /\ \A a \in DOMAIN c.acc : Stored(c).acc[a].proxy = c.acc[a].proxy
<1> DEFINE bare == [a \in DOMAIN c.acc |-> [c.acc[a] EXCEPT !.token = FALSE]]
<1>1. DOMAIN c.acc \in SUBSET Accounts /\ c.acc \in [DOMAIN c.acc -> Account]
  BY ConfigFields, MapsAre DEF AccountMaps
<1>2. \A a \in DOMAIN c.acc : /\ [c.acc[a] EXCEPT !.token = FALSE] \in Account
                              /\ [c.acc[a] EXCEPT !.token = FALSE].proxy = c.acc[a].proxy
  <2>1. ASSUME NEW x \in Account
        PROVE  [x EXCEPT !.token = FALSE] \in Account /\ [x EXCEPT !.token = FALSE].proxy = x.proxy
    BY DEF Account
  <2> QED
    BY <1>1, <2>1
<1>3. bare \in [DOMAIN c.acc -> Account]
  BY <1>2
<1>4. PICK m \in AccountMaps : m = bare
  BY <1>1, <1>3, MapsHold DEF AccountMaps
<1>5. Stored(c) = [c EXCEPT !.acc = m]
  BY <1>4 DEF Stored
<1>6. [c EXCEPT !.acc = m] \in Configs /\ [c EXCEPT !.acc = m].acc = m
  BY ConfigSet DEF Configs, ConfigsSynced
<1>7. /\ [c EXCEPT !.acc = m].api = c.api /\ [c EXCEPT !.acc = m].keys = c.keys
      /\ [c EXCEPT !.acc = m].prox = c.prox
      /\ [c EXCEPT !.acc = m].hash = c.hash /\ [c EXCEPT !.acc = m].after = c.after
      /\ [c EXCEPT !.acc = m].infl = c.infl /\ [c EXCEPT !.acc = m].glob = c.glob
      /\ [c EXCEPT !.acc = m].sync = c.sync
  BY DEF Configs, ConfigsSynced
<1>8. DOMAIN m = DOMAIN c.acc /\ \A a \in DOMAIN c.acc : m[a].proxy = c.acc[a].proxy
  BY <1>2, <1>4
<1> QED
  BY <1>5, <1>6, <1>7, <1>8

(* The hash of a configuration *)
LEMMA HashIsHash ==
  ASSUME NEW c \in Configs
  PROVE  Hash(c) \in Hashes
<1>1. PICK s \in Configs : s = Stored(c)
  BY StoredIsConfig
<1>2. [s EXCEPT !.sync = None] \in Hashes
  BY DEF Configs, Hashes, ConfigsSynced
<1> QED
  BY <1>1, <1>2 DEF Hash

----------------------------------------------------------------------------
(* The invariant *)

(* Nothing is ever written: Vercel, or a variable that is not written back *)
Unwritten == setup.vercel \/ (setup.env # None /\ ~setup.writeback)

(* Types of the store, and that the file is the last configuration written *)
StoreRight ==
  /\ setup \in Setups /\ mem \in Configs /\ status \in Maps(Accounts, BOOLEAN)
  /\ fromEnv \in BOOLEAN
  /\ disk \in Configs \cup {None, Broken} /\ promise \in Configs \cup {None}
  /\ Unwritten => fromEnv /\ promise = None
  /\ promise # None => disk = promise

PCs == {"idle", "config", "settings", "login", "tested", "admin", "export", "pushed"}

(* What a request has read, by where it stands *)
LocRight(p, x) ==
  /\ p = "config" => x \in [acc : AccountMaps]
  /\ p = "settings" => x \in Settings
  /\ p \in {"login", "tested"} => x \in [id : Accounts]
  /\ p \in {"export", "pushed"} => x \in Hashes

Locs == [acc : AccountMaps] \cup Settings \cup [id : Accounts] \cup Hashes \cup {None}

RequestsRight ==
  /\ pc \in [Actors -> PCs] /\ loc \in [Actors -> Locs]
  /\ \A i \in Actors : LocRight(pc[i], loc[i])

Session == [iat : Nat, secret : Passwords \cup {"secret", "admin"}, live : BOOLEAN]

(***************************************************************************)
(* A session that works was issued after the second that is cut off, with  *)
(* the secret in force; one that does not was issued before.  None is      *)
(* issued later than now, or than the second after the one cut off.        *)
(***************************************************************************)
SessionRight(s) ==
  /\ s.iat <= now \/ s.iat <= mem.after + 1
  /\ s.live => s.secret = Secret /\ s.iat > mem.after
  /\ ~s.live => mem.after > 0 /\ s.iat <= mem.after

SessionsRight ==
  /\ now \in Nat /\ now >= 1
  /\ sessions \in SUBSET Session
  /\ \A s \in sessions : SessionRight(s)

(* What was pushed and is not recorded is what Vercel has; else what is recorded is *)
SyncRight ==
  up /\ ~muddled =>
    /\ \A i \in Actors : pc[i] = "pushed" => loc[i] = vercel
    /\ (\A i \in Actors : pc[i] # "pushed") => mem.sync = vercel

ConfigInv ==
  /\ StoreRight /\ RequestsRight /\ SessionsRight /\ SyncRight
  /\ asked \in APIKeys /\ KeysAsAsked

----------------------------------------------------------------------------
(* The store *)

(* Saving keeps the file the last configuration whose write succeeded *)
LEMMA SaveKeeps ==
  ASSUME StoreRight, NEW c \in Configs, NEW ok \in BOOLEAN, Save(c, ok), setup' = setup
  PROVE  /\ fromEnv' \in BOOLEAN
         /\ disk' \in Configs \cup {None, Broken} /\ promise' \in Configs \cup {None}
         /\ Unwritten' => fromEnv' /\ promise' = None
         /\ promise' # None => disk' = promise'
<1>1. PICK s \in Configs : s = Stored(c)
  BY StoredIsConfig
<1>2. CASE SkipsSave
  BY <1>2 DEF Save, StoreRight, Unwritten
<1>3. CASE ~SkipsSave
  <2>1. ~Unwritten
    <3>1. setup \in [env : Configs \cup {None, Broken}, file : Configs \cup {None, Broken},
                     writeback : BOOLEAN, vercel : BOOLEAN, secret : BOOLEAN]
      BY TextsAssumption DEF StoreRight
    <3> QED
      BY <1>3, <3>1 DEF SkipsSave, StoreRight, Unwritten
  <2>2. Write(c, ok) /\ fromEnv' = (fromEnv /\ ~ok)
    BY <1>3 DEF Save
  <2>3. fromEnv' \in BOOLEAN /\ ~Unwritten'
    BY <2>1, <2>2 DEF Unwritten
  <2>4. CASE ok
    BY <1>1, <2>2, <2>3, <2>4 DEF Write
  <2>5. CASE ~ok
    BY <2>2, <2>3, <2>5 DEF Write, StoreRight
  <2> QED
    BY <2>4, <2>5
<1> QED
  BY <1>2, <1>3

(* An update replaces the configuration, in memory at least *)
LEMMA UpdateEffect ==
  ASSUME StoreRight, NEW c \in Configs, SetMem(c), setup' = setup
  PROVE  /\ StoreRight'
         /\ mem' = New(c) /\ SameRest(c, mem')
         /\ mem'.keys = DOMAIN mem'.api
         /\ DOMAIN status' \subseteq DOMAIN mem'.acc
<1>1. PICK ok \in BOOLEAN : Update(c, ok)
  BY DEF SetMem
<1>2. mem' = New(c) /\ status' = Rebuilt(New(c)) /\ Save(New(c), ok)
  BY <1>1 DEF Update, New
<1>3. New(c) \in Configs /\ SameRest(c, New(c)) /\ New(c).keys = DOMAIN New(c).api
  BY NewIsConfig DEF StoreRight
<1>4. /\ fromEnv' \in BOOLEAN
      /\ disk' \in Configs \cup {None, Broken} /\ promise' \in Configs \cup {None}
      /\ Unwritten' => fromEnv' /\ promise' = None
      /\ promise' # None => disk' = promise'
  BY <1>2, <1>3, SaveKeeps
<1>5. status' \in Maps(Accounts, BOOLEAN) /\ DOMAIN status' \subseteq DOMAIN New(c).acc
  <2>1. DOMAIN status \subseteq Accounts /\ status \in [DOMAIN status -> BOOLEAN]
    BY MapsAre DEF StoreRight
  <2>2. PICK S \in SUBSET Accounts : S = DOMAIN status \cap DOMAIN New(c).acc
    BY <2>1
  <2>3. status' = [x \in S |-> status[x]]
    BY <1>2, <2>2 DEF Rebuilt, Restrict
  <2>4. status' \in [S -> BOOLEAN]
    BY <2>1, <2>2, <2>3
  <2> QED
    BY <2>2, <2>3, <2>4, MapsHold
<1> QED
  BY <1>2, <1>3, <1>4, <1>5 DEF StoreRight

----------------------------------------------------------------------------
(* Requests *)

(* A request that moves to where it has read what it needs there *)
LEMMA MoveKeeps ==
  ASSUME RequestsRight, NEW i \in Actors, NEW p \in PCs, NEW x \in Locs, LocRight(p, x),
         pc' = [pc EXCEPT ![i] = p], loc' = [loc EXCEPT ![i] = x]
  PROVE  RequestsRight'
<1>1. pc' \in [Actors -> PCs] /\ loc' \in [Actors -> Locs]
  BY DEF RequestsRight
<1>2. \A j \in Actors : LocRight(pc'[j], loc'[j])
  BY DEF RequestsRight
<1> QED
  BY <1>1, <1>2 DEF RequestsRight

(* No push is recorded, and none is made *)
SyncsStay ==
  \A j \in Actors : /\ pc'[j] = "pushed" <=> pc[j] = "pushed"
                    /\ pc[j] = "pushed" => loc'[j] = loc[j]

(* A step that leaves the admin's settings, sessions and syncs alone *)
Ordinary ==
  /\ StoreRight' /\ RequestsRight' /\ SyncsStay
  /\ mem'.hash = mem.hash /\ mem'.after = mem.after /\ mem'.sync = mem.sync
  /\ UNCHANGED <<setup, up, now, sessions, vercel, muddled>>

(* A step that leaves sessions, secret and synchronisation alone keeps both parts *)
LEMMA OrdinaryKeeps ==
  ASSUME ConfigInv, Ordinary
  PROVE  SessionsRight' /\ SyncRight'
<1>1. SessionsRight'
  <2>1. Secret' = Secret
    BY DEF Ordinary, Secret, AdminPassword
  <2>2. \A s \in sessions : SessionRight(s)'
    BY <2>1 DEF Ordinary, ConfigInv, SessionsRight, SessionRight
  <2> QED
    BY <2>2 DEF Ordinary, ConfigInv, SessionsRight
<1>2. SyncRight'
  BY DEF Ordinary, SyncsStay, ConfigInv, SyncRight
<1> QED
  BY <1>1, <1>2

(* Ways to move that leave syncs alone *)
LEMMA StayingIsOrdinary ==
  ASSUME RequestsRight, UNCHANGED <<pc, loc>>
  PROVE  RequestsRight' /\ SyncsStay
  BY DEF RequestsRight, SyncsStay

(* A request that reads moves on and pushes nothing *)
LEMMA ReadingIsOrdinary ==
  ASSUME RequestsRight, NEW i \in Actors, NEW p \in PCs, NEW x \in Locs, Reads(i, p, x),
         LocRight(p, x), p # "pushed"
  PROVE  RequestsRight' /\ SyncsStay
<1>1. RequestsRight'
  BY MoveKeeps DEF Reads
<1>2. SyncsStay
  BY DEF Reads, Begins, RequestsRight, SyncsStay
<1> QED
  BY <1>1, <1>2

(* A request that ends keeps the requests right *)
LEMMA EndingIsRight ==
  ASSUME RequestsRight, NEW i \in Actors, Ends(i)
  PROVE  RequestsRight' /\ (pc[i] # "pushed" => SyncsStay)
<1>1. "idle" \in PCs /\ None \in Locs /\ LocRight("idle", None)
  BY DEF PCs, Locs, LocRight
<1>2. RequestsRight'
  BY <1>1, MoveKeeps DEF Ends
<1>3. pc[i] # "pushed" => SyncsStay
  BY DEF Ends, RequestsRight, SyncsStay
<1> QED
  BY <1>2, <1>3

(* The admin's password, sessions and sync as they were *)
KeepsAdmin(c) == c.hash = mem.hash /\ c.after = mem.after /\ c.sync = mem.sync

SameKeys(c) == c.api = mem.api /\ c.keys = mem.keys

(* The keys it asks for, as names, or none *)
AsksFor(c, keys) == keys = c.api /\ (c.keys = mem.keys \/ c.keys = DOMAIN c.api)

(* A configuration without dangling references stays one *)
Clean(c) == ImportedProxies = {} /\ Dangling(mem) = {} => Dangling(c) = {}

(* What each action is shown to keep *)
Kept == ConfigInv' /\ (ImportedProxies = {} /\ NothingDangles => NothingDangles')

(* References are the same when accounts and proxies are *)
LEMMA SameRestDangles ==
  ASSUME NEW c, NEW d, SameRest(c, d)
  PROVE  Dangling(d) = Dangling(c)
  BY DEF SameRest, Dangling

(* An update by a request that leaves the admin's settings alone *)
LEMMA OrdinaryUpdate ==
  ASSUME ConfigInv, NEW c \in Configs, SetMem(c), KeepsAdmin(c), AsksFor(c, asked'), Clean(c),
         RequestsRight', SyncsStay, UNCHANGED rest
  PROVE  Kept
<1>1. setup' = setup
  BY DEF rest
<1>2. /\ StoreRight' /\ mem' = New(c) /\ SameRest(c, mem')
      /\ mem'.keys = DOMAIN mem'.api /\ DOMAIN status' \subseteq DOMAIN mem'.acc
  BY <1>1, UpdateEffect DEF ConfigInv
<1>3. Ordinary
  BY <1>2 DEF Ordinary, rest, SameRest, KeepsAdmin
<1>4. SessionsRight' /\ SyncRight'
  BY <1>3, OrdinaryKeeps
<1>5. New(c).api = c.api
  BY NewNamed DEF ConfigInv, StoreRight, KeysAsAsked, AsksFor
<1>6. asked' \in APIKeys /\ KeysAsAsked'
  BY <1>2, <1>5, ConfigFields DEF AsksFor, KeysAsAsked
<1>7. ASSUME ImportedProxies = {}, NothingDangles
      PROVE  NothingDangles'
  <2>1. Dangling(c) = {}
    BY <1>7 DEF Clean, NothingDangles
  <2>2. Dangling(mem') = {}
    BY <1>2, <2>1, SameRestDangles
  <2>3. Dangling(mem)' = {}
    BY <2>2 DEF Dangling
  <2> QED
    BY <1>2, <2>3 DEF NothingDangles
<1> QED
  BY <1>2, <1>3, <1>4, <1>6, <1>7 DEF Kept, ConfigInv, Ordinary

(* One by a request that is that update, and by one that had read before *)
LEMMA HandledKeeps ==
  ASSUME ConfigInv, NEW i \in Actors, NEW c \in Configs, Handles(i, c),
         KeepsAdmin(c), AsksFor(c, asked'), Clean(c), UNCHANGED rest
  PROVE  Kept
<1>1. RequestsRight' /\ SyncsStay
  BY StayingIsOrdinary DEF ConfigInv, Handles
<1> QED
  BY <1>1, OrdinaryUpdate DEF Handles

(* An update that ends its request keeps the invariant *)
LEMMA EndedKeeps ==
  ASSUME ConfigInv, NEW i \in Actors, NEW c \in Configs, SetMem(c), Ends(i), pc[i] # "pushed",
         KeepsAdmin(c), AsksFor(c, asked'), Clean(c), UNCHANGED rest
  PROVE  Kept
<1>1. RequestsRight' /\ SyncsStay
  BY EndingIsRight DEF ConfigInv
<1> QED
  BY <1>1, OrdinaryUpdate

(* A step that leaves the store and what was asked for *)
LEMMA IdleKeeps ==
  ASSUME ConfigInv, RequestsRight', SyncsStay, UNCHANGED <<store, rest, asked>>
  PROVE  Kept
<1>1. Ordinary
  BY DEF Ordinary, store, rest, ConfigInv, StoreRight, Unwritten
<1>2. SessionsRight' /\ SyncRight'
  BY <1>1, OrdinaryKeeps
<1>3. asked' \in APIKeys /\ KeysAsAsked'
  BY DEF ConfigInv, store, KeysAsAsked
<1>4. NothingDangles => NothingDangles'
  BY DEF NothingDangles, Dangling, store
<1> QED
  BY <1>1, <1>2, <1>3, <1>4 DEF Kept, ConfigInv, Ordinary

(* A request that reads keeps the invariant *)
LEMMA ReadsKeeps ==
  ASSUME ConfigInv, NEW i \in Actors, NEW p \in PCs, NEW x \in Locs, Reads(i, p, x),
         LocRight(p, x), p # "pushed", UNCHANGED <<store, rest, asked>>
  PROVE  Kept
<1>1. RequestsRight' /\ SyncsStay
  BY ReadingIsOrdinary DEF ConfigInv
<1> QED
  BY <1>1, IdleKeeps

----------------------------------------------------------------------------
(* Keys *)

(* Other keys and names, in the form with names *)
LEMMA NamesKeep ==
  ASSUME mem \in Configs, NEW x \in APIKeys
  PROVE  /\ [mem EXCEPT !.api = x] \in Configs /\ KeepsAdmin([mem EXCEPT !.api = x])
         /\ AsksFor([mem EXCEPT !.api = x], x) /\ Clean([mem EXCEPT !.api = x])
<1> DEFINE c == [mem EXCEPT !.api = x]
<1>1. c \in Configs
  BY ConfigSet
<1>2. c.api = x /\ c.keys = mem.keys /\ SameRest(mem, c)
  BY DEF Configs, ConfigsSynced, SameRest
<1>3. Dangling(c) = Dangling(mem)
  BY <1>2, SameRestDangles
<1> QED
  BY <1>1, <1>2, <1>3 DEF KeepsAdmin, SameRest, AsksFor, Clean

(* Adding a key *)
LEMMA AddKeyKeeps ==
  ASSUME ConfigInv, NEW i \in Actors, AddKey(i)
  PROVE  Kept
<1>1. PICK k \in Keys \ DOMAIN mem.api, nm \in Names \cup {None} :
        /\ Handles(i, [mem EXCEPT !.api = Put(mem.api, k, nm)])
        /\ asked' = Put(asked, k, nm) /\ UNCHANGED rest
  BY DEF AddKey
<1>2. mem \in Configs /\ mem.api = asked /\ asked \in APIKeys
  BY DEF ConfigInv, StoreRight, KeysAsAsked
<1>3. PICK x \in APIKeys : x = Put(asked, k, nm)
  BY <1>2, PutIsMap DEF APIKeys
<1>4. PICK c \in Configs : /\ c = [mem EXCEPT !.api = x] /\ KeepsAdmin(c)
                           /\ AsksFor(c, x) /\ Clean(c)
  BY <1>2, NamesKeep
<1> QED
  BY <1>1, <1>2, <1>3, <1>4, HandledKeeps

(* Renaming a key *)
LEMMA UpdateKeyKeeps ==
  ASSUME ConfigInv, NEW i \in Actors, UpdateKey(i)
  PROVE  Kept
<1>1. PICK k \in DOMAIN mem.api, nm \in Names \cup {None} :
        /\ Handles(i, [mem EXCEPT !.api[k] = nm])
        /\ asked' = Put(asked, k, nm) /\ UNCHANGED rest
  BY DEF UpdateKey
<1>2. mem \in Configs /\ mem.api = asked /\ asked \in APIKeys
  BY DEF ConfigInv, StoreRight, KeysAsAsked
<1>3. DOMAIN asked \subseteq Keys /\ asked \in [DOMAIN asked -> Names \cup {None}]
  BY <1>2, MapsAre DEF APIKeys
<1>4. PICK x \in APIKeys : x = Put(asked, k, nm)
  BY <1>2, <1>3, PutIsMap DEF APIKeys
<1>5. [asked EXCEPT ![k] = nm] = x
  BY <1>2, <1>3, <1>4 DEF Put
<1>6. [mem EXCEPT !.api[k] = nm] = [mem EXCEPT !.api = x]
  BY <1>2, <1>5
<1>7. PICK c \in Configs : /\ c = [mem EXCEPT !.api = x] /\ KeepsAdmin(c)
                           /\ AsksFor(c, x) /\ Clean(c)
  BY <1>2, NamesKeep
<1> QED
  BY <1>1, <1>4, <1>6, <1>7, HandledKeeps

(* Deleting a key *)
LEMMA DeleteKeyKeeps ==
  ASSUME ConfigInv, NEW i \in Actors, DeleteKey(i)
  PROVE  Kept
<1>1. PICK k \in DOMAIN mem.api :
        /\ Handles(i, [mem EXCEPT !.api = Drop(mem.api, k)])
        /\ asked' = Drop(asked, k) /\ UNCHANGED rest
  BY DEF DeleteKey
<1>2. mem \in Configs /\ mem.api = asked /\ asked \in APIKeys
  BY DEF ConfigInv, StoreRight, KeysAsAsked
<1>3. PICK x \in APIKeys : x = Drop(asked, k)
  BY <1>2, DropIsMap DEF APIKeys
<1>4. PICK c \in Configs : /\ c = [mem EXCEPT !.api = x] /\ KeepsAdmin(c)
                           /\ AsksFor(c, x) /\ Clean(c)
  BY <1>2, NamesKeep
<1> QED
  BY <1>1, <1>2, <1>3, <1>4, HandledKeeps

(* Replacing the configuration: its read *)
LEMMA UpdateConfigReadsKeeps ==
  ASSUME ConfigInv, NEW i \in Actors, UpdateConfigReads(i)
  PROVE  Kept
<1>1. [acc |-> mem.acc] \in [acc : AccountMaps]
  BY ConfigFields DEF ConfigInv, StoreRight
<1>2. [acc |-> mem.acc] \in Locs
  BY <1>1 DEF Locs
<1>3. LocRight("config", [acc |-> mem.acc])
  BY <1>1 DEF LocRight
<1>4. "config" \in PCs
  BY DEF PCs
<1> QED
  BY <1>2, <1>3, <1>4, ReadsKeeps DEF UpdateConfigReads

(* PUT /admin/config with keys: as strings, with the names there were, or with names *)
LEMMA UpdateConfigKeysKeeps ==
  ASSUME ConfigInv, NEW i \in Actors, UpdateConfigKeys(i)
  PROVE  Kept
<1>1. pc[i] = "config" /\ Ends(i) /\ UNCHANGED rest
  BY DEF UpdateConfigKeys
<1>2. mem \in Configs /\ mem.api = asked /\ mem.keys = DOMAIN mem.api /\ asked \in APIKeys
  BY DEF ConfigInv, StoreRight, KeysAsAsked
<1>3. CASE \E ks \in SUBSET Keys, nm \in Names :
             SetMem([mem EXCEPT !.api = [k \in ks |-> nm]]) /\ asked' = [k \in ks |-> nm]
  <2>1. PICK ks \in SUBSET Keys, nm \in Names :
          SetMem([mem EXCEPT !.api = [k \in ks |-> nm]]) /\ asked' = [k \in ks |-> nm]
    BY <1>3
  <2>2. [k \in ks |-> nm] \in [ks -> Names \cup {None}]
    OBVIOUS
  <2>3. PICK x \in APIKeys : x = [k \in ks |-> nm]
    BY <2>2, MapsHold DEF APIKeys
  <2>4. PICK c \in Configs : /\ c = [mem EXCEPT !.api = x] /\ KeepsAdmin(c)
                             /\ AsksFor(c, x) /\ Clean(c)
    BY <1>2, NamesKeep
  <2> QED
    BY <1>1, <2>1, <2>3, <2>4, EndedKeeps
<1>4. CASE \E ks \in SUBSET Keys :
             /\ SetMem([mem EXCEPT !.keys = ks])
             /\ asked' = [k \in ks |-> IF k \in DOMAIN asked THEN asked[k] ELSE None]
  <2>1. PICK ks \in SUBSET Keys :
             /\ SetMem([mem EXCEPT !.keys = ks])
             /\ asked' = [k \in ks |-> IF k \in DOMAIN asked THEN asked[k] ELSE None]
    BY <1>4
  <2>2. PICK c \in Configs : c = [mem EXCEPT !.keys = ks]
    BY <1>2, ConfigSet
  <2>3. SameRest(mem, c)
    BY <1>2, <2>2 DEF Configs, ConfigsSynced, SameRest
  <2>4. setup' = setup
    BY <1>1 DEF rest
  <2>5. /\ StoreRight' /\ mem' = New(c) /\ SameRest(c, mem')
        /\ mem'.keys = DOMAIN mem'.api /\ DOMAIN status' \subseteq DOMAIN mem'.acc
    BY <2>1, <2>2, <2>4, UpdateEffect DEF ConfigInv
  <2>6. New(c).api = [k \in ks |-> IF k \in DOMAIN mem.api THEN mem.api[k] ELSE None]
    BY <1>2, <2>2, NewPlain
  <2>7. mem'.api = asked'
    BY <1>2, <2>1, <2>5, <2>6
  <2>8. asked' \in APIKeys /\ KeysAsAsked'
    BY <2>5, <2>7, ConfigFields DEF KeysAsAsked, StoreRight
  <2>9. RequestsRight' /\ SyncsStay
    BY <1>1, EndingIsRight DEF ConfigInv
  <2>10. Ordinary
    BY <1>1, <2>3, <2>5, <2>9 DEF Ordinary, SameRest, rest
  <2>11. NothingDangles => NothingDangles'
    <3>1. Dangling(mem') = Dangling(mem)
      BY <2>3, <2>5, SameRestDangles
    <3> QED
      BY <2>5, <3>1 DEF NothingDangles, Dangling
  <2> QED
    BY <2>5, <2>8, <2>9, <2>10, <2>11, OrdinaryKeeps DEF Kept, ConfigInv
<1> QED
  BY <1>3, <1>4 DEF UpdateConfigKeys

----------------------------------------------------------------------------
(* Accounts, proxies, settings *)

(* Accounts that name a proxy there is, or none *)
Proxied(accs, proxies) == \A a \in DOMAIN accs : accs[a].proxy \in proxies \cup {None}

(* A configuration with other accounts *)
LEMMA AccountsKeep ==
  ASSUME mem \in Configs, NEW x \in AccountMaps
  PROVE  /\ [mem EXCEPT !.acc = x] \in Configs /\ KeepsAdmin([mem EXCEPT !.acc = x])
         /\ AsksFor([mem EXCEPT !.acc = x], mem.api)
         /\ (ImportedProxies = {} /\ Dangling(mem) = {} => Proxied(x, mem.prox))
              => Clean([mem EXCEPT !.acc = x])
<1> DEFINE c == [mem EXCEPT !.acc = x]
<1>1. c \in Configs
  BY ConfigSet
<1>2. c.api = mem.api /\ c.keys = mem.keys /\ c.acc = x /\ c.prox = mem.prox
  BY DEF Configs, ConfigsSynced
<1>3. KeepsAdmin(c)
  BY DEF Configs, ConfigsSynced, KeepsAdmin
<1>4. Proxied(x, mem.prox) => Dangling(c) = {}
  BY <1>2 DEF Dangling, Proxied
<1> QED
  BY <1>1, <1>2, <1>3, <1>4 DEF AsksFor, Clean

(* Without dangling references every account names a proxy there is, or none *)
LEMMA CleanIsProxied ==
  ASSUME NEW c
  PROVE  Dangling(c) = {} <=> Proxied(c.acc, c.prox)
  BY DEF Dangling, Proxied

(* Replacing the accounts, merged with what was read *)
LEMMA UpdateConfigAccountsKeeps ==
  ASSUME ConfigInv, NEW i \in Actors, UpdateConfigAccounts(i)
  PROVE  Kept
<1>1. pc[i] = "config" /\ Ends(i) /\ UNCHANGED <<rest, asked>>
  BY DEF UpdateConfigAccounts
<1>2. PICK S \in SUBSET Accounts, pw \in Passwords \cup {None}, p \in ImportedProxies \cup {None} :
        SetMem([mem EXCEPT !.acc =
          [a \in S |-> [pw |-> IF pw = None /\ a \in DOMAIN loc[i].acc THEN loc[i].acc[a].pw ELSE pw,
                        proxy |-> p, token |-> FALSE]]])
  BY DEF UpdateConfigAccounts
<1>3. mem \in Configs /\ mem.api = asked
  BY DEF ConfigInv, StoreRight, KeysAsAsked
<1>4. loc[i] \in [acc : AccountMaps]
  BY <1>1 DEF ConfigInv, RequestsRight, LocRight
<1>5. PICK old \in AccountMaps : old = loc[i].acc
  BY <1>4
<1>6. \A a \in DOMAIN old : old[a].pw \in Passwords \cup {None}
  <2>1. old \in [DOMAIN old -> Account]
    BY MapsAre DEF AccountMaps
  <2> QED
    BY <2>1 DEF Account
<1> DEFINE new == [a \in S |-> [pw |-> IF pw = None /\ a \in DOMAIN old THEN old[a].pw ELSE pw,
                                proxy |-> p, token |-> FALSE]]
<1>7. p \in Proxies \cup {None}
  BY ConfigAssumption
<1>8. new \in [S -> Account]
  BY <1>6, <1>7 DEF Account
<1>9. PICK x \in AccountMaps : x = new
  BY <1>8, MapsHold DEF AccountMaps
<1>10. ImportedProxies = {} => Proxied(x, mem.prox)
  BY <1>9 DEF Proxied
<1>11. PICK c \in Configs : /\ c = [mem EXCEPT !.acc = x] /\ KeepsAdmin(c)
                            /\ AsksFor(c, mem.api) /\ Clean(c)
  BY <1>3, <1>10, AccountsKeep
<1>12. AsksFor(c, asked') /\ SetMem(c)
  BY <1>1, <1>2, <1>3, <1>5, <1>9, <1>11
<1> QED
  BY <1>1, <1>11, <1>12, EndedKeeps

(* A new account *)
LEMMA NewAccountIs ==
  ASSUME NEW pw \in Passwords, NEW p \in Proxies \cup {None}
  PROVE  NewAccount(pw, p) \in Account /\ NewAccount(pw, p).proxy = p
  BY DEF NewAccount, Account

(* Adding an account *)
LEMMA AddAccountKeeps ==
  ASSUME ConfigInv, NEW i \in Actors, AddAccount(i)
  PROVE  Kept
<1>1. PICK a \in Accounts \ DOMAIN mem.acc, pw \in Passwords, p \in mem.prox \cup {None} :
        /\ Handles(i, [mem EXCEPT !.acc = Put(mem.acc, a, NewAccount(pw, p))])
        /\ UNCHANGED <<rest, asked>>
  BY DEF AddAccount
<1>2. mem \in Configs /\ mem.api = asked
  BY DEF ConfigInv, StoreRight, KeysAsAsked
<1>3. mem.prox \subseteq Proxies /\ mem.acc \in AccountMaps
  BY <1>2, ConfigFields
<1>4. PICK n \in Account : n = NewAccount(pw, p) /\ n.proxy = p
  BY <1>3, NewAccountIs
<1>5. PICK x \in AccountMaps : x = Put(mem.acc, a, n)
  BY <1>3, PutIsMap DEF AccountMaps
<1>6. Proxied(mem.acc, mem.prox) => Proxied(x, mem.prox)
  BY <1>4, <1>5 DEF Proxied, Put
<1>7. PICK c \in Configs : /\ c = [mem EXCEPT !.acc = x] /\ KeepsAdmin(c)
                           /\ AsksFor(c, mem.api) /\ Clean(c)
  BY <1>2, <1>6, AccountsKeep, CleanIsProxied
<1> QED
  BY <1>1, <1>2, <1>4, <1>5, <1>7, HandledKeeps

(* Deleting an account *)
LEMMA DeleteAccountKeeps ==
  ASSUME ConfigInv, NEW i \in Actors, DeleteAccount(i)
  PROVE  Kept
<1>1. PICK a \in DOMAIN mem.acc :
        /\ Handles(i, [mem EXCEPT !.acc = Drop(mem.acc, a)]) /\ UNCHANGED <<rest, asked>>
  BY DEF DeleteAccount
<1>2. mem \in Configs /\ mem.api = asked
  BY DEF ConfigInv, StoreRight, KeysAsAsked
<1>3. PICK x \in AccountMaps : x = Drop(mem.acc, a)
  BY <1>2, ConfigFields, DropIsMap DEF AccountMaps
<1>4. Proxied(mem.acc, mem.prox) => Proxied(x, mem.prox)
  BY <1>3 DEF Proxied, Drop, Restrict
<1>5. PICK c \in Configs : /\ c = [mem EXCEPT !.acc = x] /\ KeepsAdmin(c)
                           /\ AsksFor(c, mem.api) /\ Clean(c)
  BY <1>2, <1>4, AccountsKeep, CleanIsProxied
<1> QED
  BY <1>1, <1>2, <1>3, <1>5, HandledKeeps

(* POST /admin/import adds keys and an account *)
LEMMA BatchImportKeeps ==
  ASSUME ConfigInv, NEW i \in Actors, BatchImport(i)
  PROVE  Kept
<1>1. PICK ks \in SUBSET Keys, a \in Accounts, pw \in Passwords, p \in ImportedProxies \cup {None} :
        /\ Handles(i, [mem EXCEPT !.api = Merged(mem.api, Unnamed(ks)),
                                  !.acc = Added(mem.acc, [x \in {a} |-> NewAccount(pw, p)])])
        /\ asked' = Added(asked, Unnamed(ks)) /\ UNCHANGED rest
  BY DEF BatchImport
<1>2. mem \in Configs /\ mem.api = asked
  BY DEF ConfigInv, StoreRight, KeysAsAsked
<1>3. PICK ap \in APIKeys : ap = Merged(mem.api, Unnamed(ks)) /\ ap = asked'
  BY <1>1, <1>2, ConfigFields, UnnamedIsMap, MergedIsMap, MergedUnnamed
<1>4. PICK n \in Account : n = NewAccount(pw, p) /\ n.proxy = p
  BY ConfigAssumption, NewAccountIs
<1>5. [x \in {a} |-> n] \in AccountMaps
  <2>1. [x \in {a} |-> n] \in [{a} -> Account] /\ {a} \in SUBSET Accounts
    OBVIOUS
  <2> QED
    BY <2>1, MapsHold DEF AccountMaps
<1>6. PICK accs \in AccountMaps : accs = Added(mem.acc, [x \in {a} |-> n])
  BY <1>2, <1>5, ConfigFields, AddedIsMap DEF AccountMaps
<1>7. PICK m \in Configs : m = [mem EXCEPT !.api = ap]
  BY <1>2, ConfigSet
<1>8. PICK c \in Configs : c = [m EXCEPT !.acc = accs]
  BY ConfigSet
<1>9. /\ c.api = ap /\ c.keys = mem.keys /\ c.acc = accs /\ c.prox = mem.prox
      /\ c.hash = mem.hash /\ c.after = mem.after /\ c.sync = mem.sync
      /\ c = [mem EXCEPT !.api = ap, !.acc = accs]
  BY <1>2, <1>7, <1>8 DEF Configs, ConfigsSynced
<1>10. ImportedProxies = {} /\ Proxied(mem.acc, mem.prox) => Proxied(accs, mem.prox)
  <2>1. ASSUME ImportedProxies = {}, Proxied(mem.acc, mem.prox), NEW b \in DOMAIN accs
        PROVE  accs[b].proxy \in mem.prox \cup {None}
    BY <1>4, <1>6, <2>1 DEF Proxied, Added
  <2> QED
    BY <2>1 DEF Proxied
<1>11. Clean(c)
  BY <1>9, <1>10, CleanIsProxied DEF Clean
<1>12. Handles(i, c)
  BY <1>1, <1>3, <1>4, <1>6, <1>9
<1>13. KeepsAdmin(c) /\ AsksFor(c, asked')
  BY <1>3, <1>9 DEF KeepsAdmin, AsksFor
<1> QED
  BY <1>1, <1>11, <1>12, <1>13, HandledKeeps

(* A change that was checked for dangling references *)
LEMMA ProxyMutationKeeps ==
  ASSUME ConfigInv, NEW i \in Actors, NEW c \in Configs, ProxyMutation(i, c),
         KeepsAdmin(c), SameKeys(c)
  PROVE  Kept
<1>1. Clean(c)
  BY DEF ProxyMutation, Clean
<1>2. AsksFor(c, asked')
  BY DEF ProxyMutation, SameKeys, AsksFor, ConfigInv, KeysAsAsked
<1> QED
  BY <1>1, <1>2, HandledKeeps DEF ProxyMutation

(* The mutations of proxies *)
LEMMA ProxiesKeep ==
  ASSUME ConfigInv, NEW i \in Actors,
         AddProxy(i) \/ UpdateProxy(i) \/ DeleteProxy(i) \/ SetAccountProxy(i)
  PROVE  Kept
<1>1. mem \in Configs
  BY DEF ConfigInv, StoreRight
<1>2. mem.prox \subseteq Proxies /\ mem.acc \in AccountMaps
  BY <1>1, ConfigFields
<1>3. DOMAIN mem.acc \subseteq Accounts /\ mem.acc \in [DOMAIN mem.acc -> Account]
  BY <1>2, MapsAre DEF AccountMaps
<1>4. ASSUME NEW ps \in SUBSET Proxies, NEW accs \in AccountMaps
      PROVE  LET c == [mem EXCEPT !.prox = ps, !.acc = accs]
             IN  c \in Configs /\ KeepsAdmin(c) /\ SameKeys(c)
  <2> DEFINE c == [mem EXCEPT !.prox = ps, !.acc = accs]
  <2>1. c \in Configs
    BY <1>1 DEF Configs, ConfigsSynced
  <2>2. KeepsAdmin(c) /\ SameKeys(c)
    BY <1>1 DEF Configs, ConfigsSynced, KeepsAdmin, SameKeys
  <2> QED
    BY <2>1, <2>2
<1>5. CASE AddProxy(i)
  <2>1. PICK p \in Proxies \ mem.prox : ProxyMutation(i, [mem EXCEPT !.prox = mem.prox \cup {p}])
    BY <1>5 DEF AddProxy
  <2>2. PICK ps \in SUBSET Proxies : ps = mem.prox \cup {p}
    BY <1>2
  <2>3. PICK accs \in AccountMaps : accs = mem.acc
    BY <1>2
  <2>4. PICK c \in Configs : /\ c = [mem EXCEPT !.prox = ps, !.acc = accs]
                             /\ KeepsAdmin(c) /\ SameKeys(c)
    BY <1>4
  <2>5. c = [mem EXCEPT !.prox = ps]
    BY <1>1, <2>3, <2>4 DEF Configs, ConfigsSynced
  <2> QED
    BY <2>1, <2>2, <2>4, <2>5, ProxyMutationKeeps
<1>6. CASE UpdateProxy(i)
  BY <1>1, <1>6, ProxyMutationKeeps DEF UpdateProxy, KeepsAdmin, SameKeys
<1>7. CASE DeleteProxy(i)
  <2>1. PICK p \in mem.prox :
          ProxyMutation(i, [mem EXCEPT !.prox = mem.prox \ {p}, !.acc = Unproxied(mem.acc, p)])
    BY <1>7 DEF DeleteProxy
  <2>2. PICK ps \in SUBSET Proxies : ps = mem.prox \ {p}
    BY <1>2
  <2>3. ASSUME NEW x \in Account
        PROVE  [x EXCEPT !.proxy = IF x.proxy = p THEN None ELSE x.proxy] \in Account
    BY DEF Account
  <2>4. Unproxied(mem.acc, p) \in [DOMAIN mem.acc -> Account]
    BY <1>3, <2>3 DEF Unproxied
  <2>5. PICK accs \in AccountMaps : accs = Unproxied(mem.acc, p)
    BY <1>3, <2>4, MapsHold DEF AccountMaps
  <2>6. PICK c \in Configs : /\ c = [mem EXCEPT !.prox = ps, !.acc = accs]
                             /\ KeepsAdmin(c) /\ SameKeys(c)
    BY <1>4
  <2> QED
    BY <2>1, <2>2, <2>5, <2>6, ProxyMutationKeeps
<1>8. CASE SetAccountProxy(i)
  <2>1. PICK a \in DOMAIN mem.acc, p \in mem.prox \cup {None} :
          ProxyMutation(i, [mem EXCEPT !.acc[a].proxy = p])
    BY <1>8 DEF SetAccountProxy
  <2>2. [mem.acc[a] EXCEPT !.proxy = p] \in Account
    BY <1>2, <1>3 DEF Account
  <2>3. PICK n \in Account : n = [mem.acc[a] EXCEPT !.proxy = p]
    BY <2>2
  <2>4. [mem.acc EXCEPT ![a] = n] \in [DOMAIN mem.acc -> Account]
    BY <1>3
  <2>5. PICK accs \in AccountMaps : accs = [mem.acc EXCEPT ![a] = n]
    BY <1>3, <2>4, MapsHold DEF AccountMaps
  <2>6. PICK ps \in SUBSET Proxies : ps = mem.prox
    BY <1>2
  <2>7. PICK c \in Configs : /\ c = [mem EXCEPT !.prox = ps, !.acc = accs]
                             /\ KeepsAdmin(c) /\ SameKeys(c)
    BY <1>4
  <2>8. c = [mem EXCEPT !.acc[a].proxy = p]
    <3>1. c = [mem EXCEPT !.acc = accs]
      BY <1>1, <2>6, <2>7 DEF Configs, ConfigsSynced
    <3> QED
      BY <2>3, <2>5, <3>1
  <2> QED
    BY <2>1, <2>7, <2>8, ProxyMutationKeeps
<1> QED
  BY <1>5, <1>6, <1>7, <1>8

(* Changing an account *)
LEMMA UpdateAccountKeeps ==
  ASSUME ConfigInv, NEW i \in Actors, UpdateAccount(i)
  PROVE  Kept
<1>1. mem \in Configs /\ mem.api = asked
  BY DEF ConfigInv, StoreRight, KeysAsAsked
<1>2. KeepsAdmin(mem) /\ AsksFor(mem, asked') /\ Clean(mem)
  BY <1>1 DEF UpdateAccount, KeepsAdmin, AsksFor, Clean
<1> QED
  BY <1>1, <1>2, HandledKeeps DEF UpdateAccount

(* Changing the settings: the read of the limits *)
LEMMA SettingsReadsKeeps ==
  ASSUME ConfigInv, NEW i \in Actors, SettingsReads(i)
  PROVE  Kept
<1>1. PICK l \in Settings : Reads(i, "settings", l) /\ UNCHANGED <<store, rest, asked>>
  BY DEF SettingsReads
<1>2. l \in Locs /\ LocRight("settings", l) /\ "settings" \in PCs
  BY DEF Locs, LocRight, PCs
<1> QED
  BY <1>1, <1>2, ReadsKeeps

(* Changing the settings: the update *)
LEMMA SettingsUpdatesKeeps ==
  ASSUME ConfigInv, NEW i \in Actors, SettingsUpdates(i)
  PROVE  Kept
<1>1. /\ pc[i] = "settings" /\ SetMem(Limited(mem, loc[i])) /\ Ends(i)
      /\ UNCHANGED <<rest, asked>>
  BY DEF SettingsUpdates
<1>2. mem \in Configs /\ mem.api = asked
  BY DEF ConfigInv, StoreRight, KeysAsAsked
<1>3. loc[i] \in Settings
  BY <1>1 DEF ConfigInv, RequestsRight, LocRight
<1>4. loc[i].infl \in Nat /\ loc[i].glob \in Nat
  <2>1. loc[i] \in [infl : Limits \cup {0}, glob : Limits \cup {0}]
    BY <1>3 DEF Settings
  <2>2. Limits \cup {0} \subseteq Nat
    BY ConfigAssumption
  <2>3. loc[i].infl \in Limits \cup {0} /\ loc[i].glob \in Limits \cup {0}
    BY <2>1
  <2> QED
    BY <2>2, <2>3
<1>5. PICK m \in Nat : m = IF loc[i].infl > 0 THEN loc[i].infl ELSE mem.infl
  BY <1>2, <1>4, ConfigFields
<1>6. PICK g \in Nat : g = IF loc[i].glob > 0 THEN loc[i].glob ELSE mem.glob
  BY <1>2, <1>4, ConfigFields
<1>7. [mem EXCEPT !.infl = m, !.glob = g] \in Configs
  BY <1>2 DEF Configs, ConfigsSynced
<1>8. PICK c \in Configs : c = [mem EXCEPT !.infl = m, !.glob = g]
  BY <1>7
<1>9. c = Limited(mem, loc[i])
  BY <1>5, <1>6, <1>8 DEF Limited
<1>10. /\ c.api = mem.api /\ c.keys = mem.keys /\ c.acc = mem.acc /\ c.prox = mem.prox
       /\ c.hash = mem.hash /\ c.after = mem.after /\ c.sync = mem.sync
  BY <1>2, <1>8 DEF Configs, ConfigsSynced
<1>11. KeepsAdmin(c) /\ AsksFor(c, asked')
  BY <1>1, <1>2, <1>10 DEF KeepsAdmin, AsksFor
<1>12. Clean(c)
  BY <1>10 DEF Clean, Dangling
<1> QED
  BY <1>1, <1>9, <1>11, <1>12, EndedKeeps

----------------------------------------------------------------------------
(* Imports of a configuration, which may bring another password *)

(* An import whose configuration has no dangling reference *)
LEMMA ImportKeeps ==
  ASSUME ConfigInv, NEW i \in Actors, NEW c \in Configs, Handles(i, c),
         c.sync = mem.sync, AsksFor(c, asked'), Dangling(c) = {}, sessions' = Followed(c),
         UNCHANGED <<setup, up, now, vercel, muddled, restarts>>
  PROVE  Kept
<1>1. RequestsRight' /\ SyncsStay
  BY StayingIsOrdinary DEF ConfigInv, Handles
<1>2. /\ StoreRight' /\ mem' = New(c) /\ SameRest(c, mem')
      /\ mem'.keys = DOMAIN mem'.api /\ DOMAIN status' \subseteq DOMAIN mem'.acc
  BY UpdateEffect DEF ConfigInv, Handles
<1>3. CASE c.hash = mem.hash /\ c.after = mem.after
  <2>1. sessions' = sessions
    BY <1>3 DEF Followed
  <2>2. UNCHANGED rest
    BY <2>1 DEF rest
  <2> QED
    BY <1>3, <2>2, HandledKeeps DEF KeepsAdmin, Clean
<1>4. CASE ~(c.hash = mem.hash /\ c.after = mem.after)
  <2>1. sessions' = {}
    BY <1>4 DEF Followed
  <2>2. SessionsRight'
    BY <2>1 DEF ConfigInv, SessionsRight
  <2>3. mem'.sync = mem.sync
    BY <1>2 DEF SameRest
  <2>4. SyncRight'
    BY <1>1, <2>3 DEF ConfigInv, SyncRight, SyncsStay
  <2>5. New(c).api = c.api
    BY NewNamed DEF ConfigInv, StoreRight, KeysAsAsked, AsksFor
  <2>6. asked' \in APIKeys /\ KeysAsAsked'
    BY <1>2, <2>5, ConfigFields DEF AsksFor, KeysAsAsked
  <2>7. NothingDangles'
    <3>1. Dangling(mem') = {}
      BY <1>2, SameRestDangles
    <3>2. Dangling(mem)' = {}
      BY <3>1 DEF Dangling
    <3> QED
      BY <1>2, <3>2 DEF NothingDangles
  <2> QED
    BY <1>1, <1>2, <2>2, <2>4, <2>6, <2>7 DEF Kept, ConfigInv
<1> QED
  BY <1>3, <1>4

(* Importing in place of the configuration *)
LEMMA ImportReplaceKeeps ==
  ASSUME ConfigInv, NEW i \in Actors, ImportReplace(i)
  PROVE  Kept
<1>1. PICK new \in Imports :
        /\ Valid(new) /\ Handles(i, [Stored(new) EXCEPT !.sync = mem.sync])
        /\ asked' = new.api /\ sessions' = Followed(new)
        /\ UNCHANGED <<setup, up, now, vercel, muddled, restarts>>
  BY DEF ImportReplace
<1>2. new \in Configs /\ new.keys = DOMAIN new.api
  BY TextsAssumption
<1>3. PICK s \in Configs :
        /\ s = Stored(new) /\ s.api = new.api /\ s.keys = new.keys /\ s.prox = new.prox
        /\ s.hash = new.hash /\ s.after = new.after /\ DOMAIN s.acc = DOMAIN new.acc
        /\ \A a \in DOMAIN new.acc : s.acc[a].proxy = new.acc[a].proxy
  BY <1>2, StoredIsConfig
<1>4. PICK y \in Hashes \cup {None} : y = mem.sync
  BY ConfigFields DEF ConfigInv, StoreRight
<1>5. PICK c \in Configs : c = [s EXCEPT !.sync = y]
  BY ConfigSet
<1>6. /\ c.api = s.api /\ c.keys = s.keys /\ c.prox = s.prox /\ c.acc = s.acc
      /\ c.hash = s.hash /\ c.after = s.after /\ c.sync = y
  BY <1>5 DEF Configs, ConfigsSynced
<1>7. Dangling(c) = {}
  BY <1>1, <1>3, <1>6 DEF Valid, Dangling
<1>8. AsksFor(c, asked') /\ sessions' = Followed(c)
  BY <1>1, <1>2, <1>3, <1>6 DEF AsksFor, Followed
<1> QED
  BY <1>1, <1>3, <1>4, <1>5, <1>6, <1>7, <1>8, ImportKeeps

(* Importing into the configuration *)
LEMMA ImportMergeKeeps ==
  ASSUME ConfigInv, NEW i \in Actors, ImportMerge(i)
  PROVE  Kept
<1> DEFINE Next1(c) ==
      [mem EXCEPT !.api = Merged(mem.api, c.api), !.acc = Added(mem.acc, Stored(c).acc),
                  !.hash = IF c.hash # None THEN c.hash ELSE mem.hash,
                  !.after = IF c.after > 0 THEN c.after ELSE mem.after,
                  !.infl = IF c.infl > 0 THEN c.infl ELSE mem.infl,
                  !.glob = IF c.glob > 0 THEN c.glob ELSE mem.glob]
<1>1. PICK new \in Imports :
        /\ Valid(Next1(new)) /\ Handles(i, Next1(new))
        /\ asked' = Merged(asked, new.api) /\ sessions' = Followed(Next1(new))
        /\ UNCHANGED <<setup, up, now, vercel, muddled, restarts>>
  BY DEF ImportMerge
<1>2. new \in Configs /\ mem \in Configs /\ mem.api = asked
  BY TextsAssumption DEF ConfigInv, StoreRight, KeysAsAsked
<1>3. PICK ap \in APIKeys : ap = Merged(mem.api, new.api)
  BY <1>2, ConfigFields, MergedIsMap
<1>4. PICK accs \in AccountMaps : accs = Added(mem.acc, Stored(new).acc)
  <2>1. Stored(new).acc \in AccountMaps /\ mem.acc \in AccountMaps
    BY <1>2, StoredIsConfig, ConfigFields
  <2> QED
    BY <2>1, AddedIsMap DEF AccountMaps
<1>5. PICK h \in Passwords \cup {None} : h = IF new.hash # None THEN new.hash ELSE mem.hash
  BY <1>2, ConfigFields
<1>6. PICK t \in Nat : t = IF new.after > 0 THEN new.after ELSE mem.after
  BY <1>2, ConfigFields
<1>7. PICK m \in Nat : m = IF new.infl > 0 THEN new.infl ELSE mem.infl
  BY <1>2, ConfigFields
<1>8. PICK g \in Nat : g = IF new.glob > 0 THEN new.glob ELSE mem.glob
  BY <1>2, ConfigFields
<1> HIDE DEF Next1
<1>9. Next1(new) = [mem EXCEPT !.api = ap, !.acc = accs, !.hash = h, !.after = t,
                               !.infl = m, !.glob = g]
  BY <1>3, <1>4, <1>5, <1>6, <1>7, <1>8 DEF Next1
<1>10. PICK c \in Configs : c = Next1(new)
  BY <1>2, <1>9 DEF Configs, ConfigsSynced
<1>11. c.api = ap /\ c.keys = mem.keys /\ c.sync = mem.sync
  BY <1>2, <1>9, <1>10 DEF Configs, ConfigsSynced
<1>12. AsksFor(c, asked') /\ Dangling(c) = {}
  BY <1>1, <1>2, <1>3, <1>10, <1>11 DEF AsksFor, Valid
<1> QED
  BY <1>1, <1>10, <1>11, <1>12, ImportKeeps

----------------------------------------------------------------------------
(* Tests of accounts *)

(* Testing an account: the read *)
LEMMA TestReadsKeeps ==
  ASSUME ConfigInv, NEW i \in Actors, TestReads(i)
  PROVE  Kept
<1>1. PICK a \in DOMAIN mem.acc :
        Reads(i, "login", [id |-> a]) /\ UNCHANGED <<store, rest, asked>>
  BY DEF TestReads
<1>2. a \in Accounts
  BY ConfigFields, MapsAre DEF ConfigInv, StoreRight, AccountMaps
<1>3. [id |-> a] \in [id : Accounts]
  BY <1>2
<1>4. [id |-> a] \in Locs /\ LocRight("login", [id |-> a]) /\ "login" \in PCs
  BY <1>3 DEF Locs, LocRight, PCs
<1> QED
  BY <1>1, <1>4, ReadsKeeps

(* Testing an account: the login, which saves its token *)
LEMMA TestLogsInKeeps ==
  ASSUME ConfigInv, NEW i \in Actors, TestLogsIn(i)
  PROVE  Kept
<1>1. /\ pc[i] \in {"login", "tested"} /\ pc' = [pc EXCEPT ![i] = "tested"]
      /\ UNCHANGED <<rest, asked, loc, ops>>
  BY DEF TestLogsIn
<1>2. RequestsRight' /\ SyncsStay
  <2>1. PICK x \in Locs : x = loc[i]
    BY DEF ConfigInv, RequestsRight
  <2>2. LocRight("tested", x)
    BY <1>1, <2>1 DEF ConfigInv, RequestsRight, LocRight
  <2>3. loc' = [loc EXCEPT ![i] = x]
    BY <1>1, <2>1 DEF ConfigInv, RequestsRight
  <2>4. RequestsRight'
    BY <1>1, <2>2, <2>3, MoveKeeps DEF ConfigInv, PCs
  <2>5. SyncsStay
    BY <1>1 DEF SyncsStay, ConfigInv, RequestsRight
  <2> QED
    BY <2>4, <2>5
<1>3. CASE loc[i].id \notin DOMAIN mem.acc
  BY <1>1, <1>2, <1>3, IdleKeeps DEF TestLogsIn
<1>4. CASE loc[i].id \in DOMAIN mem.acc
  <2>1. PICK a \in DOMAIN mem.acc : a = loc[i].id
    BY <1>4
  <2>2. mem \in Configs /\ mem.acc \in AccountMaps
    BY ConfigFields DEF ConfigInv, StoreRight
  <2>3. DOMAIN mem.acc \in SUBSET Accounts /\ mem.acc \in [DOMAIN mem.acc -> Account]
    BY <2>2, MapsAre DEF AccountMaps
  <2>4. PICK n \in Account : n = [mem.acc[a] EXCEPT !.token = TRUE] /\ n.proxy = mem.acc[a].proxy
    <3>1. mem.acc[a] \in Account
      BY <2>3
    <3>2. PICK o \in Account : o = mem.acc[a]
      BY <3>1
    <3>3. [o EXCEPT !.token = TRUE] \in Account
      BY DEF Account
    <3>4. [o EXCEPT !.token = TRUE].proxy = o.proxy
      BY DEF Account
    <3> QED
      BY <3>2, <3>3, <3>4
  <2>5. [mem.acc EXCEPT ![a] = n] \in [DOMAIN mem.acc -> Account]
    BY <2>3
  <2>6. PICK accs \in AccountMaps : accs = [mem.acc EXCEPT ![a] = n]
    BY <2>3, <2>5, MapsHold DEF AccountMaps
  <2>7. PICK c \in Configs : c = [mem EXCEPT !.acc = accs]
    BY <2>2, ConfigSet
  <2>8. /\ c.api = mem.api /\ c.keys = mem.keys /\ c.acc = accs /\ c.prox = mem.prox
        /\ c.hash = mem.hash /\ c.after = mem.after /\ c.sync = mem.sync
    BY <2>2, <2>7 DEF Configs, ConfigsSynced
  <2>9. PICK ok \in BOOLEAN : mem' = c /\ UNCHANGED status /\ Save(c, ok)
    BY <1>4, <2>1, <2>4, <2>6, <2>7 DEF TestLogsIn
  <2>10. /\ fromEnv' \in BOOLEAN
         /\ disk' \in Configs \cup {None, Broken} /\ promise' \in Configs \cup {None}
         /\ Unwritten' => fromEnv' /\ promise' = None
         /\ promise' # None => disk' = promise'
    BY <1>1, <2>9, SaveKeeps DEF ConfigInv, rest
  <2>11. StoreRight'
    BY <1>1, <2>9, <2>10 DEF ConfigInv, StoreRight, rest
  <2>12. Ordinary
    BY <1>1, <1>2, <2>8, <2>9, <2>11 DEF Ordinary, rest
  <2>13. asked' \in APIKeys /\ KeysAsAsked'
    BY <1>1, <2>8, <2>9 DEF ConfigInv, KeysAsAsked
  <2>14. NothingDangles => NothingDangles'
    <3>1. DOMAIN accs = DOMAIN mem.acc
          /\ \A b \in DOMAIN mem.acc : accs[b].proxy = mem.acc[b].proxy
      BY <2>3, <2>4, <2>6
    <3>2. Dangling(mem) = {} => Dangling(c) = {}
      BY <2>8, <3>1 DEF Dangling
    <3>3. Dangling(mem) = {} => Dangling(mem)' = {}
      BY <2>9, <3>2 DEF Dangling
    <3> QED
      BY <2>8, <2>9, <3>1, <3>3 DEF NothingDangles
  <2> QED
    BY <1>2, <2>11, <2>12, <2>13, <2>14, OrdinaryKeeps DEF Kept, ConfigInv
<1> QED
  BY <1>3, <1>4

(* Testing an account: the status *)
LEMMA TestEndsKeeps ==
  ASSUME ConfigInv, NEW i \in Actors, TestEnds(i)
  PROVE  Kept
<1>1. /\ pc[i] \in {"login", "tested"} /\ Ends(i)
      /\ UNCHANGED <<rest, asked, mem, fromEnv, disk, promise>>
  BY DEF TestEnds
<1>2. RequestsRight' /\ SyncsStay
  BY <1>1, EndingIsRight DEF ConfigInv
<1>3. PICK ok \in BOOLEAN :
        status' = IF loc[i].id \in DOMAIN mem.acc THEN Put(status, loc[i].id, ok) ELSE status
  BY DEF TestEnds
<1>4. /\ status' \in Maps(Accounts, BOOLEAN)
      /\ DOMAIN status \subseteq DOMAIN mem.acc => DOMAIN status' \subseteq DOMAIN mem.acc
  <2>1. loc[i].id \in Accounts
    BY <1>1 DEF ConfigInv, RequestsRight, LocRight
  <2>2. PICK a \in Accounts : a = loc[i].id
    BY <2>1
  <2>3. status \in Maps(Accounts, BOOLEAN)
    BY DEF ConfigInv, StoreRight
  <2>4. /\ Put(status, a, ok) \in Maps(Accounts, BOOLEAN)
        /\ DOMAIN Put(status, a, ok) = DOMAIN status \cup {a}
    BY <2>3, PutIsMap
  <2> QED
    BY <1>3, <2>2, <2>3, <2>4
<1>5. StoreRight'
  BY <1>1, <1>4 DEF ConfigInv, StoreRight, Unwritten, rest
<1>6. Ordinary
  BY <1>1, <1>2, <1>5 DEF Ordinary, rest
<1>7. asked' \in APIKeys /\ KeysAsAsked'
  BY <1>1 DEF ConfigInv, KeysAsAsked
<1>8. NothingDangles => NothingDangles'
  BY <1>1, <1>4 DEF NothingDangles, Dangling
<1> QED
  BY <1>2, <1>5, <1>6, <1>7, <1>8, OrdinaryKeeps DEF Kept, ConfigInv

(* Deleting the sessions of an account upstream *)
LEMMA DeleteAllSessionsKeeps ==
  ASSUME ConfigInv, NEW i \in Actors, DeleteAllSessions(i)
  PROVE  Kept
<1>1. RequestsRight' /\ SyncsStay
  BY EndingIsRight DEF ConfigInv, DeleteAllSessions
<1> QED
  BY <1>1, IdleKeeps DEF DeleteAllSessions

----------------------------------------------------------------------------
(* The password, the sessions and the clock *)

(* What sessions are signed with *)
LEMMA SecretIs ==
  ASSUME mem \in Configs
  PROVE  Secret \in Passwords \cup {"secret", "admin"}
  BY ConfigFields DEF Secret, AdminPassword

(***************************************************************************)
(* A new password: every session there is was issued no later than now, as *)
(* the last second cut off is before it.                                   *)
(***************************************************************************)
LEMMA UpdatePasswordKeeps ==
  ASSUME ConfigInv, NEW i \in Actors, UpdatePassword(i)
  PROVE  Kept
<1>1. PICK pw \in Passwords :
        /\ now > mem.after
        /\ Handles(i, [mem EXCEPT !.hash = pw, !.after = now])
        /\ sessions' = {[s EXCEPT !.live = FALSE] : s \in sessions}
        /\ UNCHANGED <<setup, up, now, vercel, muddled, restarts, asked>>
  BY DEF UpdatePassword
<1>2. /\ mem \in Configs /\ mem.api = asked /\ mem.after \in Nat /\ now \in Nat /\ now >= 1
      /\ sessions \subseteq Session
  BY ConfigFields DEF ConfigInv, StoreRight, KeysAsAsked, SessionsRight
<1>3. PICK h \in Passwords \cup {None} : h = pw
  OBVIOUS
<1>4. PICK t \in Nat : t = now
  BY <1>2
<1>5. [mem EXCEPT !.hash = h, !.after = t] \in Configs
  BY <1>2 DEF Configs, ConfigsSynced
<1>6. PICK c \in Configs : c = [mem EXCEPT !.hash = h, !.after = t]
  BY <1>5
<1>7. /\ c.api = mem.api /\ c.keys = mem.keys /\ c.acc = mem.acc /\ c.prox = mem.prox
      /\ c.hash = h /\ c.after = t /\ c.sync = mem.sync
  BY <1>2, <1>6 DEF Configs, ConfigsSynced
<1>8. Handles(i, c)
  BY <1>1, <1>3, <1>4, <1>6
<1>9. RequestsRight' /\ SyncsStay
  BY <1>8, StayingIsOrdinary DEF ConfigInv, Handles
<1>10. /\ StoreRight' /\ mem' = New(c) /\ SameRest(c, mem')
       /\ mem'.keys = DOMAIN mem'.api /\ DOMAIN status' \subseteq DOMAIN mem'.acc
  BY <1>1, <1>8, UpdateEffect DEF ConfigInv, Handles
<1>11. New(c).api = c.api
  BY <1>7, NewNamed DEF ConfigInv, StoreRight, KeysAsAsked
<1>12. asked' \in APIKeys /\ KeysAsAsked'
  BY <1>1, <1>2, <1>7, <1>10, <1>11 DEF ConfigInv, KeysAsAsked
<1>13. SessionsRight'
  <2>1. ASSUME NEW s \in Session
        PROVE  /\ [s EXCEPT !.live = FALSE] \in Session
               /\ [s EXCEPT !.live = FALSE].iat = s.iat /\ [s EXCEPT !.live = FALSE].live = FALSE
    BY DEF Session
  <2>2. sessions' \in SUBSET Session
    BY <1>1, <1>2, <2>1
  <2>3. mem'.after = now /\ now' = now
    BY <1>1, <1>4, <1>7, <1>10 DEF SameRest
  <2>4. ASSUME NEW x \in sessions'
        PROVE  SessionRight(x)'
    <3>1. PICK s \in sessions : x = [s EXCEPT !.live = FALSE]
      BY <1>1
    <3>2. x.iat = s.iat /\ x.live = FALSE
      BY <1>2, <2>1, <3>1
    <3>3. s.iat \in Nat
      BY <1>2 DEF Session
    <3>4. s.iat <= now \/ s.iat <= mem.after + 1
      BY DEF ConfigInv, SessionsRight, SessionRight
    <3>5. s.iat <= now
      BY <1>1, <1>2, <3>3, <3>4
    <3> QED
      BY <1>2, <2>3, <3>2, <3>5 DEF SessionRight
  <2> QED
    BY <1>2, <2>2, <2>3, <2>4 DEF SessionsRight
<1>14. SyncRight'
  <2>1. mem'.sync = mem.sync
    BY <1>7, <1>10 DEF SameRest
  <2> QED
    BY <1>1, <1>9, <2>1 DEF ConfigInv, SyncRight, SyncsStay
<1>15. NothingDangles => NothingDangles'
  <2>1. Dangling(c) = Dangling(mem)
    BY <1>7 DEF Dangling
  <2>2. Dangling(mem') = Dangling(c)
    BY <1>10, SameRestDangles
  <2> QED
    BY <1>10, <2>1, <2>2 DEF NothingDangles, Dangling
<1> QED
  BY <1>9, <1>10, <1>12, <1>13, <1>14, <1>15 DEF Kept, ConfigInv

(* Logging in: the check of the password *)
LEMMA LoginChecksKeeps ==
  ASSUME ConfigInv, NEW i \in Actors, LoginChecks(i)
  PROVE  Kept
<1>1. "admin" \in PCs /\ None \in Locs /\ LocRight("admin", None)
  BY DEF PCs, Locs, LocRight
<1> QED
  BY <1>1, ReadsKeeps DEF LoginChecks

(* Logging in: the session *)
LEMMA LoginIssuesKeeps ==
  ASSUME ConfigInv, NEW i \in Actors, LoginIssues(i)
  PROVE  Kept
<1>1. /\ pc[i] = "admin" /\ Ends(i)
      /\ sessions' = sessions \cup {[iat |-> IssuedAt, secret |-> Secret, live |-> TRUE]}
      /\ UNCHANGED <<store, setup, up, now, vercel, muddled, restarts, asked>>
  BY DEF LoginIssues
<1>2. RequestsRight' /\ SyncsStay
  BY <1>1, EndingIsRight DEF ConfigInv
<1>3. StoreRight'
  BY <1>1 DEF ConfigInv, StoreRight, store, Unwritten
<1>4. SyncRight'
  BY <1>1, <1>2 DEF ConfigInv, SyncRight, SyncsStay, store
<1>5. asked' \in APIKeys /\ KeysAsAsked' /\ (NothingDangles => NothingDangles')
  BY <1>1 DEF ConfigInv, KeysAsAsked, NothingDangles, Dangling, store
<1>6. SessionsRight'
  <2>1. mem.after \in Nat /\ now \in Nat /\ now >= 1 /\ sessions \subseteq Session
    BY ConfigFields DEF ConfigInv, StoreRight, SessionsRight
  <2>2. PICK t \in Nat : t = IssuedAt /\ t > mem.after /\ (t <= now \/ t <= mem.after + 1)
    BY <2>1 DEF IssuedAt
  <2>3. PICK x : x = [iat |-> t, secret |-> Secret, live |-> TRUE]
    OBVIOUS
  <2>4. x \in Session /\ x.iat = t /\ x.secret = Secret /\ x.live = TRUE
    BY <2>3, SecretIs DEF Session, ConfigInv, StoreRight
  <2>5. mem' = mem /\ now' = now /\ Secret' = Secret /\ sessions' = sessions \cup {x}
    BY <1>1, <2>2, <2>3 DEF store, Secret, AdminPassword
  <2>6. SessionRight(x)'
    BY <2>2, <2>4, <2>5 DEF SessionRight
  <2>7. \A s \in sessions : SessionRight(s)'
    BY <2>5 DEF ConfigInv, SessionsRight, SessionRight
  <2> QED
    BY <2>1, <2>4, <2>5, <2>6, <2>7 DEF SessionsRight
<1> QED
  BY <1>2, <1>3, <1>4, <1>5, <1>6 DEF Kept, ConfigInv

(* Time passes *)
LEMMA TickKeeps ==
  ASSUME ConfigInv, Tick
  PROVE  Kept
<1>1. /\ now' = now + 1
      /\ UNCHANGED <<store, setup, up, sessions, vercel, muddled, restarts, asked, pc, loc, ops>>
  BY DEF Tick
<1>2. RequestsRight' /\ SyncsStay
  BY <1>1, StayingIsOrdinary DEF ConfigInv
<1>3. StoreRight' /\ SyncRight'
  BY <1>1 DEF ConfigInv, StoreRight, store, Unwritten, SyncRight
<1>4. asked' \in APIKeys /\ KeysAsAsked' /\ (NothingDangles => NothingDangles')
  BY <1>1 DEF ConfigInv, KeysAsAsked, NothingDangles, Dangling, store
<1>5. SessionsRight'
  <2>1. now \in Nat /\ now >= 1 /\ sessions \subseteq Session
    BY DEF ConfigInv, SessionsRight
  <2>2. mem' = mem /\ Secret' = Secret /\ sessions' = sessions
    BY <1>1 DEF store, Secret, AdminPassword
  <2>3. ASSUME NEW s \in sessions
        PROVE  SessionRight(s)'
    <3>1. SessionRight(s) /\ s.iat \in Nat
      BY <2>1 DEF ConfigInv, SessionsRight, Session
    <3> QED
      BY <1>1, <2>1, <2>2, <3>1 DEF SessionRight
  <2> QED
    BY <1>1, <2>1, <2>2, <2>3 DEF SessionsRight
<1> QED
  BY <1>2, <1>3, <1>4, <1>5 DEF Kept, ConfigInv

----------------------------------------------------------------------------
(* Syncs *)

(* Synchronising: the export *)
LEMMA SyncExportsKeeps ==
  ASSUME ConfigInv, NEW i \in Actors, SyncExports(i)
  PROVE  Kept
<1>1. PICK c \in {mem} \cup Imports :
        Reads(i, "export", Hash(c)) /\ UNCHANGED <<store, rest, asked>>
  BY DEF SyncExports
<1>2. c \in Configs
  BY TextsAssumption DEF ConfigInv, StoreRight
<1>3. PICK h \in Hashes : h = Hash(c)
  BY <1>2, HashIsHash
<1>4. h \in Locs /\ LocRight("export", h) /\ "export" \in PCs
  BY DEF Locs, LocRight, PCs
<1> QED
  BY <1>1, <1>3, <1>4, ReadsKeeps

(* Synchronising: the push *)
LEMMA SyncPushesKeeps ==
  ASSUME ConfigInv, NEW i \in Actors, SyncPushes(i)
  PROVE  Kept
<1>1. PICK outcome \in Outcomes :
        /\ vercel' = IF outcome = "error" THEN vercel ELSE loc[i]
        /\ muddled' = (muddled \/ outcome = "lost" \/ Syncing # {i})
        /\ pc' = [pc EXCEPT ![i] = IF outcome = "ok" THEN "pushed" ELSE "idle"]
        /\ loc' = [loc EXCEPT ![i] = IF outcome = "ok" THEN loc[i] ELSE None]
  BY DEF SyncPushes
<1>2. /\ up /\ pc[i] = "export"
      /\ UNCHANGED <<store, setup, up, now, sessions, restarts, asked, ops>>
  BY DEF SyncPushes
<1>3. PICK h \in Hashes : h = loc[i]
  BY <1>2 DEF ConfigInv, RequestsRight, LocRight
<1>4. RequestsRight'
  <2>1. CASE outcome = "ok"
    <3>1. "pushed" \in PCs /\ h \in Locs /\ LocRight("pushed", h)
      BY DEF PCs, Locs, LocRight
    <3> QED
      BY <1>1, <1>3, <2>1, <3>1, MoveKeeps DEF ConfigInv
  <2>2. CASE outcome # "ok"
    <3>1. "idle" \in PCs /\ None \in Locs /\ LocRight("idle", None)
      BY DEF PCs, Locs, LocRight
    <3> QED
      BY <1>1, <2>2, <3>1, MoveKeeps DEF ConfigInv
  <2> QED
    BY <2>1, <2>2
<1>5. StoreRight' /\ SessionsRight' /\ asked' \in APIKeys /\ KeysAsAsked'
  <2>1. StoreRight'
    BY <1>2 DEF ConfigInv, StoreRight, store, Unwritten
  <2>2. SessionsRight'
    BY <1>2 DEF ConfigInv, SessionsRight, SessionRight, Secret, AdminPassword, store
  <2> QED
    BY <1>2, <2>1, <2>2 DEF ConfigInv, KeysAsAsked, store
<1>6. ASSUME up', ~muddled'
      PROVE  /\ \A j \in Actors : pc'[j] = "pushed" => loc'[j] = vercel'
             /\ (\A j \in Actors : pc'[j] # "pushed") => mem'.sync = vercel'
  <2>1. ~muddled /\ outcome # "lost" /\ Syncing = {i}
    BY <1>1, <1>6
  <2>2. pc \in [Actors -> PCs] /\ loc \in [Actors -> Locs]
    BY DEF ConfigInv, RequestsRight
  <2>3. \A j \in Actors : pc[j] # "pushed"
    <3>1. \A j \in Actors : pc[j] = "pushed" => j = i
      BY <2>1 DEF Syncing
    <3> QED
      BY <1>2, <3>1
  <2>4. mem.sync = vercel /\ mem' = mem
    BY <1>2, <2>1, <2>3 DEF ConfigInv, SyncRight, store
  <2>5. CASE outcome = "ok"
    <3>1. pc'[i] = "pushed" /\ loc'[i] = loc[i] /\ vercel' = loc[i]
      BY <1>1, <2>2, <2>5
    <3>2. \A j \in Actors \ {i} : pc'[j] # "pushed"
      BY <1>1, <2>2, <2>3
    <3> QED
      BY <3>1, <3>2
  <2>6. CASE outcome = "error"
    <3>1. \A j \in Actors : pc'[j] # "pushed"
      BY <1>1, <2>2, <2>3, <2>6
    <3> QED
      BY <1>1, <2>4, <2>6, <3>1
  <2> QED
    BY <2>1, <2>5, <2>6 DEF Outcomes
<1>7. SyncRight'
  BY <1>6 DEF SyncRight
<1>8. NothingDangles => NothingDangles'
  BY <1>2 DEF NothingDangles, Dangling, store
<1> QED
  BY <1>4, <1>5, <1>7, <1>8 DEF Kept, ConfigInv

(* Synchronising: the record of what was pushed *)
LEMMA SyncRecordsKeeps ==
  ASSUME ConfigInv, NEW i \in Actors, SyncRecords(i)
  PROVE  Kept
<1>1. /\ pc[i] = "pushed" /\ SetMem([mem EXCEPT !.sync = loc[i]]) /\ Ends(i)
      /\ UNCHANGED <<rest, asked>>
  BY DEF SyncRecords, SyncedHash
<1>2. mem \in Configs /\ mem.api = asked
  BY DEF ConfigInv, StoreRight, KeysAsAsked
<1>3. PICK h \in Hashes \cup {None} : h = loc[i]
  BY <1>1 DEF ConfigInv, RequestsRight, LocRight
<1>4. PICK c \in Configs : c = [mem EXCEPT !.sync = h]
  BY <1>2, ConfigSet
<1>5. /\ c.api = mem.api /\ c.keys = mem.keys /\ c.acc = mem.acc /\ c.prox = mem.prox
      /\ c.hash = mem.hash /\ c.after = mem.after /\ c.sync = h
  BY <1>2, <1>4 DEF Configs, ConfigsSynced
<1>6. /\ StoreRight' /\ mem' = New(c) /\ SameRest(c, mem')
      /\ mem'.keys = DOMAIN mem'.api /\ DOMAIN status' \subseteq DOMAIN mem'.acc
  BY <1>1, <1>3, <1>4, UpdateEffect DEF ConfigInv, rest
<1>7. New(c).api = c.api
  BY <1>5, NewNamed DEF ConfigInv, StoreRight, KeysAsAsked
<1>8. asked' \in APIKeys /\ KeysAsAsked'
  BY <1>1, <1>2, <1>5, <1>6, <1>7 DEF ConfigInv, KeysAsAsked
<1>9. RequestsRight'
  BY <1>1, EndingIsRight DEF ConfigInv
<1>10. SessionsRight'
  <2>1. mem'.hash = mem.hash /\ mem'.after = mem.after
    BY <1>5, <1>6 DEF SameRest
  <2>2. Secret' = Secret
    BY <1>1, <2>1 DEF Secret, AdminPassword, rest
  <2>3. \A s \in sessions : SessionRight(s)'
    BY <1>1, <2>1, <2>2 DEF rest, ConfigInv, SessionsRight, SessionRight
  <2> QED
    BY <1>1, <2>3 DEF rest, ConfigInv, SessionsRight
<1>11. SyncRight'
  <2>1. mem'.sync = h
    BY <1>5, <1>6 DEF SameRest
  <2>2. \A j \in Actors : pc'[j] = "pushed" => pc[j] = "pushed" /\ loc'[j] = loc[j]
    BY <1>1 DEF Ends, ConfigInv, RequestsRight
  <2> QED
    BY <1>1, <1>3, <2>1, <2>2 DEF ConfigInv, SyncRight, rest
<1>12. NothingDangles => NothingDangles'
  <2>1. Dangling(c) = Dangling(mem)
    BY <1>5 DEF Dangling
  <2>2. Dangling(mem') = Dangling(c)
    BY <1>6, SameRestDangles
  <2> QED
    BY <1>6, <2>1, <2>2 DEF NothingDangles, Dangling
<1> QED
  BY <1>6, <1>8, <1>9, <1>10, <1>11, <1>12 DEF Kept, ConfigInv

----------------------------------------------------------------------------
(* Starting *)

(* The empty configuration is one *)
LEMMA EmptyIsConfig == EmptyConfig \in Configs
<1>1. Unnamed({}) \in APIKeys
  BY UnnamedIsMap
<1>2. Unnamed({}) \in AccountMaps
  <2>1. Unnamed({}) \in [{} -> Account]
    BY DEF Unnamed
  <2> QED
    BY <2>1, MapsHold DEF AccountMaps
<1>3. PICK ap \in APIKeys : ap = Unnamed({})
  BY <1>1
<1>4. PICK accs \in AccountMaps : accs = Unnamed({})
  BY <1>2
<1>5. EmptyConfig = [api |-> ap, keys |-> {}, acc |-> accs, prox |-> {}, infl |-> 0, glob |-> 0,
                     hash |-> None, after |-> 0, sync |-> None]
  BY <1>3, <1>4 DEF EmptyConfig
<1> QED
  BY <1>5 DEF Configs, ConfigsSynced

(* Where a configuration is loaded from, and that it is one *)
LEMMA FromIs ==
  ASSUME NEW c \in Configs, NEW env \in BOOLEAN
  PROVE  /\ From(c, env).err = FALSE /\ From(c, env).cfg = c
         /\ From(c, env).env = env /\ From(c, env).writes = FALSE
  BY DEF From, Error

(***************************************************************************)
(* What is loaded is a configuration; where nothing is ever written it     *)
(* counts as coming from the environment; a file is only started where     *)
(* there is none.                                                          *)
(***************************************************************************)
SourceRight ==
  /\ Source.cfg \in Configs /\ Source.env \in BOOLEAN /\ Source.writes \in BOOLEAN
  /\ Unwritten => Source.env /\ ~Source.writes
  /\ Source.writes => disk = None

(* What is loaded is a configuration, and the file is as the store says *)
LEMMA SourceIsRight ==
  ASSUME setup \in Setups, disk \in Configs \cup {None, Broken}, ~Source.err
  PROVE  SourceRight
<1>1. setup \in [env : Configs \cup {None, Broken}, file : Configs \cup {None, Broken},
                 writeback : BOOLEAN, vercel : BOOLEAN, secret : BOOLEAN]
  BY TextsAssumption
<1>2. /\ setup.env \in Configs \cup {None, Broken}
      /\ setup.writeback \in BOOLEAN /\ setup.vercel \in BOOLEAN
  BY <1>1
<1>3. Error.err = TRUE
  BY DEF Error
<1>4. Readable => disk \in Configs
  BY DEF Readable
<1>5. CASE setup.env = None
  <2>1. CASE Readable
    <3>1. Source = From(disk, setup.vercel)
      BY <1>5, <2>1, ConfigAssumption DEF Source
    <3> QED
      BY <1>2, <1>4, <1>5, <2>1, <3>1, FromIs DEF SourceRight, Unwritten
  <2>2. CASE ~Readable
    <3>1. setup.vercel /\ Source = From(EmptyConfig, TRUE)
      BY <1>3, <1>5, <2>2, ConfigAssumption DEF Source
    <3> QED
      BY <3>1, EmptyIsConfig, FromIs DEF SourceRight
  <2> QED
    BY <2>1, <2>2
<1>6. CASE setup.env = Broken /\ setup.env # None
  <2>1. ~setup.vercel /\ setup.writeback /\ Readable /\ Source = From(disk, FALSE)
    BY <1>3, <1>6 DEF Source
  <2> QED
    BY <1>4, <2>1, FromIs DEF SourceRight, Unwritten
<1>7. CASE setup.env # Broken /\ setup.env # None
  <2>1. Stored(setup.env) \in Configs
    BY <1>2, <1>7, StoredIsConfig
  <2>2. CASE setup.vercel \/ ~setup.writeback
    <3>1. Source = From(Stored(setup.env), TRUE)
      BY <1>7, <2>2 DEF Source
    <3> QED
      BY <2>1, <3>1, FromIs DEF SourceRight
  <2>3. CASE ~(setup.vercel \/ ~setup.writeback) /\ Readable
    <3>1. Source = From(disk, FALSE)
      BY <1>7, <2>3 DEF Source
    <3> QED
      BY <1>4, <2>3, <3>1, FromIs DEF SourceRight, Unwritten
  <2>4. CASE ~(setup.vercel \/ ~setup.writeback) /\ ~Readable
    <3>1. Source = [From(Stored(setup.env), disk # None) EXCEPT !.writes = (disk = None)]
      BY <1>7, <2>4 DEF Source
    <3>2. /\ Source.cfg = Stored(setup.env) /\ Source.env = (disk # None)
          /\ Source.writes = (disk = None)
      BY <3>1 DEF From, Error
    <3> QED
      BY <2>1, <2>4, <3>2 DEF SourceRight, Unwritten
  <2> QED
    BY <2>2, <2>3, <2>4
<1> QED
  BY <1>5, <1>6, <1>7

(* Normalizing what was loaded leaves no reference dangling *)
LEMMA LoadedIsClean ==
  ASSUME NEW c \in Configs, Valid(c)
  PROVE  Dangling(Normalized(c)) = {}
<1>1. SameRest(c, Normalized(c))
  BY NormalizedIsConfig
<1> QED
  BY <1>1, SameRestDangles DEF Valid

(* No account has a status at first *)
LEMMA NoStatus == <<>> \in Maps(Accounts, BOOLEAN) /\ DOMAIN <<>> = {}
<1>1. <<>> \in [{} -> BOOLEAN] /\ DOMAIN <<>> = {}
  OBVIOUS
<1> QED
  BY <1>1, MapsHold

(* The invariant holds when the process starts for the first time *)
LEMMA InitIsRight == Init => ConfigInv /\ NothingDangles
<1> SUFFICES ASSUME Init
             PROVE  ConfigInv /\ NothingDangles
  OBVIOUS
<1>1. /\ setup \in Setups /\ disk = setup.file /\ ~Source.err /\ Valid(Source.cfg)
      /\ mem = Normalized(Source.cfg) /\ fromEnv = (Source.env \/ Source.writes)
      /\ asked = Normalized(Source.cfg).api
      /\ status = <<>> /\ now = 1 /\ sessions = {} /\ vercel = None
      /\ promise = None /\ muddled = (mem.sync # None)
      /\ pc = [i \in Actors |-> "idle"] /\ loc = [i \in Actors |-> None]
  BY DEF Init
<1>2. disk \in Configs \cup {None, Broken}
  BY <1>1, TextsAssumption
<1>3. SourceRight
  BY <1>1, <1>2, SourceIsRight
<1>4. PICK s \in Configs : s = Source.cfg
  BY <1>3 DEF SourceRight
<1>5. mem \in Configs /\ mem.keys = DOMAIN mem.api /\ Dangling(mem) = {}
  BY <1>1, <1>4, NormalizedIsConfig, LoadedIsClean
<1>6. StoreRight
  BY <1>1, <1>2, <1>3, <1>5, NoStatus DEF StoreRight, SourceRight
<1>7. RequestsRight
  <2>1. "idle" \in PCs /\ None \in Locs /\ LocRight("idle", None)
    BY DEF PCs, Locs, LocRight
  <2> QED
    BY <1>1, <2>1 DEF RequestsRight
<1>8. SessionsRight
  BY <1>1 DEF SessionsRight
<1>9. SyncRight
  BY <1>1 DEF SyncRight
<1>10. asked \in APIKeys /\ KeysAsAsked
  BY <1>1, <1>5, ConfigFields DEF KeysAsAsked
<1>11. NothingDangles
  BY <1>1, <1>5, NoStatus DEF NothingDangles
<1> QED
  BY <1>6, <1>7, <1>8, <1>9, <1>10, <1>11 DEF ConfigInv

(* The process starts again with what it finds, or does not start *)
LEMMA RestartKeeps ==
  ASSUME ConfigInv, Restart
  PROVE  Kept
<1>1. /\ pc' = [i \in Actors |-> "idle"] /\ loc' = [i \in Actors |-> None]
      /\ UNCHANGED <<setup, now, vercel, ops>>
  BY DEF Restart
<1>2. RequestsRight'
  <2>1. "idle" \in PCs /\ None \in Locs /\ LocRight("idle", None)
    BY DEF PCs, Locs, LocRight
  <2> QED
    BY <1>1, <2>1 DEF RequestsRight
<1>3. CASE Source.err \/ ~Valid(Source.cfg)
  <2>1. up' = FALSE /\ UNCHANGED <<store, sessions, muddled, asked>>
    BY <1>3 DEF Restart
  <2>2. StoreRight'
    BY <1>1, <2>1 DEF ConfigInv, StoreRight, store, Unwritten
  <2>3. SessionsRight'
    BY <1>1, <2>1 DEF ConfigInv, SessionsRight, SessionRight, Secret, AdminPassword, store
  <2>4. SyncRight'
    BY <2>1 DEF SyncRight
  <2>5. asked' \in APIKeys /\ KeysAsAsked' /\ (NothingDangles => NothingDangles')
    BY <2>1 DEF ConfigInv, KeysAsAsked, NothingDangles, Dangling, store
  <2> QED
    BY <1>2, <2>2, <2>3, <2>4, <2>5 DEF Kept, ConfigInv
<1>4. CASE ~Source.err /\ Valid(Source.cfg)
  <2>1. SourceRight
    BY <1>4, SourceIsRight DEF ConfigInv, StoreRight
  <2>2. PICK s \in Configs : s = Source.cfg
    BY <2>1 DEF SourceRight
  <2>3. PICK c \in Configs : c = Normalized(s) /\ c.keys = DOMAIN c.api /\ Dangling(c) = {}
    BY <1>4, <2>2, NormalizedIsConfig, LoadedIsClean
  <2>4. /\ mem' = c /\ asked' = c.api /\ status' = <<>>
        /\ \/ ~Source.writes /\ fromEnv' = Source.env /\ UNCHANGED <<disk, promise>>
           \/ Source.writes /\ fromEnv' = FALSE /\ disk' = Stored(c) /\ UNCHANGED promise
           \/ Source.writes /\ fromEnv' = TRUE /\ UNCHANGED <<disk, promise>>
        /\ sessions' = Followed(c)
        /\ muddled' = (muddled \/ c.sync # vercel)
    BY <1>4, <2>2, <2>3 DEF Restart
  <2>5. /\ fromEnv' \in BOOLEAN
        /\ disk' \in Configs \cup {None, Broken} /\ promise' \in Configs \cup {None}
        /\ Unwritten' => fromEnv' /\ promise' = None
        /\ promise' # None => disk' = promise'
    <3>1. Unwritten' = Unwritten
      BY <1>1 DEF Unwritten
    <3>2. Stored(c) \in Configs
      BY StoredIsConfig
    <3>3. /\ fromEnv \in BOOLEAN /\ disk \in Configs \cup {None, Broken}
          /\ promise \in Configs \cup {None}
          /\ Unwritten => fromEnv /\ promise = None
          /\ promise # None => disk = promise
      BY DEF ConfigInv, StoreRight
    <3>4. CASE ~Source.writes
      BY <2>1, <2>4, <3>1, <3>3, <3>4 DEF SourceRight
    <3>5. CASE Source.writes
      <4>1. disk = None /\ promise = None
        BY <2>1, <3>3, <3>5 DEF SourceRight
      <4>2. ~Unwritten
        BY <2>1, <3>5 DEF SourceRight
      <4> QED
        BY <2>4, <3>1, <3>2, <3>3, <3>5, <4>1, <4>2
    <3> QED
      BY <3>4, <3>5
  <2>6. StoreRight'
    BY <1>1, <2>4, <2>5, NoStatus DEF ConfigInv, StoreRight
  <2>7. SessionsRight'
    <3>1. CASE c.hash = mem.hash /\ c.after = mem.after
      <4>1. sessions' = sessions /\ Secret' = Secret /\ mem'.after = mem.after
        BY <1>1, <2>4, <3>1 DEF Followed, Secret, AdminPassword
      <4>2. \A x \in sessions : SessionRight(x)'
        BY <1>1, <4>1 DEF ConfigInv, SessionsRight, SessionRight
      <4> QED
        BY <1>1, <4>1, <4>2 DEF ConfigInv, SessionsRight
    <3>2. CASE ~(c.hash = mem.hash /\ c.after = mem.after)
      BY <1>1, <2>4, <3>2 DEF Followed, ConfigInv, SessionsRight
    <3> QED
      BY <3>1, <3>2
  <2>8. SyncRight'
    <3>1. \A i \in Actors : pc'[i] # "pushed"
      BY <1>1
    <3> QED
      BY <1>1, <2>4, <3>1 DEF SyncRight
  <2>9. asked' \in APIKeys /\ KeysAsAsked'
    BY <2>3, <2>4, ConfigFields DEF KeysAsAsked
  <2>10. NothingDangles'
    BY <2>3, <2>4, NoStatus DEF NothingDangles, Dangling
  <2> QED
    BY <1>2, <2>6, <2>7, <2>8, <2>9, <2>10 DEF Kept, ConfigInv
<1> QED
  BY <1>3, <1>4

----------------------------------------------------------------------------
(* Every step *)

(* Every step keeps it *)
LEMMA NextKeeps ==
  ASSUME ConfigInv, Next
  PROVE  Kept
<1>1. ASSUME NEW i \in Actors,
             \/ AddKey(i) \/ UpdateKey(i) \/ DeleteKey(i)
             \/ UpdateConfigReads(i) \/ UpdateConfigKeys(i) \/ UpdateConfigAccounts(i)
      PROVE  Kept
  BY <1>1, AddKeyKeeps, UpdateKeyKeeps, DeleteKeyKeeps, UpdateConfigReadsKeeps,
     UpdateConfigKeysKeeps, UpdateConfigAccountsKeeps
<1>2. ASSUME NEW i \in Actors, BatchImport(i) \/ ImportReplace(i) \/ ImportMerge(i)
      PROVE  Kept
  BY <1>2, BatchImportKeeps, ImportReplaceKeeps, ImportMergeKeeps
<1>3. ASSUME NEW i \in Actors,
             \/ AddAccount(i) \/ DeleteAccount(i) \/ UpdateAccount(i)
             \/ AddProxy(i) \/ UpdateProxy(i) \/ DeleteProxy(i) \/ SetAccountProxy(i)
             \/ SettingsReads(i) \/ SettingsUpdates(i)
      PROVE  Kept
  BY <1>3, AddAccountKeeps, DeleteAccountKeeps, UpdateAccountKeeps, ProxiesKeep,
     SettingsReadsKeeps, SettingsUpdatesKeeps
<1>4. ASSUME NEW i \in Actors,
             TestReads(i) \/ TestLogsIn(i) \/ TestEnds(i) \/ DeleteAllSessions(i)
      PROVE  Kept
  BY <1>4, TestReadsKeeps, TestLogsInKeeps, TestEndsKeeps, DeleteAllSessionsKeeps
<1>5. ASSUME NEW i \in Actors,
             \/ UpdatePassword(i) \/ LoginChecks(i) \/ LoginIssues(i)
             \/ SyncExports(i) \/ SyncPushes(i) \/ SyncRecords(i)
      PROVE  Kept
  BY <1>5, UpdatePasswordKeeps, LoginChecksKeeps, LoginIssuesKeeps, SyncExportsKeeps,
     SyncPushesKeeps, SyncRecordsKeeps
<1> QED
  BY <1>1, <1>2, <1>3, <1>4, <1>5, TickKeeps, RestartKeeps DEF Next

(* ... and so does no step *)
LEMMA StutterKeeps ==
  ASSUME ConfigInv, UNCHANGED vars
  PROVE  Kept
<1>1. UNCHANGED <<store, rest, asked>> /\ UNCHANGED <<pc, loc>>
  BY DEF vars, store, rest
<1>2. RequestsRight' /\ SyncsStay
  BY <1>1, StayingIsOrdinary DEF ConfigInv
<1> QED
  BY <1>1, <1>2, IdleKeeps

(* The invariant holds, of every configuration, request and restart *)
THEOREM ConfigInvariant == Spec => []ConfigInv
<1>1. Init => ConfigInv
  BY InitIsRight
<1>2. ConfigInv /\ [Next]_vars => ConfigInv'
  BY NextKeeps, StutterKeeps DEF Kept
<1> QED
  BY <1>1, <1>2, PTL DEF Spec

(***************************************************************************)
(* The API keys are those the admin requests asked for, in either form and *)
(* in any order, and a key that stays keeps its name.                      *)
(***************************************************************************)
THEOREM KeysAreAsAsked == Spec => []KeysAsAsked
<1>1. ConfigInv => KeysAsAsked
  BY DEF ConfigInv
<1> QED
  BY <1>1, ConfigInvariant, PTL

(***************************************************************************)
(* A new password ends the admin's sessions, and only the ones there are.  *)
(***************************************************************************)
THEOREM SessionsFollow == Spec => []SessionsFollowPassword
<1>1. ConfigInv => SessionsFollowPassword
  <2> SUFFICES ASSUME ConfigInv, NEW s \in sessions
               PROVE  Verified(s) <=> s.live
    BY DEF SessionsFollowPassword
  <2>1. s \in Session /\ mem.after \in Nat
    BY ConfigFields DEF ConfigInv, SessionsRight, StoreRight
  <2>2. s.iat \in Nat /\ s.live \in BOOLEAN
    BY <2>1 DEF Session
  <2>3. SessionRight(s)
    BY DEF ConfigInv, SessionsRight
  <2>4. CASE s.live
    BY <2>1, <2>2, <2>3, <2>4 DEF SessionRight, Verified
  <2>5. CASE ~s.live
    BY <2>1, <2>2, <2>3, <2>5 DEF SessionRight, Verified
  <2> QED
    BY <2>4, <2>5
<1> QED
  BY <1>1, ConfigInvariant, PTL

(***************************************************************************)
(* What was written is what the next start reads, for every kind of        *)
(* deployment.                                                             *)
(***************************************************************************)
THEOREM WrittenSurvives == Spec => []SavedSurvives
<1>1. ConfigInv => SavedSurvives
  <2> SUFFICES ASSUME ConfigInv, promise # None
               PROVE  ~Source.err /\ Source.cfg = promise
    BY DEF SavedSurvives
  <2>1. /\ setup \in Setups /\ promise \in Configs /\ disk = promise /\ ~Unwritten
    BY DEF ConfigInv, StoreRight
  <2>2. setup.vercel \in BOOLEAN
    BY <2>1, TextsAssumption
  <2>3. Readable
    BY <2>1, ConfigAssumption DEF Readable
  <2>4. CASE setup.env = None
    <3>1. Source = From(disk, setup.vercel)
      BY <2>3, <2>4, ConfigAssumption DEF Source
    <3> QED
      BY <2>1, <2>2, <3>1, FromIs
  <2>5. CASE setup.env # None
    <3>1. ~setup.vercel /\ setup.writeback
      BY <2>1, <2>5 DEF Unwritten
    <3>2. Source = From(disk, FALSE)
      BY <2>3, <2>5, <3>1 DEF Source
    <3> QED
      BY <2>1, <3>2, FromIs
  <2> QED
    BY <2>4, <2>5
<1> QED
  BY <1>1, ConfigInvariant, PTL

(***************************************************************************)
(* When the status says in sync, Vercel has this configuration, however    *)
(* many syncs, changes and restarts there were.                            *)
(***************************************************************************)
THEOREM SyncedWasPushed == Spec => []SyncedMeansPushed
<1>1. ConfigInv => SyncedMeansPushed
  BY DEF ConfigInv, SyncRight, SyncedMeansPushed, SaysSynced
<1> QED
  BY <1>1, ConfigInvariant, PTL

(***************************************************************************)
(* No account refers to a proxy that is gone, and no test result to an     *)
(* account, where the accounts of imports name no proxy.                   *)
(***************************************************************************)
THEOREM NothingLeftDangling ==
  ASSUME ImportedProxies = {}
  PROVE  Spec => []NothingDangles
<1> DEFINE Inv == ConfigInv /\ NothingDangles
<1>1. Init => Inv
  BY InitIsRight
<1>2. Inv /\ [Next]_vars => Inv'
  BY NextKeeps, StutterKeeps DEF Kept
<1>3. Inv => NothingDangles
  OBVIOUS
<1> QED
  BY <1>1, <1>2, <1>3, PTL DEF Spec
============================================================================
