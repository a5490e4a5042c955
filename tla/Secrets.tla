------------------------------ MODULE Secrets ------------------------------
(***************************************************************************)
(* The podman secret that carries Claude's credentials into containers      *)
(* (internal/secrets/secrets.go) and the API that manages secrets by name   *)
(* (registry.go, api/secrets_handlers.go), here on the credentials' name.   *)
(* The server's start calls EnsureExists, every run calls SyncIfChanged;    *)
(* Claude on the host rewrites the file whenever it likes.  Contents are    *)
(* numbered in the order they were written: 0 is no file and no secret.     *)
(***************************************************************************)
EXTENDS Integers

CONSTANTS
    Callers,     \* runs that call SyncIfChanged
    Boot,        \* the server's start, which calls EnsureExists
    MaxEdits,    \* bound on the contents written to the credentials file
    Nobody       \* the holder of a free mutex

ASSUME CallersAssumption == Boot \notin Callers /\ Nobody \notin Callers \cup {Boot}
ASSUME EditsAssumption == MaxEdits \in Nat

VARIABLES
    file,        \* the credentials file
    edits,       \* contents written so far
    secret,      \* the podman secret
    cachedHash,  \* Manager.cachedHash
    mu,          \* Manager.mu
    spc,         \* per caller: where it is in EnsureExists or SyncIfChanged
    cur,         \* per caller: currentHash
    seen,        \* history, per caller: the file's content when it locked mu
    doubt        \* history: since the last update the API has touched the
                 \* secret, or the file was rewritten under EnsureExists

secretVars == <<file, edits, secret, cachedHash, mu, spc, cur, seen, doubt>>

Everyone == Callers \cup {Boot}
Content == 0 .. MaxEdits
API == -1   \* content that came in through POST /secrets

SecretsInit ==
    /\ file \in Content \cap {0, 1} /\ edits = file
    /\ secret \in {0, file} /\ cachedHash = 0 /\ mu = Nobody
    /\ spc = [c \in Everyone |-> "idle"]
    /\ cur = [c \in Everyone |-> 0] /\ seen = [c \in Everyone |-> 0]
    /\ doubt = FALSE

SpcGoto(c, label) == spc' = [spc EXCEPT ![c] = label]

(* The function returns: the deferred Unlock.  What it was about is         *)
(* forgotten when it failed.                                                *)
Return(c, label) ==
    /\ SpcGoto(c, label) /\ mu' = Nobody
    /\ cur' = [cur EXCEPT ![c] = 0]
    /\ seen' = IF label = "failed" THEN [seen EXCEPT ![c] = 0] ELSE seen

Continue(c, label) == SpcGoto(c, label) /\ UNCHANGED <<mu, cur, seen>>

----------------------------------------------------------------------------
(* A wrong Unlocked: there is no mutex. *)
UnlockedAlways == TRUE

Unlocked == mu = Nobody

(* m.mu.Lock(), in SyncIfChanged and EnsureExists *)
Lock(c) ==
    /\ spc[c] = "lock" /\ Unlocked
    /\ mu' = c /\ seen' = [seen EXCEPT ![c] = file]
    /\ SpcGoto(c, IF c = Boot THEN "stat" ELSE "hash")
    /\ UNCHANGED <<file, edits, secret, cachedHash, cur, doubt>>

(* SyncIfChanged: GetFileHash, and the comparison with the cache *)
SyncHash(c) ==
    /\ spc[c] = "hash"
    /\ \/ file = 0 /\ Return(c, "failed")
       \/ file # 0 /\ file = cachedHash /\ Return(c, "synced")
       \/ /\ file # 0 /\ file # cachedHash
          /\ SpcGoto(c, "exists") /\ cur' = [cur EXCEPT ![c] = file]
          /\ UNCHANGED <<mu, seen>>
    /\ UNCHANGED <<file, edits, secret, cachedHash, doubt>>

(* EnsureExists: FileExists and its own SecretExists *)
EnsureStat ==
    /\ spc[Boot] = "stat"
    /\ \/ Return(Boot, "failed")
       \/ file # 0 /\ Continue(Boot, IF secret = 0 THEN "create" ELSE "exists")
    /\ UNCHANGED <<file, edits, secret, cachedHash, doubt>>

(* UpdateSecret: SecretExists *)
Exists(c) ==
    /\ spc[c] = "exists"
    /\ \/ Return(c, "failed")
       \/ Continue(c, IF secret = 0 THEN "create" ELSE "rm")
    /\ UNCHANGED <<file, edits, secret, cachedHash, doubt>>

(* UpdateSecret: RemoveSecret, which fails if the secret has gone.  A       *)
(* command that reports a failure may have done its work.                   *)
Remove(c) ==
    /\ spc[c] = "rm"
    /\ \/ Return(c, "failed") /\ UNCHANGED secret
       \/ /\ secret # 0 /\ secret' = 0
          /\ Continue(c, "create") \/ Return(c, "failed")
    /\ UNCHANGED <<file, edits, cachedHash, doubt>>

(* CreateSecret, which fails if the name is taken or the file has gone *)
Create(c) ==
    /\ spc[c] = "create"
    /\ \/ Return(c, "failed") /\ UNCHANGED <<secret, doubt>>
       \/ /\ secret = 0 /\ file # 0
          /\ secret' = file /\ doubt' = FALSE
          /\ Continue(c, "cache") \/ Return(c, "failed")
    /\ UNCHANGED <<file, edits, cachedHash>>

(* A wrong HashToCache: SyncIfChanged too hashes the file after the update. *)
HashToCacheLate(c) == file

(* SyncIfChanged caches the hash it took before the update, EnsureExists    *)
(* hashes the file after it.                                                *)
HashToCache(c) == IF c = Boot THEN file ELSE cur[c]

Cache(c) ==
    /\ spc[c] = "cache"
    /\ \/ c = Boot /\ file = 0 /\ Return(c, "failed") /\ UNCHANGED <<cachedHash, doubt>>
       \/ /\ c # Boot \/ file # 0
          /\ cachedHash' = HashToCache(c)
          /\ doubt' = (doubt \/ (c = Boot /\ file # secret))
          /\ Return(c, "synced")
    /\ UNCHANGED <<file, edits, secret>>

SyncStep(c) ==
    \/ Lock(c) \/ SyncHash(c) \/ Exists(c) \/ Remove(c) \/ Create(c) \/ Cache(c)
    \/ c = Boot /\ EnsureStat

----------------------------------------------------------------------------
(* The host: claude refreshes its token, or logs out *)
Edit ==
    /\ edits < MaxEdits
    /\ edits' = edits + 1 /\ file' = edits + 1
    /\ UNCHANGED <<secret, cachedHash, mu, spc, cur, seen, doubt>>

RemoveFile ==
    /\ file # 0 /\ file' = 0
    /\ UNCHANGED <<edits, secret, cachedHash, mu, spc, cur, seen, doubt>>

(* DELETE /secrets/{name} and POST /secrets: podman decides *)
ApiDelete ==
    /\ secret # 0 /\ secret' = 0 /\ doubt' = TRUE
    /\ UNCHANGED <<file, edits, cachedHash, mu, spc, cur, seen>>

ApiCreate ==
    /\ secret = 0 /\ secret' = API /\ doubt' = TRUE
    /\ UNCHANGED <<file, edits, cachedHash, mu, spc, cur, seen>>

(* The caller goes on, or gives up. *)
Leave(c) ==
    /\ SpcGoto(c, "idle") /\ seen' = [seen EXCEPT ![c] = 0]
    /\ UNCHANGED <<file, edits, secret, cachedHash, mu, cur, doubt>>

(* The process is gone: only the file and the secret stay. *)
SecretsCrash ==
    /\ cachedHash' = 0 /\ mu' = Nobody
    /\ spc' = [c \in Everyone |-> "idle"]
    /\ cur' = [c \in Everyone |-> 0] /\ seen' = [c \in Everyone |-> 0]
    /\ UNCHANGED <<file, edits, secret, doubt>>

----------------------------------------------------------------------------
SecretsOK ==
    /\ file \in Content /\ edits \in Content
    /\ secret \in Content \cup {API} /\ cachedHash \in Content
    /\ mu \in Everyone \cup {Nobody}
    /\ spc \in [Everyone -> {"idle", "lock", "hash", "stat", "exists", "rm",
                             "create", "cache", "synced", "failed"}]
    /\ cur \in [Everyone -> Content] /\ seen \in [Everyone -> Content]

(* What a container started now gets is at least as new as what the file    *)
(* held when the caller c entered SyncIfChanged: another run's update       *)
(* meanwhile can only make it newer.                                        *)
FreshFor(c) == doubt \/ secret = 0 \/ secret >= seen[c]
=============================================================================
