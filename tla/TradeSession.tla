---------------------------- MODULE TradeSession ----------------------------
(***************************************************************************)
(* The KIS session kept by TradeManager: the credentials in use, the       *)
(* access token shared by all threads, its copy in the local database, and *)
(* the credentials in the Windows credential store.                        *)
(*                                                                         *)
(* Three kinds of threads work on it.  Op is whichever detached thread     *)
(* holds operation_mutex: it loads, saves or clears the credentials and    *)
(* makes account requests.  Ui is the window thread, which starts the      *)
(* Workers (history, performance, quote) without that mutex.  A worker     *)
(* keeps the app key it was started with and shares the token.  Only       *)
(* _token is protected, by _token_mutex.  The process may crash.           *)
(*                                                                         *)
(* A token is the app key it was created with, the app key it is tagged    *)
(* with and a serial number; an app key stands for app key, secret and     *)
(* account, and a tag for its app key: the hash is taken to be free of     *)
(* collisions.  Left out: the contents of replies; the price stream        *)
(* (StreamClient); the order of requests within one worker; credential-    *)
(* store reads that fail.                                                  *)
(***************************************************************************)
EXTENDS Naturals

CONSTANTS
  Keys,        \* app keys
  Workers,     \* background workers
  EnvKeys,     \* the app key in the environment variables, as a set of at most one
  Op, Ui,
  NoKey, NoToken, NoOne,
  MaxTokens    \* bound: tokens the server ever issues

ASSUME SessionConstants ==
  /\ EnvKeys \subseteq Keys /\ \A j, k \in EnvKeys : j = k
  /\ NoKey \notin Keys
  /\ Op # Ui /\ Op \notin Workers /\ Ui \notin Workers
  /\ MaxTokens \in Nat

Threads == Workers \cup {Op, Ui}

ASSUME NobodyIsAThread == NoOne \notin Threads

Tokens == [owner : Keys, tag : Keys \cup {NoKey}, serial : 0 .. MaxTokens]

ASSUME NoTokenIsNone == NoToken \notin Tokens

VARIABLES
  settingsKey,   \* _settings.kis_app_key
  available,     \* _credentials_available
  token,         \* _token
  tokenLock,     \* holder of _token_mutex
  db,            \* the row of userinfo in localdata.db
  store,         \* the app key in the Windows credential store
  place,         \* where each thread is
  after,         \* where a thread goes once it holds a new token
  asking,        \* the app key a token request under way was made with
  held,          \* the token a thread has in a local variable
  captured,      \* the app key a worker was started with
  target,        \* the app key saveKisCredentials was called with
  previous,      \* its previous_token
  issued,        \* number of tokens issued so far
  aged,          \* number of serials, oldest first, the clock says to refresh
  atSave,        \* observed: settingsKey when the current save began
  residue,       \* observed: an erasure failed or an operation was cut short
  spanned        \* observed: a save exchanged the app key during a token request

live == <<settingsKey, available, token, tokenLock>>
disk == <<db, store>>
locals == <<place, after, asking, held, captured, target, previous>>
server == <<issued, aged>>
observed == <<atSave, residue, spanned>>
vars == <<live, disk, locals, server, observed>>

TokenOrNone == Tokens \cup {NoToken}
KeyOrNone == Keys \cup {NoKey}

RequestPlaces == {"ensure", "snapshot", "send", "refresh", "resnapshot", "resend"}
IssuePlaces == {"issuing", "saving", "adopting"}
LoadPlaces == {"load", "db_open", "db_read", "adopt_cached", "drop_cached", "force_issue"}
ClearPlaces == {"clear_settings", "clear_token", "clear_db", "clear_done"}
SavePlaces == {"verify_token", "verify_account", "remember", "save_db", "save_store",
               "rollback", "commit", "commit_token"}
Places == {"idle", "launch"} \cup RequestPlaces \cup IssuePlaces \cup LoadPlaces
            \cup ClearPlaces \cup SavePlaces

\* token_needs_refresh()
NeedsRefresh(t) == t # NoToken => t.serial < aged

\* token_matches_app_key()
Matches(t, key) == t # NoToken /\ t.tag = key

Init ==
  /\ settingsKey = NoKey /\ available = FALSE
  /\ token = NoToken /\ tokenLock = NoOne
  /\ db \in {NoToken} \cup {[owner |-> k, tag |-> k, serial |-> 0] : k \in Keys}
  /\ store \in KeyOrNone
  /\ store = NoKey /\ EnvKeys = {} => db = NoToken
  /\ place = [a \in Threads |-> "idle"]
  /\ after = [a \in Threads |-> "idle"]
  /\ asking = [a \in Threads |-> NoKey]
  /\ held = [a \in Threads |-> NoToken]
  /\ captured = [w \in Workers |-> NoKey]
  /\ target = NoKey /\ previous = NoToken
  /\ issued = 0 /\ aged = 0
  /\ atSave = NoKey /\ residue = FALSE /\ spanned = FALSE

Go(a, p) == place' = [place EXCEPT ![a] = p]
Hold(a, t) == held' = [held EXCEPT ![a] = t]

\* Thread a moves and nothing else changes.
Moves(a, p) ==
  /\ Go(a, p)
  /\ UNCHANGED <<live, disk, after, asking, held, captured, target, previous, server,
                 observed>>

\* Thread a leaves its operation and its local variables end with it; a worker
\* thread is over, which is the same as not started.
Ends(a) ==
  /\ Go(a, "idle")
  /\ after' = [after EXCEPT ![a] = "idle"]
  /\ asking' = [asking EXCEPT ![a] = NoKey]
  /\ Hold(a, NoToken)
  /\ captured' = [w \in Workers |-> IF w = a THEN NoKey ELSE captured[w]]
  /\ target' = IF a = Op THEN NoKey ELSE target
  /\ previous' = IF a = Op THEN NoToken ELSE previous
  /\ atSave' = IF a = Op THEN NoKey ELSE atSave

\* ... and that is all that happens.
OnlyEnds(a) == Ends(a) /\ UNCHANGED <<live, disk, server, residue, spanned>>

\* Mutant of Mint: a token is asked for without an app key, too.
MintForAnyone(a, key, tag) ==
  /\ issued < MaxTokens
  /\ issued' = issued + 1
  /\ Hold(a, [owner |-> key, tag |-> tag, serial |-> issued'])

\* The server issues a token for key, which is then tagged.
Mint(a, key, tag) ==
  /\ key # NoKey /\ issued < MaxTokens
  /\ issued' = issued + 1
  /\ Hold(a, [owner |-> key, tag |-> tag, serial |-> issued'])

-----------------------------------------------------------------------------
(* requestAndStoreAccessTokenLocked: the caller holds the token mutex from *)
(* BeginIssue on; `after` says where it was called from.                   *)

\* request_token() has a reference to the app key in the settings, which the
\* mutex does not protect.  It is read for the request (what others do between
\* the locking and this reading they can as well do before the locking) ...
BeginIssue(a, return) ==
  /\ tokenLock = NoOne
  /\ tokenLock' = a
  /\ asking' = [asking EXCEPT ![a] = settingsKey]
  /\ after' = [after EXCEPT ![a] = return]
  /\ Go(a, "issuing")
  /\ UNCHANGED <<settingsKey, available, token, disk, held, captured, target, previous,
                 server, observed>>

\* ... and read again, once the answer is there, for the tag.
TokenIssued(a) ==
  /\ place[a] = "issuing"
  /\ Mint(a, asking[a], settingsKey)
  /\ asking' = [asking EXCEPT ![a] = NoKey]
  /\ Go(a, "saving")
  /\ UNCHANGED <<live, disk, after, captured, target, previous, aged, observed>>

IssueFails(a) ==
  /\ place[a] \in {"issuing", "saving"}
  /\ tokenLock' = NoOne
  /\ Ends(a)
  /\ UNCHANGED <<settingsKey, available, token, disk, server, residue, spanned>>

TokenSaved(a) ==
  /\ place[a] = "saving"
  /\ db' = held[a]
  /\ Go(a, "adopting")
  /\ UNCHANGED <<live, store, after, asking, held, captured, target, previous, server,
                 observed>>

TokenAdopted(a) ==
  /\ place[a] = "adopting"
  /\ token' = held[a]
  /\ tokenLock' = NoOne
  /\ Go(a, after[a])
  /\ after' = [after EXCEPT ![a] = "idle"]
  /\ Hold(a, NoToken)
  /\ UNCHANGED <<settingsKey, available, disk, asking, captured, target, previous, server,
                 observed>>

-----------------------------------------------------------------------------
(* Requests that carry a token: ensureAccessToken, accessTokenSnapshot, the *)
(* request, and one repetition when the server says the token expired.      *)

EnsureUnavailable(a) ==
  /\ place[a] = "ensure" /\ ~available
  /\ OnlyEnds(a)

EnsureFresh(a, next) ==
  /\ place[a] = "ensure" /\ available
  /\ tokenLock = NoOne /\ ~NeedsRefresh(token)
  /\ Moves(a, next)

EnsureStale(a, next) ==
  /\ place[a] = "ensure" /\ available
  /\ NeedsRefresh(token)
  /\ BeginIssue(a, next)

Snapshot(a) ==
  /\ \/ place[a] = "snapshot" /\ Go(a, "send")
     \/ place[a] = "resnapshot" /\ Go(a, "resend")
  /\ tokenLock = NoOne
  /\ Hold(a, token)
  /\ UNCHANGED <<live, disk, after, asking, captured, target, previous, server, observed>>

\* The request is answered, or fails otherwise than by expiry.
Answered(a) ==
  /\ place[a] \in {"send", "resend"}
  /\ OnlyEnds(a)

\* A worker goes on to its next request with the token it has.
NextRequest(w) ==
  /\ place[w] = "resend"
  /\ Moves(w, "send")

Expired(a) ==
  /\ place[a] = "send"
  /\ Moves(a, "refresh")

\* refreshAccessTokenAfterExpiration: somebody else has replaced the token...
ReuseToken(a) ==
  /\ place[a] = "refresh" /\ tokenLock = NoOne
  /\ ~NeedsRefresh(token) /\ token # held[a]
  /\ Moves(a, "resnapshot")

\* ... or a new one is requested.
RefreshToken(a) ==
  /\ place[a] = "refresh"
  /\ NeedsRefresh(token) \/ token = held[a]
  /\ BeginIssue(a, "resnapshot")

-----------------------------------------------------------------------------
(* The window thread starts workers. *)

UiRequest ==
  /\ place[Ui] = "idle" /\ available
  /\ Moves(Ui, "ensure")

\* The worker captures the app key of this moment.
Launch(w) ==
  /\ place[Ui] = "launch" /\ place[w] = "idle"
  /\ captured' = [captured EXCEPT ![w] = settingsKey]
  /\ place' = [place EXCEPT ![Ui] = "idle", ![w] = "snapshot"]
  /\ UNCHANGED <<live, disk, after, asking, held, target, previous, server, observed>>

\* The loading flag is set already: a worker of this kind is still busy.
LaunchRefused ==
  /\ place[Ui] = "launch"
  /\ \E w \in Workers : place[w] # "idle"
  /\ Moves(Ui, "idle")

-----------------------------------------------------------------------------
(* initialize(), with which the dashboard is refreshed; what the refresh    *)
(* requests afterwards is an OpRequest.                                     *)

OpLoad == place[Op] = "idle" /\ Moves(Op, "load")
OpRequest == place[Op] = "idle" /\ Moves(Op, "ensure")

\* app_config::load: the credential store wins over the environment.
LoadedKeys == IF store # NoKey THEN {store}
              ELSE IF EnvKeys # {} THEN EnvKeys ELSE {NoKey}

LoadSettings ==
  /\ place[Op] = "load"
  /\ settingsKey' \in LoadedKeys
  /\ available' = (settingsKey' # NoKey)
  /\ Go(Op, IF available' THEN "db_open" ELSE "idle")
  /\ UNCHANGED <<token, tokenLock, disk, after, asking, held, captured, target, previous,
                 server, observed>>

OpenDb ==
  /\ place[Op] = "db_open"
  /\ Moves(Op, "db_read") \/ OnlyEnds(Op)

\* Mutant of ReadDb: the tag of the cached token is not compared.
ReadDbUntagged ==
  /\ place[Op] = "db_read"
  /\ \/ /\ db # NoToken
        /\ Hold(Op, db)
        /\ Go(Op, IF ~NeedsRefresh(db) THEN "adopt_cached" ELSE "drop_cached")
     \/ Go(Op, "force_issue") /\ UNCHANGED held
  /\ UNCHANGED <<live, disk, after, asking, captured, target, previous, server, observed>>

\* loadToken finds a row, or nothing it can use.
ReadDb ==
  /\ place[Op] = "db_read"
  /\ \/ /\ db # NoToken
        /\ Hold(Op, db)
        /\ Go(Op, IF Matches(db, settingsKey) /\ ~NeedsRefresh(db)
                  THEN "adopt_cached" ELSE "drop_cached")
     \/ Go(Op, "force_issue") /\ UNCHANGED held
  /\ UNCHANGED <<live, disk, after, asking, captured, target, previous, server, observed>>

AdoptCached ==
  /\ place[Op] = "adopt_cached" /\ tokenLock = NoOne
  /\ token' = held[Op]
  /\ Ends(Op)
  /\ UNCHANGED <<settingsKey, available, tokenLock, disk, server, residue, spanned>>

\* clearToken: its result is not looked at.
Erase ==
  \/ db' = NoToken /\ residue' = FALSE
  \/ residue' = TRUE /\ UNCHANGED db

DropCached ==
  /\ place[Op] = "drop_cached"
  /\ Erase
  /\ Go(Op, "force_issue")
  /\ Hold(Op, NoToken)
  /\ UNCHANGED <<live, store, after, asking, captured, target, previous, server, atSave, spanned>>

ForceIssue ==
  /\ place[Op] = "force_issue"
  /\ BeginIssue(Op, "idle")

-----------------------------------------------------------------------------
(* clearKisCredentials() *)

\* From here on the credential store has no credentials.  When the deletion
\* fails the operation ends without having changed anything.
ClearStore ==
  /\ place[Op] = "idle"
  /\ store' = NoKey
  /\ Go(Op, "clear_settings")
  /\ UNCHANGED <<live, db, after, asking, held, captured, target, previous, server,
                 observed>>

ClearSettings ==
  /\ place[Op] = "clear_settings"
  /\ settingsKey' = NoKey
  /\ Go(Op, "clear_token")
  /\ UNCHANGED <<available, token, tokenLock, disk, after, asking, held, captured, target,
                 previous, server, observed>>

\* Mutant of ClearToken: the token mutex is not taken.
ClearTokenUnlocked ==
  /\ place[Op] = "clear_token"
  /\ token' = NoToken
  /\ Go(Op, "clear_db")
  /\ UNCHANGED <<settingsKey, available, tokenLock, disk, after, asking, held, captured,
                 target,
                 previous, server, observed>>

ClearToken ==
  /\ place[Op] = "clear_token" /\ tokenLock = NoOne
  /\ token' = NoToken
  /\ Go(Op, "clear_db")
  /\ UNCHANGED <<settingsKey, available, tokenLock, disk, after, asking, held, captured,
                 target,
                 previous, server, observed>>

ClearDb ==
  /\ place[Op] = "clear_db"
  /\ Erase
  /\ Go(Op, "clear_done")
  /\ UNCHANGED <<live, store, after, asking, held, captured, target, previous, server,
                 atSave, spanned>>

\* The dashboard is refreshed after a clear, which loads the settings again.
ClearDone ==
  /\ place[Op] = "clear_done"
  /\ available' = FALSE
  /\ Go(Op, "load")
  /\ UNCHANGED <<settingsKey, token, tokenLock, disk, after, asking, held, captured, target,
                 previous, server, observed>>

-----------------------------------------------------------------------------
(* saveKisCredentials() *)

SaveBegin(key) ==
  /\ place[Op] = "idle"
  /\ target' = key
  /\ atSave' = settingsKey
  /\ Go(Op, "verify_token")
  /\ UNCHANGED <<live, disk, after, asking, held, captured, previous, server, residue,
                 spanned>>

SaveVerifyToken ==
  /\ place[Op] = "verify_token"
  /\ Mint(Op, target, target)
  /\ Go(Op, "verify_account")
  /\ UNCHANGED <<live, disk, after, asking, captured, target, previous, aged, observed>>

\* The token request, the balance request, opening the database or writing
\* the token fails: the operation ends.
SaveFails ==
  /\ place[Op] \in {"verify_token", "verify_account", "remember", "save_db"}
  /\ OnlyEnds(Op)

\* Mutant of SaveVerifyAccount: the settings change before they are stored.
SaveVerifyAndUse ==
  /\ place[Op] = "verify_account"
  /\ settingsKey' = target /\ available' = TRUE
  /\ Go(Op, "remember")
  /\ UNCHANGED <<token, tokenLock, disk, after, asking, held, captured, target, previous,
                 server, observed>>

SaveVerifyAccount ==
  /\ place[Op] = "verify_account"
  /\ Moves(Op, "remember")

SaveRemember ==
  /\ place[Op] = "remember" /\ tokenLock = NoOne
  /\ previous' = token
  /\ Go(Op, "save_db")
  /\ UNCHANGED <<live, disk, after, asking, held, captured, target, server, observed>>

SaveDb ==
  /\ place[Op] = "save_db"
  /\ db' = held[Op]
  /\ Go(Op, "save_store")
  /\ UNCHANGED <<live, store, after, asking, held, captured, target, previous, server,
                 observed>>

SaveStore ==
  /\ place[Op] = "save_store"
  /\ store' = target
  /\ Go(Op, "commit")
  /\ UNCHANGED <<live, db, after, asking, held, captured, target, previous, server,
                 observed>>

SaveStoreFails ==
  /\ place[Op] = "save_store"
  /\ Moves(Op, "rollback")

\* The previous token is put back, or the row deleted when there was none;
\* whether that works is not looked at.
SaveRollback ==
  /\ place[Op] = "rollback"
  /\ IF previous # NoToken
     THEN db' \in {previous, db} /\ UNCHANGED residue
     ELSE Erase
  /\ Ends(Op)
  /\ UNCHANGED <<live, store, server, spanned>>

SaveCommit ==
  /\ place[Op] = "commit"
  /\ settingsKey' = target
  /\ available' = TRUE
  /\ spanned' = (spanned \/ \E a \in Threads : asking[a] \notin {NoKey, target})
  /\ Go(Op, "commit_token")
  /\ UNCHANGED <<token, tokenLock, disk, after, asking, held, captured, target, previous,
                 server, atSave, residue>>

\* Mutant of SaveCommitToken: the token in memory is not replaced.
SaveWithoutToken ==
  /\ place[Op] = "commit_token" /\ tokenLock = NoOne
  /\ Hold(Op, NoToken)
  /\ target' = NoKey /\ previous' = NoToken /\ atSave' = NoKey
  /\ Go(Op, "load")
  /\ UNCHANGED <<live, disk, after, asking, captured, server, residue, spanned>>

SaveCommitToken ==
  /\ place[Op] = "commit_token" /\ tokenLock = NoOne
  /\ token' = held[Op]
  /\ Hold(Op, NoToken)
  /\ target' = NoKey /\ previous' = NoToken /\ atSave' = NoKey
  /\ Go(Op, "load")
  /\ UNCHANGED <<settingsKey, available, tokenLock, disk, after, asking, captured, server,
                 residue, spanned>>

-----------------------------------------------------------------------------
(* The environment *)

\* The oldest fresh token comes within five minutes of its expiry.
Age ==
  /\ aged <= issued
  /\ aged' = aged + 1
  /\ UNCHANGED <<live, disk, locals, issued, observed>>

\* The process ends anywhere; the database and the credential store remain.
Crash ==
  /\ settingsKey' = NoKey /\ available' = FALSE
  /\ token' = NoToken /\ tokenLock' = NoOne
  /\ place' = [a \in Threads |-> "idle"]
  /\ after' = [a \in Threads |-> "idle"]
  /\ asking' = [a \in Threads |-> NoKey]
  /\ held' = [a \in Threads |-> NoToken]
  /\ captured' = [w \in Workers |-> NoKey]
  /\ target' = NoKey /\ previous' = NoToken
  /\ residue' = (residue \/ place[Op] # "idle")
  /\ atSave' = NoKey
  /\ UNCHANGED <<disk, server, spanned>>

-----------------------------------------------------------------------------
Issuing(a) ==
  \/ TokenIssued(a) \/ IssueFails(a)
  \/ TokenSaved(a) \/ TokenAdopted(a)

Requesting(a) ==
  Snapshot(a) \/ Answered(a) \/ Expired(a) \/ ReuseToken(a) \/ RefreshToken(a)

UiStep ==
  \/ UiRequest \/ EnsureUnavailable(Ui)
  \/ EnsureFresh(Ui, "launch") \/ EnsureStale(Ui, "launch")
  \/ \E w \in Workers : Launch(w)
  \/ LaunchRefused
  \/ Issuing(Ui)

WorkerStep(w) == Requesting(w) \/ NextRequest(w) \/ Issuing(w)

Loading ==
  OpLoad \/ LoadSettings \/ OpenDb \/ ReadDb \/ AdoptCached \/ DropCached \/ ForceIssue

Clearing == ClearStore \/ ClearSettings \/ ClearToken \/ ClearDb \/ ClearDone

Saving ==
  \/ \E key \in Keys : SaveBegin(key)
  \/ SaveVerifyToken \/ SaveVerifyAccount \/ SaveFails \/ SaveRemember \/ SaveDb
  \/ SaveStore \/ SaveStoreFails \/ SaveRollback \/ SaveCommit \/ SaveCommitToken

OpStep ==
  \/ Loading \/ Clearing \/ Saving
  \/ OpRequest \/ EnsureUnavailable(Op)
  \/ EnsureFresh(Op, "snapshot") \/ EnsureStale(Op, "snapshot")
  \/ Requesting(Op) \/ Issuing(Op)

Next ==
  \/ UiStep \/ OpStep
  \/ \E w \in Workers : WorkerStep(w)
  \/ Age
  \/ Crash

Spec == Init /\ [][Next]_vars

-----------------------------------------------------------------------------
(* Properties *)

TypeOK ==
  /\ settingsKey \in KeyOrNone /\ available \in BOOLEAN
  /\ token \in TokenOrNone /\ tokenLock \in Threads \cup {NoOne}
  /\ db \in TokenOrNone /\ store \in KeyOrNone
  /\ place \in [Threads -> Places] /\ after \in [Threads -> Places]
  /\ asking \in [Threads -> KeyOrNone] /\ held \in [Threads -> TokenOrNone]
  /\ captured \in [Workers -> KeyOrNone]
  /\ target \in KeyOrNone /\ previous \in TokenOrNone
  /\ issued \in 0 .. MaxTokens /\ aged \in 0 .. MaxTokens + 1
  /\ atSave \in KeyOrNone /\ residue \in BOOLEAN /\ spanned \in BOOLEAN

\* The shared token is the one tagged for the app key in use, however a
\* worker's or the window thread's refresh overlaps a change of credentials,
\* and whatever an earlier process left in the database; and it was created
\* with that app key unless a save exchanged the key during a token request
\* (see CreatorAdopts).  The two assignments that change the key and then the
\* token are the only exception.
TokenBound ==
  token # NoToken /\ place[Op] \notin {"clear_token", "commit_token"} =>
    /\ token.tag = settingsKey
    /\ ~spanned => token.owner = settingsKey

\* Account requests and orders carry a token tagged for the credentials they
\* are sent with, also when they are repeated after an expired token; and
\* created with them, under the same condition.
OpRequestBound ==
  place[Op] \in {"send", "resend"} =>
    /\ Matches(held[Op], settingsKey)
    /\ ~spanned => held[Op].owner = settingsKey

\* The tag binds "a cached token to the AppKey that created it": a token that
\* initialize() takes from the database was created with the app key in use.
CreatorAdopts == place[Op] = "adopt_cached" => held[Op].owner = settingsKey

\* Until both persistent writes of a save have succeeded the session in use
\* is the one from before the save, and so it stays when the save fails.
SaveIsAtomic ==
  place[Op] \in {"verify_account", "remember", "save_db", "save_store", "rollback"}
    => settingsKey = atSave /\ available = (settingsKey # NoKey)

\* Deleting the credentials leaves no access token in the database: no
\* refresh in flight writes one after the deletion.  Excepted are a deletion
\* that the database refused and an operation cut short by a crash.
ErasedWithCredentials ==
  LoadedKeys = {NoKey} /\ place[Op] = "idle" /\ ~residue => db = NoToken

=============================================================================
