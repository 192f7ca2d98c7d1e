------------------------- MODULE TradeSessionProofs -------------------------
(***************************************************************************)
(* Proofs of the safety properties of TradeSession, for any app keys, any  *)
(* number of workers and of tokens, and any environment.                   *)
(*                                                                         *)
(* The token mutex orders the issue of a token against the two places      *)
(* where the app key has changed and the token has not: MintedInv says     *)
(* that a token on its way to _token always fits the settings outside      *)
(* those places, and OperationInv what the thread that holds               *)
(* operation_mutex may rely on.                                            *)
(***************************************************************************)
EXTENDS TradeSession, TLAPS

\* The holder of the token mutex is the thread that is issuing a token, and
\* the thread goes on to where it asked for it.
LockInv ==
  \A a \in Threads :
    /\ place[a] \in IssuePlaces <=> tokenLock = a
    /\ after[a] \in {"idle", "snapshot", "resnapshot", "launch"}
    /\ a = Op => after[a] # "launch"

\* Between these two assignments _token and the settings belong to different
\* app keys.
Exchanging == place[Op] \in {"clear_token", "commit_token"}

MintedInv ==
  \A a \in Threads :
    place[a] \in {"saving", "adopting"} =>
      /\ held[a] # NoToken
      /\ ~Exchanging => held[a].tag = settingsKey /\ settingsKey # NoKey

\* A token whose tag does not name its creator has the tag of no app key, but
\* for the requests that a save has spanned.
Tagged(t) == t # NoToken => t.tag \in {t.owner, NoKey}

CreatorInv ==
  /\ \A a \in Threads : asking[a] # NoKey =>
       /\ place[a] = "issuing"
       /\ settingsKey = NoKey => place[Op] = "clear_token"
       /\ settingsKey # NoKey /\ ~spanned => asking[a] = settingsKey
  /\ ~spanned =>
       /\ Tagged(token) /\ Tagged(db) /\ Tagged(previous)
       /\ \A a \in Threads : Tagged(held[a])

\* The settings in use are those a restart would load.
SettingsInv ==
  /\ settingsKey # NoKey /\ place[Op] \notin {"clear_settings", "commit"}
       => LoadedKeys = {settingsKey}
  /\ place[Op] \notin {"clear_token", "clear_db", "clear_done"}
       => available = (settingsKey # NoKey)
  /\ place[Op] \in {"clear_token", "clear_db", "clear_done"} => settingsKey = NoKey

\* What the operation thread has established at each of its places.
OperationInv ==
  /\ place[Op] \in {"snapshot", "resnapshot"} => token # NoToken
  /\ place[Op] \in {"db_open", "db_read", "adopt_cached"} => settingsKey # NoKey
  /\ place[Op] = "adopt_cached" => Matches(held[Op], settingsKey)
  /\ place[Op] \in SavePlaces => target \in Keys
  /\ place[Op] \in SavePlaces \ {"commit", "commit_token"} => settingsKey = atSave
  /\ place[Op] \in SavePlaces \ {"verify_token"} => Matches(held[Op], target)
  /\ place[Op] \in {"commit", "commit_token"} => store = target
  /\ place[Op] = "commit_token" => settingsKey = target
  /\ place[Op] \in {"save_db", "save_store", "rollback"} /\ previous # NoToken
       => LoadedKeys # {NoKey}

\* Outside the places where an erasure or a save is under way, a row in the
\* database belongs to stored credentials.
ErasedInv ==
  LoadedKeys = {NoKey} /\ ~residue
    /\ place[Op] \notin {"clear_settings", "clear_token", "clear_db", "save_store", "rollback"}
    => db = NoToken

\* What makes TokenBound and OpRequestBound inductive: their tags name an app
\* key, so that by CreatorInv they name the creator.
BoundInv ==
  /\ token # NoToken /\ ~Exchanging => token.tag = settingsKey /\ settingsKey # NoKey
  /\ place[Op] \in {"send", "resend"} => Matches(held[Op], settingsKey) /\ settingsKey # NoKey

SessionInv ==
  /\ TypeOK /\ LockInv /\ MintedInv /\ SettingsInv /\ OperationInv /\ ErasedInv
  /\ BoundInv /\ CreatorInv

-----------------------------------------------------------------------------
(* One lemma per part of the invariant, one step per action.               *)

\* Every variable keeps its type.
LEMMA TypeStep ==
  ASSUME TypeOK, LockInv, OperationInv, [Next]_vars
  PROVE  TypeOK'
  <1> USE SessionConstants, NobodyIsAThread, NoTokenIsNone
          DEF Threads, Go, live, disk, locals, server, observed, TypeOK, Places,
              RequestPlaces, IssuePlaces, LoadPlaces, ClearPlaces, SavePlaces,
              TokenOrNone, KeyOrNone, LoadedKeys, LockInv, OperationInv
  <1>1. ASSUME NEW a \in Threads, TokenIssued(a) PROVE TypeOK'
    BY <1>1 DEF TokenIssued, Mint, Hold, Tokens
  <1>2. ASSUME NEW a \in Threads, IssueFails(a) PROVE TypeOK'
    BY <1>2 DEF IssueFails, Ends, Hold
  <1>3. ASSUME NEW a \in Threads, TokenSaved(a) PROVE TypeOK'
    BY <1>3 DEF TokenSaved
  <1>4. ASSUME NEW a \in Threads, TokenAdopted(a) PROVE TypeOK'
    BY <1>4 DEF TokenAdopted, Hold
  <1>5. ASSUME NEW a \in Threads, EnsureUnavailable(a) PROVE TypeOK'
    BY <1>5 DEF EnsureUnavailable, OnlyEnds, Ends, Hold
  <1>6. ASSUME NEW a \in Threads, NEW p \in {"snapshot", "launch"}, a = Op => p
               = "snapshot", EnsureFresh(a, p)
        PROVE  TypeOK'
    BY <1>6 DEF EnsureFresh, Moves, NeedsRefresh
  <1>7. ASSUME NEW a \in Threads, NEW p \in {"snapshot", "launch"}, a = Op => p
               = "snapshot", EnsureStale(a, p)
        PROVE  TypeOK'
    BY <1>7 DEF EnsureStale, BeginIssue
  <1>8. ASSUME NEW a \in Threads, Snapshot(a) PROVE TypeOK'
    BY <1>8 DEF Snapshot, Hold
  <1>9. ASSUME NEW a \in Threads, Answered(a) PROVE TypeOK'
    BY <1>9 DEF Answered, OnlyEnds, Ends, Hold
  <1>10. ASSUME NEW a \in Threads, NextRequest(a), a # Op PROVE TypeOK'
    BY <1>10 DEF NextRequest, Moves
  <1>11. ASSUME NEW a \in Threads, Expired(a) PROVE TypeOK'
    BY <1>11 DEF Expired, Moves
  <1>12. ASSUME NEW a \in Threads, ReuseToken(a) PROVE TypeOK'
    BY <1>12 DEF ReuseToken, Moves, NeedsRefresh
  <1>13. ASSUME NEW a \in Threads, RefreshToken(a) PROVE TypeOK'
    BY <1>13 DEF RefreshToken, BeginIssue
  <1>14. CASE UiRequest
    BY <1>14 DEF UiRequest, Moves
  <1>15. ASSUME NEW a \in Workers, Launch(a) PROVE TypeOK'
    BY <1>15 DEF Launch
  <1>16. CASE LaunchRefused
    BY <1>16 DEF LaunchRefused, Moves
  <1>17. CASE OpLoad
    BY <1>17 DEF OpLoad, Moves
  <1>18. CASE OpRequest
    BY <1>18 DEF OpRequest, Moves
  <1>19. CASE LoadSettings
    BY <1>19 DEF LoadSettings
  <1>20. CASE OpenDb
    BY <1>20 DEF OpenDb, Moves, OnlyEnds, Ends, Hold
  <1>21. CASE ReadDb
    BY <1>21 DEF ReadDb, Hold, Matches
  <1>22. CASE AdoptCached
    BY <1>22 DEF AdoptCached, Ends, Hold, Matches
  <1>23. CASE DropCached
    <2>1. db' \in TokenOrNone /\ residue' \in BOOLEAN
      BY <1>23 DEF DropCached, Erase
    <2>2. place' \in [Threads -> Places] /\ held' \in [Threads -> TokenOrNone]
      BY <1>23 DEF DropCached, Hold
    <2> QED
      BY ONLY TypeOK, <1>23, <2>1, <2>2
      DEF TypeOK, DropCached, live, locals, server, observed
  <1>24. CASE ForceIssue
    BY <1>24 DEF ForceIssue, BeginIssue
  <1>25. CASE ClearStore
    BY <1>25 DEF ClearStore
  <1>26. CASE ClearSettings
    BY <1>26 DEF ClearSettings
  <1>27. CASE ClearToken
    BY <1>27 DEF ClearToken
  <1>28. CASE ClearDb
    <2>1. db' \in TokenOrNone /\ residue' \in BOOLEAN
      BY <1>28 DEF ClearDb, Erase
    <2>2. place' \in [Threads -> Places]
      BY <1>28 DEF ClearDb
    <2> QED
      BY ONLY TypeOK, <1>28, <2>1, <2>2
      DEF TypeOK, ClearDb, live, locals, server, observed
  <1>29. CASE ClearDone
    <2>1. place' \in [Threads -> Places] /\ available' \in BOOLEAN
      BY <1>29 DEF ClearDone
    <2> QED
      BY ONLY TypeOK, <1>29, <2>1
      DEF TypeOK, ClearDone, disk, locals, server, observed
  <1>30. ASSUME NEW key \in Keys, SaveBegin(key) PROVE TypeOK'
    BY <1>30 DEF SaveBegin
  <1>31. CASE SaveVerifyToken
    BY <1>31 DEF SaveVerifyToken, Mint, Hold, Tokens
  <1>32. CASE SaveFails
    BY <1>32 DEF SaveFails, OnlyEnds, Ends, Hold
  <1>33. CASE SaveVerifyAccount
    BY <1>33 DEF SaveVerifyAccount, Moves
  <1>34. CASE SaveRemember
    BY <1>34 DEF SaveRemember
  <1>35. CASE SaveDb
    BY <1>35 DEF SaveDb
  <1>36. CASE SaveStore
    BY <1>36 DEF SaveStore
  <1>37. CASE SaveStoreFails
    BY <1>37 DEF SaveStoreFails, Moves
  <1>38. CASE SaveRollback
    BY <1>38 DEF SaveRollback, Erase, Ends, Hold
  <1>39. CASE SaveCommit
    BY <1>39 DEF SaveCommit
  <1>40. CASE SaveCommitToken
    BY <1>40 DEF SaveCommitToken, Hold
  <1>41. CASE Age
    BY <1>41 DEF Age, locals
  <1>42. CASE Crash
    BY <1>42 DEF Crash
  <1>43. CASE UNCHANGED vars
    BY <1>43 DEF vars
  <1> QED
    BY ONLY [Next]_vars, SessionConstants, <1>1, <1>2, <1>3, <1>4, <1>5, <1>6,
            <1>7, <1>8, <1>9, <1>10, <1>11, <1>12, <1>13, <1>14, <1>15, <1>16,
            <1>17, <1>18, <1>19, <1>20, <1>21, <1>22, <1>23, <1>24, <1>25,
            <1>26, <1>27, <1>28, <1>29, <1>30, <1>31, <1>32, <1>33, <1>34,
            <1>35, <1>36, <1>37, <1>38, <1>39, <1>40, <1>41, <1>42, <1>43
    DEF Next, UiStep, OpStep, WorkerStep, Requesting, Issuing, Loading,
        Clearing, Saving, Threads

\* The token mutex is held by exactly the thread that is issuing a token.
LEMMA LockStep ==
  ASSUME TypeOK, LockInv, [Next]_vars
  PROVE  LockInv'
  <1> USE SessionConstants, NobodyIsAThread, NoTokenIsNone
          DEF Threads, Go, live, disk, locals, server, observed, TypeOK,
              LockInv, IssuePlaces
  <1>1. ASSUME NEW a \in Threads, TokenIssued(a) PROVE LockInv'
    BY <1>1 DEF TokenIssued, Mint, Hold
  <1>2. ASSUME NEW a \in Threads, IssueFails(a) PROVE LockInv'
    BY <1>2 DEF IssueFails, Ends, Hold
  <1>3. ASSUME NEW a \in Threads, TokenSaved(a) PROVE LockInv'
    BY <1>3 DEF TokenSaved
  <1>4. ASSUME NEW a \in Threads, TokenAdopted(a) PROVE LockInv'
    BY <1>4 DEF TokenAdopted, Hold
  <1>5. ASSUME NEW a \in Threads, EnsureUnavailable(a) PROVE LockInv'
    BY <1>5 DEF EnsureUnavailable, OnlyEnds, Ends, Hold
  <1>6. ASSUME NEW a \in Threads, NEW p \in {"snapshot", "launch"}, a = Op => p
               = "snapshot", EnsureFresh(a, p)
        PROVE  LockInv'
    BY <1>6 DEF EnsureFresh, Moves, NeedsRefresh
  <1>7. ASSUME NEW a \in Threads, NEW p \in {"snapshot", "launch"}, a = Op => p
               = "snapshot", EnsureStale(a, p)
        PROVE  LockInv'
    BY <1>7 DEF EnsureStale, BeginIssue
  <1>8. ASSUME NEW a \in Threads, Snapshot(a) PROVE LockInv'
    BY <1>8 DEF Snapshot, Hold
  <1>9. ASSUME NEW a \in Threads, Answered(a) PROVE LockInv'
    BY <1>9 DEF Answered, OnlyEnds, Ends, Hold
  <1>10. ASSUME NEW a \in Threads, NextRequest(a), a # Op PROVE LockInv'
    BY <1>10 DEF NextRequest, Moves
  <1>11. ASSUME NEW a \in Threads, Expired(a) PROVE LockInv'
    BY <1>11 DEF Expired, Moves
  <1>12. ASSUME NEW a \in Threads, ReuseToken(a) PROVE LockInv'
    BY <1>12 DEF ReuseToken, Moves, NeedsRefresh
  <1>13. ASSUME NEW a \in Threads, RefreshToken(a) PROVE LockInv'
    BY <1>13 DEF RefreshToken, BeginIssue
  <1>14. CASE UiRequest
    BY <1>14 DEF UiRequest, Moves
  <1>15. ASSUME NEW a \in Workers, Launch(a) PROVE LockInv'
    BY <1>15 DEF Launch
  <1>16. CASE LaunchRefused
    BY <1>16 DEF LaunchRefused, Moves
  <1>17. CASE OpLoad
    BY <1>17 DEF OpLoad, Moves
  <1>18. CASE OpRequest
    BY <1>18 DEF OpRequest, Moves
  <1>19. CASE LoadSettings
    BY <1>19 DEF LoadSettings
  <1>20. CASE OpenDb
    BY <1>20 DEF OpenDb, Moves, OnlyEnds, Ends, Hold
  <1>21. CASE ReadDb
    BY <1>21 DEF ReadDb, Hold, Matches
  <1>22. CASE AdoptCached
    BY <1>22 DEF AdoptCached, Ends, Hold, Matches
  <1>23. CASE DropCached
    BY <1>23 DEF DropCached, Erase, Hold
  <1>24. CASE ForceIssue
    BY <1>24 DEF ForceIssue, BeginIssue
  <1>25. CASE ClearStore
    BY <1>25 DEF ClearStore
  <1>26. CASE ClearSettings
    BY <1>26 DEF ClearSettings
  <1>27. CASE ClearToken
    BY <1>27 DEF ClearToken
  <1>28. CASE ClearDb
    BY <1>28 DEF ClearDb, Erase
  <1>29. CASE ClearDone
    BY <1>29 DEF ClearDone
  <1>30. ASSUME NEW key \in Keys, SaveBegin(key) PROVE LockInv'
    BY <1>30 DEF SaveBegin
  <1>31. CASE SaveVerifyToken
    BY <1>31 DEF SaveVerifyToken, Mint, Hold
  <1>32. CASE SaveFails
    BY <1>32 DEF SaveFails, OnlyEnds, Ends, Hold
  <1>33. CASE SaveVerifyAccount
    BY <1>33 DEF SaveVerifyAccount, Moves
  <1>34. CASE SaveRemember
    BY <1>34 DEF SaveRemember
  <1>35. CASE SaveDb
    BY <1>35 DEF SaveDb
  <1>36. CASE SaveStore
    BY <1>36 DEF SaveStore
  <1>37. CASE SaveStoreFails
    BY <1>37 DEF SaveStoreFails, Moves
  <1>38. CASE SaveRollback
    BY <1>38 DEF SaveRollback, Erase, Ends, Hold
  <1>39. CASE SaveCommit
    BY <1>39 DEF SaveCommit
  <1>40. CASE SaveCommitToken
    BY <1>40 DEF SaveCommitToken, Hold
  <1>41. CASE Age
    BY <1>41 DEF Age, locals
  <1>42. CASE Crash
    BY <1>42 DEF Crash
  <1>43. CASE UNCHANGED vars
    BY <1>43 DEF vars
  <1> QED
    BY ONLY [Next]_vars, SessionConstants, <1>1, <1>2, <1>3, <1>4, <1>5, <1>6,
            <1>7, <1>8, <1>9, <1>10, <1>11, <1>12, <1>13, <1>14, <1>15, <1>16,
            <1>17, <1>18, <1>19, <1>20, <1>21, <1>22, <1>23, <1>24, <1>25,
            <1>26, <1>27, <1>28, <1>29, <1>30, <1>31, <1>32, <1>33, <1>34,
            <1>35, <1>36, <1>37, <1>38, <1>39, <1>40, <1>41, <1>42, <1>43
    DEF Next, UiStep, OpStep, WorkerStep, Requesting, Issuing, Loading,
        Clearing, Saving, Threads

\* The app key does not change under a token that was issued for it, but for
\* the two places where the token mutex is waited for next.
LEMMA MintedStep ==
  ASSUME TypeOK, LockInv, MintedInv, CreatorInv, SettingsInv, OperationInv,
         [Next]_vars
  PROVE  MintedInv'
  <1> USE SessionConstants, NobodyIsAThread, NoTokenIsNone
          DEF Threads, Go, live, disk, locals, server, observed, TypeOK,
              LockInv, MintedInv, Exchanging, IssuePlaces, SettingsInv,
              OperationInv, TokenOrNone, KeyOrNone, Tokens, SavePlaces
  <1>1. ASSUME NEW a \in Threads, TokenIssued(a) PROVE MintedInv'
    BY <1>1 DEF TokenIssued, Mint, Hold, CreatorInv
  <1>2. ASSUME NEW a \in Threads, IssueFails(a) PROVE MintedInv'
    BY <1>2 DEF IssueFails, Ends, Hold
  <1>3. ASSUME NEW a \in Threads, TokenSaved(a) PROVE MintedInv'
    BY <1>3 DEF TokenSaved
  <1>4. ASSUME NEW a \in Threads, TokenAdopted(a) PROVE MintedInv'
    BY <1>4 DEF TokenAdopted, Hold
  <1>5. ASSUME NEW a \in Threads, EnsureUnavailable(a) PROVE MintedInv'
    BY <1>5 DEF EnsureUnavailable, OnlyEnds, Ends, Hold
  <1>6. ASSUME NEW a \in Threads, NEW p \in {"snapshot", "launch"}, a = Op => p
               = "snapshot", EnsureFresh(a, p)
        PROVE  MintedInv'
    BY <1>6 DEF EnsureFresh, Moves, NeedsRefresh
  <1>7. ASSUME NEW a \in Threads, NEW p \in {"snapshot", "launch"}, a = Op => p
               = "snapshot", EnsureStale(a, p)
        PROVE  MintedInv'
    BY <1>7 DEF EnsureStale, BeginIssue
  <1>8. ASSUME NEW a \in Threads, Snapshot(a) PROVE MintedInv'
    BY <1>8 DEF Snapshot, Hold
  <1>9. ASSUME NEW a \in Threads, Answered(a) PROVE MintedInv'
    BY <1>9 DEF Answered, OnlyEnds, Ends, Hold
  <1>10. ASSUME NEW a \in Threads, NextRequest(a), a # Op PROVE MintedInv'
    BY <1>10 DEF NextRequest, Moves
  <1>11. ASSUME NEW a \in Threads, Expired(a) PROVE MintedInv'
    BY <1>11 DEF Expired, Moves
  <1>12. ASSUME NEW a \in Threads, ReuseToken(a) PROVE MintedInv'
    BY <1>12 DEF ReuseToken, Moves, NeedsRefresh
  <1>13. ASSUME NEW a \in Threads, RefreshToken(a) PROVE MintedInv'
    BY <1>13 DEF RefreshToken, BeginIssue
  <1>14. CASE UiRequest
    BY <1>14 DEF UiRequest, Moves
  <1>15. ASSUME NEW a \in Workers, Launch(a) PROVE MintedInv'
    BY <1>15 DEF Launch
  <1>16. CASE LaunchRefused
    BY <1>16 DEF LaunchRefused, Moves
  <1>17. CASE OpLoad
    BY <1>17 DEF OpLoad, Moves
  <1>18. CASE OpRequest
    BY <1>18 DEF OpRequest, Moves
  <1>19. CASE LoadSettings
    BY <1>19 DEF LoadSettings
  <1>20. CASE OpenDb
    BY <1>20 DEF OpenDb, Moves, OnlyEnds, Ends, Hold
  <1>21. CASE ReadDb
    BY <1>21 DEF ReadDb, Hold, Matches
  <1>22. CASE AdoptCached
    BY <1>22 DEF AdoptCached, Ends, Hold, Matches
  <1>23. CASE DropCached
    BY <1>23 DEF DropCached, Erase, Hold
  <1>24. CASE ForceIssue
    BY <1>24 DEF ForceIssue, BeginIssue
  <1>25. CASE ClearStore
    BY <1>25 DEF ClearStore
  <1>26. CASE ClearSettings
    BY <1>26 DEF ClearSettings
  <1>27. CASE ClearToken
    BY <1>27 DEF ClearToken
  <1>28. CASE ClearDb
    BY <1>28 DEF ClearDb, Erase
  <1>29. CASE ClearDone
    BY <1>29 DEF ClearDone
  <1>30. ASSUME NEW key \in Keys, SaveBegin(key) PROVE MintedInv'
    BY <1>30 DEF SaveBegin
  <1>31. CASE SaveVerifyToken
    BY <1>31 DEF SaveVerifyToken, Mint, Hold
  <1>32. CASE SaveFails
    BY <1>32 DEF SaveFails, OnlyEnds, Ends, Hold
  <1>33. CASE SaveVerifyAccount
    BY <1>33 DEF SaveVerifyAccount, Moves
  <1>34. CASE SaveRemember
    BY <1>34 DEF SaveRemember
  <1>35. CASE SaveDb
    BY <1>35 DEF SaveDb
  <1>36. CASE SaveStore
    BY <1>36 DEF SaveStore
  <1>37. CASE SaveStoreFails
    BY <1>37 DEF SaveStoreFails, Moves
  <1>38. CASE SaveRollback
    BY <1>38 DEF SaveRollback, Erase, Ends, Hold
  <1>39. CASE SaveCommit
    BY <1>39 DEF SaveCommit
  <1>40. CASE SaveCommitToken
    BY <1>40 DEF SaveCommitToken, Hold
  <1>41. CASE Age
    BY <1>41 DEF Age, locals
  <1>42. CASE Crash
    BY <1>42 DEF Crash
  <1>43. CASE UNCHANGED vars
    BY <1>43 DEF vars
  <1> QED
    BY ONLY [Next]_vars, SessionConstants, <1>1, <1>2, <1>3, <1>4, <1>5, <1>6,
            <1>7, <1>8, <1>9, <1>10, <1>11, <1>12, <1>13, <1>14, <1>15, <1>16,
            <1>17, <1>18, <1>19, <1>20, <1>21, <1>22, <1>23, <1>24, <1>25,
            <1>26, <1>27, <1>28, <1>29, <1>30, <1>31, <1>32, <1>33, <1>34,
            <1>35, <1>36, <1>37, <1>38, <1>39, <1>40, <1>41, <1>42, <1>43
    DEF Next, UiStep, OpStep, WorkerStep, Requesting, Issuing, Loading,
        Clearing, Saving, Threads

\* The settings stay those a restart would load.
LEMMA SettingsStep ==
  ASSUME TypeOK, SettingsInv, LockInv, OperationInv, [Next]_vars
  PROVE  SettingsInv'
  <1> USE SessionConstants, NobodyIsAThread, NoTokenIsNone
          DEF Threads, Go, live, disk, locals, server, observed, TypeOK,
              SettingsInv, LockInv, OperationInv, KeyOrNone, LoadedKeys,
              SavePlaces, IssuePlaces
  <1>1. ASSUME NEW a \in Threads, TokenIssued(a) PROVE SettingsInv'
    BY <1>1 DEF TokenIssued, Mint, Hold
  <1>2. ASSUME NEW a \in Threads, IssueFails(a) PROVE SettingsInv'
    BY <1>2 DEF IssueFails, Ends, Hold
  <1>3. ASSUME NEW a \in Threads, TokenSaved(a) PROVE SettingsInv'
    BY <1>3 DEF TokenSaved
  <1>4. ASSUME NEW a \in Threads, TokenAdopted(a) PROVE SettingsInv'
    BY <1>4 DEF TokenAdopted, Hold
  <1>5. ASSUME NEW a \in Threads, EnsureUnavailable(a) PROVE SettingsInv'
    BY <1>5 DEF EnsureUnavailable, OnlyEnds, Ends, Hold
  <1>6. ASSUME NEW a \in Threads, NEW p \in {"snapshot", "launch"}, a = Op => p
               = "snapshot", EnsureFresh(a, p)
        PROVE  SettingsInv'
    BY <1>6 DEF EnsureFresh, Moves, NeedsRefresh
  <1>7. ASSUME NEW a \in Threads, NEW p \in {"snapshot", "launch"}, a = Op => p
               = "snapshot", EnsureStale(a, p)
        PROVE  SettingsInv'
    BY <1>7 DEF EnsureStale, BeginIssue
  <1>8. ASSUME NEW a \in Threads, Snapshot(a) PROVE SettingsInv'
    BY <1>8 DEF Snapshot, Hold
  <1>9. ASSUME NEW a \in Threads, Answered(a) PROVE SettingsInv'
    BY <1>9 DEF Answered, OnlyEnds, Ends, Hold
  <1>10. ASSUME NEW a \in Threads, NextRequest(a), a # Op PROVE SettingsInv'
    BY <1>10 DEF NextRequest, Moves
  <1>11. ASSUME NEW a \in Threads, Expired(a) PROVE SettingsInv'
    BY <1>11 DEF Expired, Moves
  <1>12. ASSUME NEW a \in Threads, ReuseToken(a) PROVE SettingsInv'
    BY <1>12 DEF ReuseToken, Moves, NeedsRefresh
  <1>13. ASSUME NEW a \in Threads, RefreshToken(a) PROVE SettingsInv'
    BY <1>13 DEF RefreshToken, BeginIssue
  <1>14. CASE UiRequest
    BY <1>14 DEF UiRequest, Moves
  <1>15. ASSUME NEW a \in Workers, Launch(a) PROVE SettingsInv'
    BY <1>15 DEF Launch
  <1>16. CASE LaunchRefused
    BY <1>16 DEF LaunchRefused, Moves
  <1>17. CASE OpLoad
    BY <1>17 DEF OpLoad, Moves
  <1>18. CASE OpRequest
    BY <1>18 DEF OpRequest, Moves
  <1>19. CASE LoadSettings
    BY <1>19 DEF LoadSettings
  <1>20. CASE OpenDb
    BY <1>20 DEF OpenDb, Moves, OnlyEnds, Ends, Hold
  <1>21. CASE ReadDb
    BY <1>21 DEF ReadDb, Hold, Matches
  <1>22. CASE AdoptCached
    BY <1>22 DEF AdoptCached, Ends, Hold, Matches
  <1>23. CASE DropCached
    BY <1>23 DEF DropCached, Erase, Hold
  <1>24. CASE ForceIssue
    BY <1>24 DEF ForceIssue, BeginIssue
  <1>25. CASE ClearStore
    BY <1>25 DEF ClearStore
  <1>26. CASE ClearSettings
    BY <1>26 DEF ClearSettings
  <1>27. CASE ClearToken
    BY <1>27 DEF ClearToken
  <1>28. CASE ClearDb
    BY <1>28 DEF ClearDb, Erase
  <1>29. CASE ClearDone
    BY <1>29 DEF ClearDone
  <1>30. ASSUME NEW key \in Keys, SaveBegin(key) PROVE SettingsInv'
    BY <1>30 DEF SaveBegin
  <1>31. CASE SaveVerifyToken
    BY <1>31 DEF SaveVerifyToken, Mint, Hold
  <1>32. CASE SaveFails
    BY <1>32 DEF SaveFails, OnlyEnds, Ends, Hold
  <1>33. CASE SaveVerifyAccount
    BY <1>33 DEF SaveVerifyAccount, Moves
  <1>34. CASE SaveRemember
    BY <1>34 DEF SaveRemember
  <1>35. CASE SaveDb
    BY <1>35 DEF SaveDb
  <1>36. CASE SaveStore
    BY <1>36 DEF SaveStore
  <1>37. CASE SaveStoreFails
    BY <1>37 DEF SaveStoreFails, Moves
  <1>38. CASE SaveRollback
    BY <1>38 DEF SaveRollback, Erase, Ends, Hold
  <1>39. CASE SaveCommit
    BY <1>39 DEF SaveCommit
  <1>40. CASE SaveCommitToken
    BY <1>40 DEF SaveCommitToken, Hold
  <1>41. CASE Age
    BY <1>41 DEF Age, locals
  <1>42. CASE Crash
    BY <1>42 DEF Crash
  <1>43. CASE UNCHANGED vars
    BY <1>43 DEF vars
  <1> QED
    BY ONLY [Next]_vars, SessionConstants, <1>1, <1>2, <1>3, <1>4, <1>5, <1>6,
            <1>7, <1>8, <1>9, <1>10, <1>11, <1>12, <1>13, <1>14, <1>15, <1>16,
            <1>17, <1>18, <1>19, <1>20, <1>21, <1>22, <1>23, <1>24, <1>25,
            <1>26, <1>27, <1>28, <1>29, <1>30, <1>31, <1>32, <1>33, <1>34,
            <1>35, <1>36, <1>37, <1>38, <1>39, <1>40, <1>41, <1>42, <1>43
    DEF Next, UiStep, OpStep, WorkerStep, Requesting, Issuing, Loading,
        Clearing, Saving, Threads

\* What the operation thread relies on is not disturbed by the others.
LEMMA OperationStep ==
  ASSUME TypeOK, LockInv, MintedInv, SettingsInv, OperationInv, BoundInv,
         [Next]_vars
  PROVE  OperationInv'
  <1> USE SessionConstants, NobodyIsAThread, NoTokenIsNone
          DEF Threads, Go, live, disk, locals, server, observed, TypeOK,
              OperationInv, LockInv, MintedInv, SettingsInv, BoundInv,
              Exchanging, KeyOrNone, TokenOrNone, Tokens, LoadedKeys,
              SavePlaces, IssuePlaces, Matches
  <1>1. ASSUME NEW a \in Threads, TokenIssued(a) PROVE OperationInv'
    BY <1>1 DEF TokenIssued, Mint, Hold
  <1>2. ASSUME NEW a \in Threads, IssueFails(a) PROVE OperationInv'
    BY <1>2 DEF IssueFails, Ends, Hold
  <1>3. ASSUME NEW a \in Threads, TokenSaved(a) PROVE OperationInv'
    BY <1>3 DEF TokenSaved
  <1>4. ASSUME NEW a \in Threads, TokenAdopted(a) PROVE OperationInv'
    BY <1>4 DEF TokenAdopted, Hold
  <1>5. ASSUME NEW a \in Threads, EnsureUnavailable(a) PROVE OperationInv'
    BY <1>5 DEF EnsureUnavailable, OnlyEnds, Ends, Hold
  <1>6. ASSUME NEW a \in Threads, NEW p \in {"snapshot", "launch"}, a = Op => p
               = "snapshot", EnsureFresh(a, p)
        PROVE  OperationInv'
    BY <1>6 DEF EnsureFresh, Moves, NeedsRefresh
  <1>7. ASSUME NEW a \in Threads, NEW p \in {"snapshot", "launch"}, a = Op => p
               = "snapshot", EnsureStale(a, p)
        PROVE  OperationInv'
    BY <1>7 DEF EnsureStale, BeginIssue
  <1>8. ASSUME NEW a \in Threads, Snapshot(a) PROVE OperationInv'
    BY <1>8 DEF Snapshot, Hold
  <1>9. ASSUME NEW a \in Threads, Answered(a) PROVE OperationInv'
    BY <1>9 DEF Answered, OnlyEnds, Ends, Hold
  <1>10. ASSUME NEW a \in Threads, NextRequest(a), a # Op PROVE OperationInv'
    BY <1>10 DEF NextRequest, Moves
  <1>11. ASSUME NEW a \in Threads, Expired(a) PROVE OperationInv'
    BY <1>11 DEF Expired, Moves
  <1>12. ASSUME NEW a \in Threads, ReuseToken(a) PROVE OperationInv'
    BY <1>12 DEF ReuseToken, Moves, NeedsRefresh
  <1>13. ASSUME NEW a \in Threads, RefreshToken(a) PROVE OperationInv'
    BY <1>13 DEF RefreshToken, BeginIssue
  <1>14. CASE UiRequest
    BY <1>14 DEF UiRequest, Moves
  <1>15. ASSUME NEW a \in Workers, Launch(a) PROVE OperationInv'
    BY <1>15 DEF Launch
  <1>16. CASE LaunchRefused
    BY <1>16 DEF LaunchRefused, Moves
  <1>17. CASE OpLoad
    BY <1>17 DEF OpLoad, Moves
  <1>18. CASE OpRequest
    BY <1>18 DEF OpRequest, Moves
  <1>19. CASE LoadSettings
    BY <1>19 DEF LoadSettings
  <1>20. CASE OpenDb
    BY <1>20 DEF OpenDb, Moves, OnlyEnds, Ends, Hold
  <1>21. CASE ReadDb
    BY <1>21 DEF ReadDb, Hold
  <1>22. CASE AdoptCached
    BY <1>22 DEF AdoptCached, Ends, Hold
  <1>23. CASE DropCached
    BY <1>23 DEF DropCached, Erase, Hold
  <1>24. CASE ForceIssue
    BY <1>24 DEF ForceIssue, BeginIssue
  <1>25. CASE ClearStore
    BY <1>25 DEF ClearStore
  <1>26. CASE ClearSettings
    BY <1>26 DEF ClearSettings
  <1>27. CASE ClearToken
    BY <1>27 DEF ClearToken
  <1>28. CASE ClearDb
    BY <1>28 DEF ClearDb, Erase
  <1>29. CASE ClearDone
    BY <1>29 DEF ClearDone
  <1>30. ASSUME NEW key \in Keys, SaveBegin(key) PROVE OperationInv'
    BY <1>30 DEF SaveBegin
  <1>31. CASE SaveVerifyToken
    BY <1>31 DEF SaveVerifyToken, Mint, Hold
  <1>32. CASE SaveFails
    BY <1>32 DEF SaveFails, OnlyEnds, Ends, Hold
  <1>33. CASE SaveVerifyAccount
    BY <1>33 DEF SaveVerifyAccount, Moves
  <1>34. CASE SaveRemember
    BY <1>34 DEF SaveRemember
  <1>35. CASE SaveDb
    BY <1>35 DEF SaveDb
  <1>36. CASE SaveStore
    BY <1>36 DEF SaveStore
  <1>37. CASE SaveStoreFails
    BY <1>37 DEF SaveStoreFails, Moves
  <1>38. CASE SaveRollback
    BY <1>38 DEF SaveRollback, Erase, Ends, Hold
  <1>39. CASE SaveCommit
    BY <1>39 DEF SaveCommit
  <1>40. CASE SaveCommitToken
    BY <1>40 DEF SaveCommitToken, Hold
  <1>41. CASE Age
    BY <1>41 DEF Age, locals
  <1>42. CASE Crash
    BY <1>42 DEF Crash
  <1>43. CASE UNCHANGED vars
    BY <1>43 DEF vars
  <1> QED
    BY ONLY [Next]_vars, SessionConstants, <1>1, <1>2, <1>3, <1>4, <1>5, <1>6,
            <1>7, <1>8, <1>9, <1>10, <1>11, <1>12, <1>13, <1>14, <1>15, <1>16,
            <1>17, <1>18, <1>19, <1>20, <1>21, <1>22, <1>23, <1>24, <1>25,
            <1>26, <1>27, <1>28, <1>29, <1>30, <1>31, <1>32, <1>33, <1>34,
            <1>35, <1>36, <1>37, <1>38, <1>39, <1>40, <1>41, <1>42, <1>43
    DEF Next, UiStep, OpStep, WorkerStep, Requesting, Issuing, Loading,
        Clearing, Saving, Threads

\* Nothing writes a token once the stored credentials are gone.
LEMMA ErasedStep ==
  ASSUME TypeOK, LockInv, MintedInv, SettingsInv, OperationInv, ErasedInv,
         [Next]_vars
  PROVE  ErasedInv'
  <1> USE SessionConstants, NobodyIsAThread, NoTokenIsNone
          DEF Threads, Go, live, disk, locals, server, observed, TypeOK,
              ErasedInv, LockInv, MintedInv, SettingsInv, OperationInv,
              Exchanging, KeyOrNone, TokenOrNone, Tokens, LoadedKeys,
              SavePlaces, IssuePlaces, Matches
  <1>1. ASSUME NEW a \in Threads, TokenIssued(a) PROVE ErasedInv'
    BY <1>1 DEF TokenIssued, Mint, Hold
  <1>2. ASSUME NEW a \in Threads, IssueFails(a) PROVE ErasedInv'
    BY <1>2 DEF IssueFails, Ends, Hold
  <1>3. ASSUME NEW a \in Threads, TokenSaved(a) PROVE ErasedInv'
    BY <1>3 DEF TokenSaved
  <1>4. ASSUME NEW a \in Threads, TokenAdopted(a) PROVE ErasedInv'
    BY <1>4 DEF TokenAdopted, Hold
  <1>5. ASSUME NEW a \in Threads, EnsureUnavailable(a) PROVE ErasedInv'
    BY <1>5 DEF EnsureUnavailable, OnlyEnds, Ends, Hold
  <1>6. ASSUME NEW a \in Threads, NEW p \in {"snapshot", "launch"}, a = Op => p
               = "snapshot", EnsureFresh(a, p)
        PROVE  ErasedInv'
    BY <1>6 DEF EnsureFresh, Moves, NeedsRefresh
  <1>7. ASSUME NEW a \in Threads, NEW p \in {"snapshot", "launch"}, a = Op => p
               = "snapshot", EnsureStale(a, p)
        PROVE  ErasedInv'
    BY <1>7 DEF EnsureStale, BeginIssue
  <1>8. ASSUME NEW a \in Threads, Snapshot(a) PROVE ErasedInv'
    BY <1>8 DEF Snapshot, Hold
  <1>9. ASSUME NEW a \in Threads, Answered(a) PROVE ErasedInv'
    BY <1>9 DEF Answered, OnlyEnds, Ends, Hold
  <1>10. ASSUME NEW a \in Threads, NextRequest(a), a # Op PROVE ErasedInv'
    BY <1>10 DEF NextRequest, Moves
  <1>11. ASSUME NEW a \in Threads, Expired(a) PROVE ErasedInv'
    BY <1>11 DEF Expired, Moves
  <1>12. ASSUME NEW a \in Threads, ReuseToken(a) PROVE ErasedInv'
    BY <1>12 DEF ReuseToken, Moves, NeedsRefresh
  <1>13. ASSUME NEW a \in Threads, RefreshToken(a) PROVE ErasedInv'
    BY <1>13 DEF RefreshToken, BeginIssue
  <1>14. CASE UiRequest
    BY <1>14 DEF UiRequest, Moves
  <1>15. ASSUME NEW a \in Workers, Launch(a) PROVE ErasedInv'
    BY <1>15 DEF Launch
  <1>16. CASE LaunchRefused
    BY <1>16 DEF LaunchRefused, Moves
  <1>17. CASE OpLoad
    BY <1>17 DEF OpLoad, Moves
  <1>18. CASE OpRequest
    BY <1>18 DEF OpRequest, Moves
  <1>19. CASE LoadSettings
    BY <1>19 DEF LoadSettings
  <1>20. CASE OpenDb
    BY <1>20 DEF OpenDb, Moves, OnlyEnds, Ends, Hold
  <1>21. CASE ReadDb
    BY <1>21 DEF ReadDb, Hold
  <1>22. CASE AdoptCached
    BY <1>22 DEF AdoptCached, Ends, Hold
  <1>23. CASE DropCached
    BY <1>23 DEF DropCached, Erase, Hold
  <1>24. CASE ForceIssue
    BY <1>24 DEF ForceIssue, BeginIssue
  <1>25. CASE ClearStore
    BY <1>25 DEF ClearStore
  <1>26. CASE ClearSettings
    BY <1>26 DEF ClearSettings
  <1>27. CASE ClearToken
    BY <1>27 DEF ClearToken
  <1>28. CASE ClearDb
    BY <1>28 DEF ClearDb, Erase
  <1>29. CASE ClearDone
    BY <1>29 DEF ClearDone
  <1>30. ASSUME NEW key \in Keys, SaveBegin(key) PROVE ErasedInv'
    BY <1>30 DEF SaveBegin
  <1>31. CASE SaveVerifyToken
    BY <1>31 DEF SaveVerifyToken, Mint, Hold
  <1>32. CASE SaveFails
    BY <1>32 DEF SaveFails, OnlyEnds, Ends, Hold
  <1>33. CASE SaveVerifyAccount
    BY <1>33 DEF SaveVerifyAccount, Moves
  <1>34. CASE SaveRemember
    BY <1>34 DEF SaveRemember
  <1>35. CASE SaveDb
    BY <1>35 DEF SaveDb
  <1>36. CASE SaveStore
    BY <1>36 DEF SaveStore
  <1>37. CASE SaveStoreFails
    BY <1>37 DEF SaveStoreFails, Moves
  <1>38. CASE SaveRollback
    BY <1>38 DEF SaveRollback, Erase, Ends, Hold
  <1>39. CASE SaveCommit
    BY <1>39 DEF SaveCommit
  <1>40. CASE SaveCommitToken
    BY <1>40 DEF SaveCommitToken, Hold
  <1>41. CASE Age
    BY <1>41 DEF Age, locals
  <1>42. CASE Crash
    BY <1>42 DEF Crash
  <1>43. CASE UNCHANGED vars
    BY <1>43 DEF vars
  <1> QED
    BY ONLY [Next]_vars, SessionConstants, <1>1, <1>2, <1>3, <1>4, <1>5, <1>6,
            <1>7, <1>8, <1>9, <1>10, <1>11, <1>12, <1>13, <1>14, <1>15, <1>16,
            <1>17, <1>18, <1>19, <1>20, <1>21, <1>22, <1>23, <1>24, <1>25,
            <1>26, <1>27, <1>28, <1>29, <1>30, <1>31, <1>32, <1>33, <1>34,
            <1>35, <1>36, <1>37, <1>38, <1>39, <1>40, <1>41, <1>42, <1>43
    DEF Next, UiStep, OpStep, WorkerStep, Requesting, Issuing, Loading,
        Clearing, Saving, Threads

\* _token is only ever replaced by a token tagged for the settings in use, and
\* the operation thread takes its token from there.
LEMMA BoundStep ==
  ASSUME TypeOK, LockInv, MintedInv, SettingsInv, OperationInv, BoundInv,
         [Next]_vars
  PROVE  BoundInv'
  <1> USE SessionConstants, NobodyIsAThread, NoTokenIsNone
          DEF Threads, Go, live, disk, locals, server, observed, TypeOK,
              BoundInv, LockInv, MintedInv, SettingsInv, OperationInv,
              Exchanging, KeyOrNone, TokenOrNone, Tokens, LoadedKeys,
              SavePlaces, IssuePlaces, Matches
  <1>1. ASSUME NEW a \in Threads, TokenIssued(a) PROVE BoundInv'
    BY <1>1 DEF TokenIssued, Mint, Hold
  <1>2. ASSUME NEW a \in Threads, IssueFails(a) PROVE BoundInv'
    BY <1>2 DEF IssueFails, Ends, Hold
  <1>3. ASSUME NEW a \in Threads, TokenSaved(a) PROVE BoundInv'
    BY <1>3 DEF TokenSaved
  <1>4. ASSUME NEW a \in Threads, TokenAdopted(a) PROVE BoundInv'
    BY <1>4 DEF TokenAdopted, Hold
  <1>5. ASSUME NEW a \in Threads, EnsureUnavailable(a) PROVE BoundInv'
    BY <1>5 DEF EnsureUnavailable, OnlyEnds, Ends, Hold
  <1>6. ASSUME NEW a \in Threads, NEW p \in {"snapshot", "launch"}, a = Op => p
               = "snapshot", EnsureFresh(a, p)
        PROVE  BoundInv'
    BY <1>6 DEF EnsureFresh, Moves, NeedsRefresh
  <1>7. ASSUME NEW a \in Threads, NEW p \in {"snapshot", "launch"}, a = Op => p
               = "snapshot", EnsureStale(a, p)
        PROVE  BoundInv'
    BY <1>7 DEF EnsureStale, BeginIssue
  <1>8. ASSUME NEW a \in Threads, Snapshot(a) PROVE BoundInv'
    BY <1>8 DEF Snapshot, Hold
  <1>9. ASSUME NEW a \in Threads, Answered(a) PROVE BoundInv'
    BY <1>9 DEF Answered, OnlyEnds, Ends, Hold
  <1>10. ASSUME NEW a \in Threads, NextRequest(a), a # Op PROVE BoundInv'
    BY <1>10 DEF NextRequest, Moves
  <1>11. ASSUME NEW a \in Threads, Expired(a) PROVE BoundInv'
    BY <1>11 DEF Expired, Moves
  <1>12. ASSUME NEW a \in Threads, ReuseToken(a) PROVE BoundInv'
    BY <1>12 DEF ReuseToken, Moves, NeedsRefresh
  <1>13. ASSUME NEW a \in Threads, RefreshToken(a) PROVE BoundInv'
    BY <1>13 DEF RefreshToken, BeginIssue
  <1>14. CASE UiRequest
    BY <1>14 DEF UiRequest, Moves
  <1>15. ASSUME NEW a \in Workers, Launch(a) PROVE BoundInv'
    BY <1>15 DEF Launch
  <1>16. CASE LaunchRefused
    BY <1>16 DEF LaunchRefused, Moves
  <1>17. CASE OpLoad
    BY <1>17 DEF OpLoad, Moves
  <1>18. CASE OpRequest
    BY <1>18 DEF OpRequest, Moves
  <1>19. CASE LoadSettings
    BY <1>19 DEF LoadSettings
  <1>20. CASE OpenDb
    BY <1>20 DEF OpenDb, Moves, OnlyEnds, Ends, Hold
  <1>21. CASE ReadDb
    BY <1>21 DEF ReadDb, Hold
  <1>22. CASE AdoptCached
    BY <1>22 DEF AdoptCached, Ends, Hold
  <1>23. CASE DropCached
    BY <1>23 DEF DropCached, Erase, Hold
  <1>24. CASE ForceIssue
    BY <1>24 DEF ForceIssue, BeginIssue
  <1>25. CASE ClearStore
    BY <1>25 DEF ClearStore
  <1>26. CASE ClearSettings
    BY <1>26 DEF ClearSettings
  <1>27. CASE ClearToken
    BY <1>27 DEF ClearToken
  <1>28. CASE ClearDb
    BY <1>28 DEF ClearDb, Erase
  <1>29. CASE ClearDone
    BY <1>29 DEF ClearDone
  <1>30. ASSUME NEW key \in Keys, SaveBegin(key) PROVE BoundInv'
    BY <1>30 DEF SaveBegin
  <1>31. CASE SaveVerifyToken
    BY <1>31 DEF SaveVerifyToken, Mint, Hold
  <1>32. CASE SaveFails
    BY <1>32 DEF SaveFails, OnlyEnds, Ends, Hold
  <1>33. CASE SaveVerifyAccount
    BY <1>33 DEF SaveVerifyAccount, Moves
  <1>34. CASE SaveRemember
    BY <1>34 DEF SaveRemember
  <1>35. CASE SaveDb
    BY <1>35 DEF SaveDb
  <1>36. CASE SaveStore
    BY <1>36 DEF SaveStore
  <1>37. CASE SaveStoreFails
    BY <1>37 DEF SaveStoreFails, Moves
  <1>38. CASE SaveRollback
    BY <1>38 DEF SaveRollback, Erase, Ends, Hold
  <1>39. CASE SaveCommit
    BY <1>39 DEF SaveCommit
  <1>40. CASE SaveCommitToken
    BY <1>40 DEF SaveCommitToken, Hold
  <1>41. CASE Age
    BY <1>41 DEF Age, locals
  <1>42. CASE Crash
    BY <1>42 DEF Crash
  <1>43. CASE UNCHANGED vars
    BY <1>43 DEF vars
  <1> QED
    BY ONLY [Next]_vars, SessionConstants, <1>1, <1>2, <1>3, <1>4, <1>5, <1>6,
            <1>7, <1>8, <1>9, <1>10, <1>11, <1>12, <1>13, <1>14, <1>15, <1>16,
            <1>17, <1>18, <1>19, <1>20, <1>21, <1>22, <1>23, <1>24, <1>25,
            <1>26, <1>27, <1>28, <1>29, <1>30, <1>31, <1>32, <1>33, <1>34,
            <1>35, <1>36, <1>37, <1>38, <1>39, <1>40, <1>41, <1>42, <1>43
    DEF Next, UiStep, OpStep, WorkerStep, Requesting, Issuing, Loading,
        Clearing, Saving, Threads

\* While no save has spanned a token request the tags name the creators.
LEMMA CreatorStep ==
  ASSUME TypeOK, LockInv, MintedInv, SettingsInv, OperationInv, CreatorInv,
         [Next]_vars
  PROVE  CreatorInv'
  <1> USE SessionConstants, NobodyIsAThread, NoTokenIsNone
          DEF Threads, Go, live, disk, locals, server, observed, TypeOK,
              CreatorInv, Tagged, LockInv, MintedInv, SettingsInv, OperationInv,
              Exchanging, KeyOrNone, TokenOrNone, Tokens, LoadedKeys,
              SavePlaces, IssuePlaces, Matches
  <1>1. ASSUME NEW a \in Threads, TokenIssued(a) PROVE CreatorInv'
    BY <1>1 DEF TokenIssued, Mint, Hold
  <1>2. ASSUME NEW a \in Threads, IssueFails(a) PROVE CreatorInv'
    BY <1>2 DEF IssueFails, Ends, Hold
  <1>3. ASSUME NEW a \in Threads, TokenSaved(a) PROVE CreatorInv'
    BY <1>3 DEF TokenSaved
  <1>4. ASSUME NEW a \in Threads, TokenAdopted(a) PROVE CreatorInv'
    BY <1>4 DEF TokenAdopted, Hold
  <1>5. ASSUME NEW a \in Threads, EnsureUnavailable(a) PROVE CreatorInv'
    BY <1>5 DEF EnsureUnavailable, OnlyEnds, Ends, Hold
  <1>6. ASSUME NEW a \in Threads, NEW p \in {"snapshot", "launch"}, a = Op => p
               = "snapshot", EnsureFresh(a, p)
        PROVE  CreatorInv'
    BY <1>6 DEF EnsureFresh, Moves, NeedsRefresh
  <1>7. ASSUME NEW a \in Threads, NEW p \in {"snapshot", "launch"}, a = Op => p
               = "snapshot", EnsureStale(a, p)
        PROVE  CreatorInv'
    BY <1>7 DEF EnsureStale, BeginIssue
  <1>8. ASSUME NEW a \in Threads, Snapshot(a) PROVE CreatorInv'
    BY <1>8 DEF Snapshot, Hold
  <1>9. ASSUME NEW a \in Threads, Answered(a) PROVE CreatorInv'
    BY <1>9 DEF Answered, OnlyEnds, Ends, Hold
  <1>10. ASSUME NEW a \in Threads, NextRequest(a), a # Op PROVE CreatorInv'
    BY <1>10 DEF NextRequest, Moves
  <1>11. ASSUME NEW a \in Threads, Expired(a) PROVE CreatorInv'
    BY <1>11 DEF Expired, Moves
  <1>12. ASSUME NEW a \in Threads, ReuseToken(a) PROVE CreatorInv'
    BY <1>12 DEF ReuseToken, Moves, NeedsRefresh
  <1>13. ASSUME NEW a \in Threads, RefreshToken(a) PROVE CreatorInv'
    BY <1>13 DEF RefreshToken, BeginIssue
  <1>14. CASE UiRequest
    BY <1>14 DEF UiRequest, Moves
  <1>15. ASSUME NEW a \in Workers, Launch(a) PROVE CreatorInv'
    BY <1>15 DEF Launch
  <1>16. CASE LaunchRefused
    BY <1>16 DEF LaunchRefused, Moves
  <1>17. CASE OpLoad
    BY <1>17 DEF OpLoad, Moves
  <1>18. CASE OpRequest
    BY <1>18 DEF OpRequest, Moves
  <1>19. CASE LoadSettings
    BY <1>19 DEF LoadSettings
  <1>20. CASE OpenDb
    BY <1>20 DEF OpenDb, Moves, OnlyEnds, Ends, Hold
  <1>21. CASE ReadDb
    BY <1>21 DEF ReadDb, Hold
  <1>22. CASE AdoptCached
    BY <1>22 DEF AdoptCached, Ends, Hold
  <1>23. CASE DropCached
    BY <1>23 DEF DropCached, Erase, Hold
  <1>24. CASE ForceIssue
    BY <1>24 DEF ForceIssue, BeginIssue
  <1>25. CASE ClearStore
    BY <1>25 DEF ClearStore
  <1>26. CASE ClearSettings
    BY <1>26 DEF ClearSettings
  <1>27. CASE ClearToken
    BY <1>27 DEF ClearToken
  <1>28. CASE ClearDb
    BY <1>28 DEF ClearDb, Erase
  <1>29. CASE ClearDone
    BY <1>29 DEF ClearDone
  <1>30. ASSUME NEW key \in Keys, SaveBegin(key) PROVE CreatorInv'
    BY <1>30 DEF SaveBegin
  <1>31. CASE SaveVerifyToken
    BY <1>31 DEF SaveVerifyToken, Mint, Hold
  <1>32. CASE SaveFails
    BY <1>32 DEF SaveFails, OnlyEnds, Ends, Hold
  <1>33. CASE SaveVerifyAccount
    BY <1>33 DEF SaveVerifyAccount, Moves
  <1>34. CASE SaveRemember
    BY <1>34 DEF SaveRemember
  <1>35. CASE SaveDb
    BY <1>35 DEF SaveDb
  <1>36. CASE SaveStore
    BY <1>36 DEF SaveStore
  <1>37. CASE SaveStoreFails
    BY <1>37 DEF SaveStoreFails, Moves
  <1>38. CASE SaveRollback
    BY <1>38 DEF SaveRollback, Erase, Ends, Hold
  <1>39. CASE SaveCommit
    BY <1>39 DEF SaveCommit
  <1>40. CASE SaveCommitToken
    BY <1>40 DEF SaveCommitToken, Hold
  <1>41. CASE Age
    BY <1>41 DEF Age, locals
  <1>42. CASE Crash
    BY <1>42 DEF Crash
  <1>43. CASE UNCHANGED vars
    BY <1>43 DEF vars
  <1> QED
    BY ONLY [Next]_vars, SessionConstants, <1>1, <1>2, <1>3, <1>4, <1>5, <1>6,
            <1>7, <1>8, <1>9, <1>10, <1>11, <1>12, <1>13, <1>14, <1>15, <1>16,
            <1>17, <1>18, <1>19, <1>20, <1>21, <1>22, <1>23, <1>24, <1>25,
            <1>26, <1>27, <1>28, <1>29, <1>30, <1>31, <1>32, <1>33, <1>34,
            <1>35, <1>36, <1>37, <1>38, <1>39, <1>40, <1>41, <1>42, <1>43
    DEF Next, UiStep, OpStep, WorkerStep, Requesting, Issuing, Loading,
        Clearing, Saving, Threads

-----------------------------------------------------------------------------
LEMMA SessionStarts == Init => SessionInv
  <1> SUFFICES ASSUME Init PROVE SessionInv
    OBVIOUS
  <1> USE SessionConstants, NobodyIsAThread, NoTokenIsNone DEF Init
  <1>1. TypeOK
    <2>1. 0 \in 0 .. MaxTokens /\ 0 \in 0 .. MaxTokens + 1
      OBVIOUS
    <2>2. db \in TokenOrNone
      <3>1. ASSUME NEW k \in Keys PROVE [owner |-> k, tag |-> k, serial |-> 0] \in Tokens
        BY ONLY <2>1 DEF Tokens
      <3> QED
        BY ONLY Init, <3>1 DEF Init, TokenOrNone
    <2>3. place \in [Threads -> Places] /\ after \in [Threads -> Places]
      BY DEF Places
    <2> QED
      BY <2>1, <2>2, <2>3 DEF TypeOK, KeyOrNone, TokenOrNone
  <1>2. LockInv /\ MintedInv
    BY DEF LockInv, MintedInv, IssuePlaces
  <1>3. SettingsInv /\ OperationInv
    BY DEF SettingsInv, OperationInv, SavePlaces, Threads
  <1>4. ErasedInv
    BY DEF ErasedInv, LoadedKeys, KeyOrNone
  <1>5. BoundInv
    BY DEF BoundInv, Exchanging, Threads
  <1>6. CreatorInv
    BY DEF CreatorInv, Tagged
  <1> QED
    BY <1>1, <1>2, <1>3, <1>4, <1>5, <1>6 DEF SessionInv

LEMMA SessionSteps == SessionInv /\ [Next]_vars => SessionInv'
  BY TypeStep, LockStep, MintedStep, SettingsStep, OperationStep, ErasedStep, BoundStep,
     CreatorStep
  DEF SessionInv

\* The inductive invariant holds throughout.
THEOREM Session == Spec => []SessionInv
  BY SessionStarts, SessionSteps, PTL DEF Spec

\* Every variable keeps its type.
THEOREM TypeCorrect == Spec => []TypeOK
  <1>1. SessionInv => TypeOK
    BY DEF SessionInv
  <1> QED
    BY <1>1, Session, PTL

\* The shared token is tagged for the app key in use, for any number of
\* workers that refresh it while credentials are loaded, saved and deleted, and
\* was created with it unless a save exchanged the key during a token request.
THEOREM TokenIsBound == Spec => []TokenBound
  <1>1. SessionInv => TokenBound
    BY DEF SessionInv, BoundInv, CreatorInv, Tagged, Exchanging, TokenBound
  <1> QED
    BY <1>1, Session, PTL

\* An account request or an order carries a token tagged for the credentials
\* it is sent with, also when it is repeated after an expired token, and
\* created with them under the same condition.
THEOREM RequestsAreBound == Spec => []OpRequestBound
  <1>1. SessionInv => OpRequestBound
    BY DEF SessionInv, BoundInv, CreatorInv, Tagged, Matches, Threads, OpRequestBound
  <1> QED
    BY <1>1, Session, PTL

\* A save of credentials takes effect after both persistent writes or not at
\* all.
THEOREM SavesAreAtomic == Spec => []SaveIsAtomic
  <1>1. SessionInv => SaveIsAtomic
    BY DEF SessionInv, SettingsInv, OperationInv, SavePlaces, SaveIsAtomic
  <1> QED
    BY <1>1, Session, PTL

\* No token stays in the database, or returns to it, once the credentials are
\* deleted.
THEOREM TokensAreErased == Spec => []ErasedWithCredentials
  <1>1. SessionInv => ErasedWithCredentials
    BY DEF SessionInv, ErasedInv, ErasedWithCredentials
  <1> QED
    BY <1>1, Session, PTL

=============================================================================
