---------------------------- MODULE ProcessProofs ----------------------------
(***************************************************************************)
(* Proofs about processes around one file, channel or pipe: the daemons that   *)
(* share a home, the editors and readers of the token file, the clients of an  *)
(* encrypted channel, the tasks of an MCP session over stdio, and a client     *)
(* with the stream of its connection; for any number of each.                  *)
(***************************************************************************)
EXTENDS Startup, McpHttp, Sealing, McpStdio, ClientCalls, TLAPS

-----------------------------------------------------------------------------
(* The home: the lock is held from before the store is opened until after it   *)
(* is closed.                                                                  *)

UnderLock == {"locked", "cleared", "opened", "listening", "draining", "quiet", "closed"}
Stages    == UnderLock \cup {"off", "checked", "exited", "crashed"}

\* A daemon that has come past the lock and is not over holds it.
LockIsHeld == \A d \in Daemons : daemon[d] \in UnderLock => homeLock = d

\* The socket file of a daemon that listens is its own: nobody takes it away or puts another there.
ListenerKeepsItsSocket == \A d \in Daemons : daemon[d] = "listening" => socketFile = d

\* The client that starts a daemon and waits for it has the spawn lock, so no two clients do.
OneSpawner ==
    \A b, c \in Callers : caller[b] \in {"holding", "polling"} /\ caller[c] \in {"holding", "polling"} => b = c
SpawnerHasLock == \A c \in Callers : caller[c] \in {"holding", "polling"} => spawnLock = c

CallerStages == {"idle", "connected", "failed", "absent", "holding", "again", "polling"}
StartupTypes == daemon \in [Daemons -> Stages] /\ caller \in [Callers -> CallerStages]
StartupIInv  == StartupTypes /\ LockIsHeld /\ ListenerKeepsItsSocket /\ SpawnerHasLock

LEMMA StartupInitially == StartupInit => StartupIInv
BY DEF StartupInit, StartupIInv, StartupTypes, LockIsHeld, ListenerKeepsItsSocket, SpawnerHasLock,
       UnderLock, Stages, CallerStages

\* A daemon's step: the lock keeps every other daemon's socket and stage out of its way.
LEMMA DaemonKeeps ==
    ASSUME StartupIInv, NEW d \in Daemons, DaemonStep(d) PROVE StartupIInv'
<1> USE StartupAssumption DEF StartupIInv, StartupTypes, LockIsHeld, ListenerKeepsItsSocket, SpawnerHasLock,
                              UnderLock, Stages, Moves
<1>1. ASSUME NEW good \in BOOLEAN, CheckHome(d, good) PROVE StartupIInv'
  BY <1>1 DEF CheckHome
<1>2. CASE TakeHomeLock(d)
  BY <1>2 DEF TakeHomeLock
<1>3. CASE RemoveStaleSocket(d)
  BY <1>3 DEF RemoveStaleSocket
<1>4. CASE OpenStores(d)
  BY <1>4 DEF OpenStores
<1>5. CASE Listen(d)
  BY <1>5 DEF Listen
<1>6. CASE StopListening(d)
  BY <1>6 DEF StopListening
<1>7. CASE StopTasks(d)
  BY <1>7 DEF StopTasks
<1>8. CASE JoinActors(d)
  BY <1>8 DEF JoinActors
<1>9. CASE DropHomeLock(d)
  BY <1>9 DEF DropHomeLock, MayRelease
<1>10. CASE Crash(d)
  BY <1>10 DEF Crash
<1> QED BY <1>1, <1>2, <1>3, <1>4, <1>5, <1>6, <1>7, <1>8, <1>9, <1>10 DEF DaemonStep

\* A client's step touches a daemon only to start one.
LEMMA CallerKeeps ==
    ASSUME StartupIInv, NEW c \in Callers, CallerStep(c) PROVE StartupIInv'
<1> USE StartupAssumption DEF StartupIInv, StartupTypes, LockIsHeld, ListenerKeepsItsSocket, SpawnerHasLock,
                              UnderLock, Stages, CallerStages, Goes
<1>1. ASSUME NEW noSpawn \in BOOLEAN, Connect(c, noSpawn) PROVE StartupIInv'
  BY <1>1 DEF Connect
<1>2. CASE TakeSpawnLock(c)
  BY <1>2 DEF TakeSpawnLock
<1>3. CASE FoundLive(c)
  BY <1>3 DEF FoundLive
<1>4. CASE PollEnds(c)
  BY <1>4 DEF PollEnds
<1>5. CASE ConnectAgain(c)
  BY <1>5 DEF ConnectAgain
<1>6. ASSUME NEW d \in Daemons, Spawn(c, d) PROVE StartupIInv'
  BY <1>6 DEF Spawn
<1> QED BY <1>1, <1>2, <1>3, <1>4, <1>5, <1>6 DEF CallerStep

LEMMA StartupInvariance == StartupSpec => []StartupIInv
<1>1. StartupIInv /\ [StartupNext]_startupVars => StartupIInv'
  <2>1. StartupIInv /\ UNCHANGED startupVars => StartupIInv'
    BY DEF startupVars, StartupIInv, StartupTypes, LockIsHeld, ListenerKeepsItsSocket, SpawnerHasLock
  <2> QED BY <2>1, DaemonKeeps, CallerKeeps DEF StartupNext
<1> QED BY <1>1, StartupInitially, PTL DEF StartupSpec

\* No two daemons have the store of one home open, however many are started, stop and die.
THEOREM OneOwnerOfTheStore == StartupSpec => []StoreHasOneOwner
<1>1. StartupIInv => StoreHasOneOwner
  BY DEF StartupIInv, LockIsHeld, StoreHasOneOwner, HasStore, UnderLock
<1> QED BY <1>1, StartupInvariance, PTL

\* A daemon that listens is the one its socket leads to, and only one client at a time starts a daemon.
THEOREM SocketAndSpawner == StartupSpec => [](ListenerKeepsItsSocket /\ OneSpawner)
<1>1. StartupIInv => ListenerKeepsItsSocket /\ OneSpawner
  BY DEF StartupIInv, SpawnerHasLock, OneSpawner
<1> QED BY <1>1, StartupInvariance, PTL

-----------------------------------------------------------------------------
(* The token file and the server that reads it.                                *)

EditorRow == [stage : {"idle", "loaded", "over"}, op : {"none", "add", "revoke"}, token : Tokens \cup {"none"},
              base : SUBSET Tokens, done : BOOLEAN]
PostStages == {"idle", "auth", "load", "retain", "verify", "shape", "call", "stream", "over"}
PostRow == [stage : PostStages, token : Tokens \cup {"none"}, late : BOOLEAN, served : BOOLEAN, code : Int]
FrontRow == [loaded : BOOLEAN, stamp : Nat, seen : Nat, entries : SUBSET Tokens, peers : SUBSET Tokens,
             ended : SUBSET Tokens, lock : Posts \cup {NoOne}, stop : {"no", "begun", "cancelled", "stopped"}]
HttpTypes ==
    /\ tokenFile \in [entries : SUBSET Tokens, stamp : Nat, holder : Editors \cup {NoOne}]
    /\ editor \in [Editors -> EditorRow]
    /\ front \in FrontRow
    /\ post \in [Posts -> PostRow]

\* Who has loaded the file holds its lock, and the file is as it was loaded; who has not begun has
\* done nothing.
LoadedIsCurrent ==
    \A e \in Editors :
        /\ editor[e].stage = "loaded" => /\ tokenFile.holder = e /\ editor[e].base = tokenFile.entries
                                         /\ ~editor[e].done /\ editor[e].op \in {"add", "revoke"}
                                         /\ editor[e].token \in Tokens
        /\ editor[e].stage = "idle" => ~editor[e].done /\ editor[e].op = "none"

\* A token is made by one editor, and revoked only once made.
MadeOnce ==
    /\ \A e, f \in Editors :
           editor[e].op = "add" /\ editor[f].op = "add" /\ editor[e].token = editor[f].token => e = f
    /\ \A r \in Editors : editor[r].op = "revoke" => editor[r].token \in Made

EditIInv == HttpTypes /\ LoadedIsCurrent /\ MadeOnce /\ TokenEditsSurvive

\* From the stamp to the answer a request has the lock on the copy.
ReaderHasLock ==
    \A p \in Posts : post[p].stage \in {"load", "retain", "verify"} => front.lock = p

\* The copy under the file's own stamp is the file: the stamp kept is older than what was read.
StampIsOfTheCopy ==
    /\ front.stamp <= tokenFile.stamp /\ front.seen <= tokenFile.stamp
    /\ front.loaded /\ front.stamp = tokenFile.stamp => front.entries = tokenFile.entries
    /\ \A p \in Posts : post[p].stage = "retain" /\ front.seen = tokenFile.stamp
                        => front.entries = tokenFile.entries

\* A late request's token is revoked, and not in the copy it is checked against.
LateIsUnknown ==
    \A p \in Posts :
        /\ post[p].late => post[p].token \in Revoked
        /\ post[p].late /\ post[p].stage \in {"retain", "verify"} => post[p].token \notin front.entries

ServeIInv == ReaderHasLock /\ StampIsOfTheCopy /\ LateIsUnknown /\ RevokedIsRefused

LEMMA HttpInitially == HttpInit => EditIInv /\ ServeIInv
<1> SUFFICES ASSUME HttpInit PROVE EditIInv /\ ServeIInv
  OBVIOUS
<1>1. HttpTypes
  BY DEF HttpInit, HttpTypes, EditorRow, PostRow, PostStages, FrontRow
<1>2. LoadedIsCurrent /\ MadeOnce
  BY DEF HttpInit, LoadedIsCurrent, MadeOnce
<1>3. TokenEditsSurvive
  BY DEF HttpInit, TokenEditsSurvive, Made, Revoked
<1>4. ReaderHasLock /\ StampIsOfTheCopy
  BY DEF HttpInit, ReaderHasLock, StampIsOfTheCopy
<1>5. LateIsUnknown /\ RevokedIsRefused
  BY DEF HttpInit, LateIsUnknown, RevokedIsRefused
<1> QED BY <1>1, <1>2, <1>3, <1>4, <1>5 DEF EditIInv, ServeIInv

\* An editor's step, seen from its row: the others' rows stay, and what was done stays done.
LEMMA EditRow ==
    ASSUME EditIInv, NEW e \in Editors, EditStep(e)
    PROVE  /\ HttpTypes' /\ UNCHANGED <<front, post>>
           /\ \A f \in Editors : f # e => editor'[f] = editor[f]
           /\ \A t \in Made : t \in Made'
           /\ \A t \in Revoked : t \in Revoked'
<1>t. /\ tokenFile \in [entries : SUBSET Tokens, stamp : Nat, holder : Editors \cup {NoOne}]
      /\ editor \in [Editors -> EditorRow] /\ editor[e] \in EditorRow
  BY DEF EditIInv, HttpTypes
<1>d. \A f \in Editors : editor[f].done => editor[f].stage \notin {"idle", "loaded"}
  BY DEF EditIInv, LoadedIsCurrent
<1>k. ASSUME \A f \in Editors : f # e => editor'[f] = editor[f], ~editor[e].done
      PROVE  (\A t \in Made : t \in Made') /\ (\A t \in Revoked : t \in Revoked')
  BY <1>k DEF Made, Revoked
<1>1. ASSUME NEW op \in {"add", "revoke"}, NEW t \in Tokens, LoadForEdit(e, op, t)
      PROVE  /\ HttpTypes' /\ UNCHANGED <<front, post>>
             /\ \A f \in Editors : f # e => editor'[f] = editor[f]
             /\ ~editor[e].done
  <2> DEFINE row == [stage |-> "loaded", op |-> op, token |-> t, base |-> tokenFile.entries, done |-> FALSE]
  <2>1. row \in EditorRow
    BY <1>t DEF EditorRow
  <2>2. editor' = [editor EXCEPT ![e] = row] /\ tokenFile' = [tokenFile EXCEPT !.holder = e]
        /\ UNCHANGED <<front, post>> /\ editor[e].stage = "idle"
    BY <1>1 DEF LoadForEdit
  <2> HIDE DEF row
  <2>3. HttpTypes'
    BY <1>t, <2>1, <2>2 DEF HttpTypes, EditIInv
  <2> QED BY <1>t, <1>d, <2>2, <2>3
<1>2. ASSUME SaveEdit(e)
      PROVE  /\ HttpTypes' /\ UNCHANGED <<front, post>>
             /\ \A f \in Editors : f # e => editor'[f] = editor[f]
             /\ ~editor[e].done
  <2>1. [editor[e] EXCEPT !.stage = "over", !.done = TRUE] \in EditorRow
    BY <1>t DEF EditorRow
  <2>2. editor' \in [Editors -> EditorRow] /\ \A f \in Editors : f # e => editor'[f] = editor[f]
    BY <1>2, <1>t, <2>1 DEF SaveEdit
  <2>3. editor[e].base \in SUBSET Tokens /\ editor[e].op \in {"add", "revoke"}
    BY <1>2, <1>t DEF SaveEdit, EditorRow, EditIInv, LoadedIsCurrent
  <2>4. editor[e].token \in Tokens /\ ~editor[e].done
    BY <1>2 DEF SaveEdit, EditIInv, LoadedIsCurrent
  <2>5. tokenFile' \in [entries : SUBSET Tokens, stamp : Nat, holder : Editors \cup {NoOne}]
    BY <1>2, <1>t, <2>3, <2>4 DEF SaveEdit
  <2> QED BY <1>2, <2>2, <2>4, <2>5 DEF SaveEdit, HttpTypes, EditIInv
<1>3. ASSUME EditFails(e)
      PROVE  /\ HttpTypes' /\ UNCHANGED <<front, post>>
             /\ \A f \in Editors : f # e => editor'[f] = editor[f]
             /\ ~editor[e].done
  <2>1. [editor[e] EXCEPT !.stage = "over"] \in EditorRow
    BY <1>t DEF EditorRow
  <2>2. editor' \in [Editors -> EditorRow] /\ \A f \in Editors : f # e => editor'[f] = editor[f]
    BY <1>3, <1>t, <2>1 DEF EditFails
  <2> QED BY <1>3, <1>t, <1>d, <2>2 DEF EditFails, HttpTypes, EditIInv
<1> QED BY <1>1, <1>2, <1>3, <1>k DEF EditStep

\* The load: the loader is alone with the file, and what it would make was never made.
LEMMA LoadKeeps ==
    ASSUME EditIInv, NEW e \in Editors, NEW op \in {"add", "revoke"}, NEW t \in Tokens, LoadForEdit(e, op, t)
    PROVE  LoadedIsCurrent' /\ MadeOnce' /\ TokenEditsSurvive'
<1>0. EditStep(e)
  BY DEF EditStep
<1>r. /\ \A f \in Editors : f # e => editor'[f] = editor[f]
      /\ \A u \in Made : u \in Made'
  BY <1>0, EditRow
<1>t. editor \in [Editors -> EditorRow] /\ tokenFile \in [entries : SUBSET Tokens, stamp : Nat, holder : Editors \cup {NoOne}]
  BY DEF EditIInv, HttpTypes
<1>1. /\ editor'[e] = [stage |-> "loaded", op |-> op, token |-> t, base |-> tokenFile.entries, done |-> FALSE]
      /\ tokenFile'.holder = e /\ tokenFile'.entries = tokenFile.entries
      /\ tokenFile.holder = NoOne /\ editor[e].stage = "idle"
  BY <1>t DEF LoadForEdit, TakeTokenLock
<1>2. \A f \in Editors : editor[f].stage # "loaded"
  BY <1>1, HttpAssumption DEF EditIInv, LoadedIsCurrent
<1>3. LoadedIsCurrent'
  BY <1>1, <1>2, <1>r DEF EditIInv, LoadedIsCurrent
<1>4. MadeOnce'
  <2>1. op = "add" => \A f \in Editors : editor[f].token # t
    BY DEF LoadForEdit
  <2>2. op = "revoke" => t \in Made
    BY DEF LoadForEdit
  <2> QED BY <1>1, <1>r, <2>1, <2>2 DEF EditIInv, MadeOnce
<1>5. \A u \in Tokens : (u \in Made' => u \in Made) /\ (u \in Revoked' => u \in Revoked)
  BY <1>1, <1>r DEF Made, Revoked
<1>6. TokenEditsSurvive'
  <2> SUFFICES ASSUME NEW u \in Tokens
               PROVE  /\ u \in Made' /\ (\A f \in Editors : editor'[f].op = "revoke" => editor'[f].token # u) => u \in tokenFile'.entries
                      /\ u \in Revoked' => u \notin tokenFile'.entries
    BY DEF TokenEditsSurvive
  <2>1. editor[e].op = "none"
    BY <1>1 DEF EditIInv, LoadedIsCurrent
  <2>2. (\A f \in Editors : editor'[f].op = "revoke" => editor'[f].token # u)
        => \A f \in Editors : editor[f].op = "revoke" => editor[f].token # u
    BY <1>r, <2>1
  <2> QED BY <1>1, <1>5, <2>2 DEF EditIInv, TokenEditsSurvive
<1> QED BY <1>3, <1>4, <1>6

\* The end of an edit.  A revoked token is not made again: its one maker has long been done.
LEMMA SaveKeeps ==
    ASSUME EditIInv, NEW e \in Editors, SaveEdit(e) \/ EditFails(e)
    PROVE  LoadedIsCurrent' /\ MadeOnce' /\ TokenEditsSurvive'
<1>0. EditStep(e)
  BY DEF EditStep
<1>r. /\ \A f \in Editors : f # e => editor'[f] = editor[f]
      /\ \A u \in Made : u \in Made'
  BY <1>0, EditRow
<1>t. /\ editor \in [Editors -> EditorRow] /\ editor[e] \in EditorRow
      /\ tokenFile \in [entries : SUBSET Tokens, stamp : Nat, holder : Editors \cup {NoOne}]
  BY DEF EditIInv, HttpTypes
<1>1. /\ editor[e].stage = "loaded" /\ tokenFile.holder = e /\ editor[e].base = tokenFile.entries
      /\ ~editor[e].done /\ editor[e].op \in {"add", "revoke"} /\ editor[e].token \in Tokens
  BY DEF SaveEdit, EditFails, EditIInv, LoadedIsCurrent
<1>2. \A f \in Editors : f # e => editor[f].stage # "loaded"
  BY <1>1 DEF EditIInv, LoadedIsCurrent
<1>3. /\ editor'[e].stage = "over" /\ editor'[e].op = editor[e].op /\ editor'[e].token = editor[e].token
      /\ editor'[e].done <=> SaveEdit(e)
  BY <1>1, <1>t DEF SaveEdit, EditFails, EditorRow
<1>4. LoadedIsCurrent' /\ MadeOnce'
  BY <1>2, <1>3, <1>r DEF EditIInv, LoadedIsCurrent, MadeOnce
<1>5. CASE EditFails(e)
  <2>1. tokenFile'.entries = tokenFile.entries /\ editor'[e].done = editor[e].done
    BY <1>5, <1>t DEF EditFails, EditorRow
  <2>2. \A u \in Tokens : (u \in Made' => u \in Made) /\ (u \in Revoked' => u \in Revoked)
    BY <1>1, <1>3, <1>r, <2>1 DEF Made, Revoked
  <2>3. TokenEditsSurvive'
    BY <1>3, <1>r, <2>1, <2>2 DEF EditIInv, TokenEditsSurvive
  <2> QED BY <1>4, <2>3
<1>6. CASE SaveEdit(e)
  <2>0. tokenFile'.entries = IF editor[e].op = "add" THEN tokenFile.entries \cup {editor[e].token}
                             ELSE tokenFile.entries \ {editor[e].token}
    <3> DEFINE after == IF editor[e].op = "add" THEN editor[e].base \cup {editor[e].token}
                        ELSE editor[e].base \ {editor[e].token}
    <3>1. tokenFile' = IF after = editor[e].base THEN [tokenFile EXCEPT !.holder = NoOne]
                       ELSE [entries |-> after, stamp |-> tokenFile.stamp + 1, holder |-> NoOne]
      BY <1>6 DEF SaveEdit
    <3> HIDE DEF after
    <3>2. tokenFile'.entries = after
      BY <1>1, <1>t, <3>1
    <3> QED BY <1>1, <3>2 DEF after
  <2>a. ASSUME NEW u \in Tokens, u \in Made',
               \A f \in Editors : editor'[f].op = "revoke" => editor'[f].token # u
        PROVE  u \in tokenFile'.entries
    <3>1. u \in Made \/ (editor[e].op = "add" /\ editor[e].token = u)
      BY <1>3, <2>a, <1>r DEF Made
    <3>2. \A f \in Editors : editor[f].op = "revoke" => editor[f].token # u
      BY <1>3, <2>a, <1>r
    <3>3. u \in Made => u \in tokenFile.entries
      BY <3>2 DEF EditIInv, TokenEditsSurvive
    <3> QED BY <2>0, <1>1, <3>1, <3>2, <3>3
  <2>b. ASSUME NEW u \in Tokens, u \in Revoked' PROVE u \notin tokenFile'.entries
    <3>1. u \in Revoked \/ (editor[e].op = "revoke" /\ editor[e].token = u)
      BY <1>3, <2>b, <1>r DEF Revoked
    <3>2. u \in Revoked => editor[e].op # "add" \/ editor[e].token # u
      BY <1>1 DEF EditIInv, MadeOnce, Revoked, Made
    <3>3. u \in Revoked => u \notin tokenFile.entries
      BY DEF EditIInv, TokenEditsSurvive
    <3> QED BY <2>0, <1>1, <3>1, <3>2, <3>3
  <2> QED BY <1>4, <2>a, <2>b DEF TokenEditsSurvive
<1> QED BY <1>5, <1>6

LEMMA EditKeeps ==
    ASSUME EditIInv, NEW e \in Editors, EditStep(e) PROVE EditIInv'
<1>1. HttpTypes'
  BY EditRow
<1>2. LoadedIsCurrent' /\ MadeOnce' /\ TokenEditsSurvive'
  BY LoadKeeps, SaveKeeps DEF EditStep
<1> QED BY <1>1, <1>2 DEF EditIInv

\* The stamp of the file grows whenever its entries change.
LEMMA EntriesMoveTheStamp ==
    ASSUME EditIInv, NEW e \in Editors, EditStep(e)
    PROVE  /\ tokenFile.stamp \in Nat /\ tokenFile'.stamp \in Nat /\ tokenFile.stamp <= tokenFile'.stamp
           /\ tokenFile'.entries # tokenFile.entries => tokenFile'.stamp > tokenFile.stamp
<1>t. tokenFile \in [entries : SUBSET Tokens, stamp : Nat, holder : Editors \cup {NoOne}]
  BY DEF EditIInv, HttpTypes
<1>1. ASSUME NEW h, tokenFile' = [tokenFile EXCEPT !.holder = h]
      PROVE  tokenFile'.stamp = tokenFile.stamp /\ tokenFile'.entries = tokenFile.entries
  BY <1>1, <1>t
<1>2. CASE SaveEdit(e)
  <2> DEFINE after == IF editor[e].op = "add" THEN editor[e].base \cup {editor[e].token}
                      ELSE editor[e].base \ {editor[e].token}
  <2>1. tokenFile' = IF after = editor[e].base THEN [tokenFile EXCEPT !.holder = NoOne]
                     ELSE [entries |-> after, stamp |-> tokenFile.stamp + 1, holder |-> NoOne]
    BY <1>2 DEF SaveEdit
  <2> HIDE DEF after
  <2> QED BY <1>t, <2>1
<1>3. CASE EditFails(e)
  BY <1>3, <1>1, <1>t DEF EditFails
<1>4. ASSUME NEW op \in {"add", "revoke"}, NEW t \in Tokens, LoadForEdit(e, op, t)
      PROVE  tokenFile'.stamp = tokenFile.stamp /\ tokenFile'.entries = tokenFile.entries
  BY <1>4, <1>1 DEF LoadForEdit
<1> QED BY <1>t, <1>2, <1>3, <1>4 DEF EditStep

LEMMA ServeUnderEdit ==
    ASSUME EditIInv, ServeIInv, NEW e \in Editors, EditStep(e) PROVE ServeIInv'
<1>1. /\ UNCHANGED <<front, post>>
      /\ \A t \in Revoked : t \in Revoked'
  BY EditRow
<1>2. front.stamp \in Nat /\ front.seen \in Nat
  BY DEF EditIInv, HttpTypes, FrontRow
<1>3. ReaderHasLock' /\ RevokedIsRefused' /\ LateIsUnknown'
  BY <1>1 DEF ServeIInv, ReaderHasLock, RevokedIsRefused, LateIsUnknown
<1>4. StampIsOfTheCopy'
  <2>1. /\ tokenFile.stamp \in Nat /\ tokenFile'.stamp \in Nat /\ tokenFile.stamp <= tokenFile'.stamp
        /\ tokenFile'.entries # tokenFile.entries => tokenFile'.stamp > tokenFile.stamp
    BY EntriesMoveTheStamp
  <2>2. /\ front.stamp <= tokenFile.stamp /\ front.seen <= tokenFile.stamp
        /\ front.loaded /\ front.stamp = tokenFile.stamp => front.entries = tokenFile.entries
        /\ \A p \in Posts : post[p].stage = "retain" /\ front.seen = tokenFile.stamp
                            => front.entries = tokenFile.entries
    BY DEF ServeIInv, StampIsOfTheCopy
  <2> QED BY <1>1, <1>2, <2>1, <2>2 DEF StampIsOfTheCopy
<1> QED BY <1>3, <1>4 DEF ServeIInv

\* What changes neither the file nor an editor's row keeps what editors rely on.
LEMMA EditUntouched ==
    ASSUME EditIInv, UNCHANGED <<tokenFile, editor>>, HttpTypes' PROVE EditIInv' /\ Revoked' = Revoked
BY DEF EditIInv, LoadedIsCurrent, MadeOnce, TokenEditsSurvive, Made, Revoked

\* A request's step that leaves the copy alone, and does not come to read it.
LEMMA PlainPost ==
    ASSUME EditIInv, ServeIInv, UNCHANGED <<tokenFile, editor, front>>,
           NEW p \in Posts, NEW row, post' = [post EXCEPT ![p] = row], row \in PostRow,
           row.stage \notin {"load", "retain", "verify"},
           row.late => row.token \in Revoked /\ ~row.served
    PROVE  EditIInv' /\ ServeIInv'
<1>1. HttpTypes'
  BY DEF EditIInv, HttpTypes
<1>2. EditIInv' /\ Revoked' = Revoked
  BY <1>1, EditUntouched
<1>3. post'[p] = row /\ \A q \in Posts : q # p => post'[q] = post[q]
  BY DEF EditIInv, HttpTypes
<1>4. ServeIInv'
  BY <1>2, <1>3 DEF ServeIInv, ReaderHasLock, StampIsOfTheCopy, LateIsUnknown, RevokedIsRefused
<1> QED BY <1>2, <1>4

\* A reader's step: it has or takes the lock on the copy, so no other request is between its stamp and
\* its answer, and what must hold of the copy is left to be shown for it alone.
LEMMA ReaderPost ==
    ASSUME EditIInv, ServeIInv, UNCHANGED <<tokenFile, editor>>, front' \in FrontRow,
           NEW p \in Posts, NEW row, post' = [post EXCEPT ![p] = row], row \in PostRow,
           front.lock \in {p, NoOne},
           row.stage \in {"load", "retain", "verify"} => front'.lock = p,
           row.late => row.token \in Revoked /\ ~row.served,
           row.late /\ row.stage \in {"retain", "verify"} => row.token \notin front'.entries,
           front'.stamp <= tokenFile.stamp, front'.seen <= tokenFile.stamp,
           front'.loaded /\ front'.stamp = tokenFile.stamp => front'.entries = tokenFile.entries,
           row.stage = "retain" /\ front'.seen = tokenFile.stamp => front'.entries = tokenFile.entries
    PROVE  EditIInv' /\ ServeIInv'
<1>1. HttpTypes'
  BY DEF EditIInv, HttpTypes
<1>2. EditIInv' /\ Revoked' = Revoked
  BY <1>1, EditUntouched
<1>3. post'[p] = row /\ \A q \in Posts : q # p => post'[q] = post[q]
  BY DEF EditIInv, HttpTypes
<1>4. \A q \in Posts : q # p => post[q].stage \notin {"load", "retain", "verify"}
  BY HttpAssumption DEF ServeIInv, ReaderHasLock
<1>5. ReaderHasLock'
  BY <1>3, <1>4 DEF ReaderHasLock
<1>6. StampIsOfTheCopy'
  BY <1>3, <1>4 DEF StampIsOfTheCopy
<1>7. LateIsUnknown' /\ RevokedIsRefused'
  BY <1>2, <1>3, <1>4 DEF ServeIInv, LateIsUnknown, RevokedIsRefused
<1> QED BY <1>2, <1>5, <1>6, <1>7 DEF ServeIInv

\* The row of a request that is answered.
LEMMA AnsweredRow ==
    ASSUME NEW old \in PostRow, NEW code \in Int
    PROVE  LET row == [old EXCEPT !.stage = "over", !.code = code]
           IN  /\ row \in PostRow /\ row.late = old.late /\ row.token = old.token /\ row.served = old.served
               /\ row.stage = "over"
BY DEF PostRow, PostStages

LEMMA RepliedRow ==
    ASSUME post \in [Posts -> PostRow], NEW p \in Posts, NEW code, Reply(p, code)
    PROVE  post' = [post EXCEPT ![p] = [post[p] EXCEPT !.stage = "over", !.code = code]]
BY DEF Reply

LEMMA ArrivedRow ==
    ASSUME NEW t \in Tokens, NEW late \in BOOLEAN
    PROVE  LET row == [stage |-> "auth", token |-> t, late |-> late, served |-> FALSE, code |-> 0]
           IN  row \in PostRow /\ row.stage = "auth" /\ row.token = t /\ row.late = late /\ row.served = FALSE
BY DEF PostRow, PostStages

LEMMA PostKeeps ==
    ASSUME EditIInv, ServeIInv, NEW p \in Posts, PostStep(p) PROVE EditIInv' /\ ServeIInv'
<1> DEFINE old == post[p]
<1>t. /\ old \in PostRow /\ front \in FrontRow /\ post \in [Posts -> PostRow]
      /\ tokenFile.entries \in SUBSET Tokens /\ tokenFile.stamp \in Nat
  BY DEF EditIInv, HttpTypes
<1>l. /\ old.late => old.token \in Revoked /\ ~old.served
      /\ old.late /\ old.stage \in {"retain", "verify"} => old.token \notin front.entries
      /\ old.stage \in {"load", "retain", "verify"} => front.lock = p
  BY DEF ServeIInv, LateIsUnknown, RevokedIsRefused, ReaderHasLock
<1>s. /\ front.stamp <= tokenFile.stamp /\ front.seen <= tokenFile.stamp
      /\ front.loaded /\ front.stamp = tokenFile.stamp => front.entries = tokenFile.entries
      /\ old.stage = "retain" /\ front.seen = tokenFile.stamp => front.entries = tokenFile.entries
  BY DEF ServeIInv, StampIsOfTheCopy
<1>v. \A t \in Revoked : t \notin tokenFile.entries
  BY DEF EditIInv, TokenEditsSurvive, Revoked
<1>a. ASSUME NEW t \in Tokens, Arrive(p, t) PROVE EditIInv' /\ ServeIInv'
  <2> DEFINE row == [stage |-> "auth", token |-> t, late |-> t \in Revoked, served |-> FALSE, code |-> 0]
  <2>1. row \in PostRow /\ row.stage = "auth" /\ (row.late => row.token \in Revoked /\ ~row.served)
    <3>1. (t \in Revoked) \in BOOLEAN
      OBVIOUS
    <3>2. row \in PostRow /\ row.stage = "auth" /\ row.token = t /\ row.late = (t \in Revoked) /\ row.served = FALSE
      BY <3>1, ArrivedRow, Zenon
    <3> HIDE DEF row
    <3> QED BY <3>2
  <2>2. post' = [post EXCEPT ![p] = row] /\ UNCHANGED <<tokenFile, editor, front>>
    BY <1>a DEF Arrive
  <2> HIDE DEF row
  <2> QED BY <2>1, <2>2, PlainPost
<1>b. ASSUME NEW st \in {"shape", "call", "stream", "over"}, NEW code \in Int, UNCHANGED <<tokenFile, editor, front>>,
             post' = [post EXCEPT ![p].stage = st, ![p].code = code] \/ post' = [post EXCEPT ![p].stage = st]
      PROVE  EditIInv' /\ ServeIInv'
  <2>1. ASSUME NEW row \in {[old EXCEPT !.stage = st, !.code = code], [old EXCEPT !.stage = st]}
        PROVE  /\ row \in PostRow /\ row.stage \notin {"load", "retain", "verify"}
               /\ row.late => row.token \in Revoked /\ ~row.served
    BY <1>t, <1>l, <2>1 DEF PostRow, PostStages
  <2>2. PICK row \in {[old EXCEPT !.stage = st, !.code = code], [old EXCEPT !.stage = st]} :
             post' = [post EXCEPT ![p] = row]
    BY <1>b, <1>t
  <2> HIDE DEF old
  <2> QED BY <1>b, <2>1, <2>2, PlainPost
<1>c. \/ \E code \in {403, 401} : TurnedAway(p, code)
      \/ \E code \in {405} : Misshapen(p, code)
      \/ \E s \in BOOLEAN : StartCall(p, s)
      \/ \E code \in {200, 404} : CallEnds(p, code)
      \/ CallCancelled(p) \/ HardStopped(p)
      => EditIInv' /\ ServeIInv'
  BY <1>b DEF TurnedAway, Misshapen, StartCall, CallEnds, CallCancelled, HardStopped, Reply
<1>d. CASE StatTokens(p)
  <2> DEFINE row == [old EXCEPT !.stage = IF front.loaded /\ front.stamp = tokenFile.stamp THEN "verify" ELSE "load"]
             new == [front EXCEPT !.lock = p, !.seen = tokenFile.stamp]
  <2>1. /\ front' = new /\ post' = [post EXCEPT ![p] = row] /\ UNCHANGED <<tokenFile, editor>>
        /\ front.lock = NoOne
    BY <1>d, <1>t DEF StatTokens
  <2>2. /\ new \in FrontRow /\ new.lock = p /\ new.seen = tokenFile.stamp /\ new.stamp = front.stamp
        /\ new.loaded = front.loaded /\ new.entries = front.entries
    BY <1>t DEF FrontRow
  <2>3. /\ row \in PostRow /\ row.late = old.late /\ row.token = old.token /\ row.served = old.served
        /\ row.stage \in {"load", "verify"}
        /\ row.stage = "verify" => front.entries = tokenFile.entries
    BY <1>t, <1>s DEF PostRow, PostStages
  <2> HIDE DEF row, new, old
  <2>4. row.late /\ row.stage \in {"retain", "verify"} => row.token \notin front'.entries
    BY <1>l, <1>v, <2>1, <2>2, <2>3
  <2>5. /\ front'.stamp <= tokenFile.stamp /\ front'.seen <= tokenFile.stamp
        /\ front'.loaded /\ front'.stamp = tokenFile.stamp => front'.entries = tokenFile.entries
    BY <1>t, <1>s, <2>1, <2>2
  <2> QED BY <1>l, <2>1, <2>2, <2>3, <2>4, <2>5, ReaderPost
<1>e. CASE ReadTokens(p)
  <2> DEFINE row == [old EXCEPT !.stage = "retain"]
             new == [front EXCEPT !.loaded = TRUE, !.entries = tokenFile.entries]
  <2>1. /\ front' = new /\ post' = [post EXCEPT ![p] = row] /\ UNCHANGED <<tokenFile, editor>>
        /\ old.stage = "load"
    BY <1>e, <1>t DEF ReadTokens
  <2>2. /\ new \in FrontRow /\ new.lock = front.lock /\ new.seen = front.seen /\ new.stamp = front.stamp
        /\ new.entries = tokenFile.entries
    BY <1>t DEF FrontRow
  <2>3. /\ row \in PostRow /\ row.late = old.late /\ row.token = old.token /\ row.served = old.served
        /\ row.stage = "retain"
    BY <1>t DEF PostRow, PostStages
  <2> HIDE DEF row, new, old
  <2> QED BY <1>t, <1>l, <1>s, <1>v, <2>1, <2>2, <2>3, ReaderPost
<1>f. CASE RetainPeers(p)
  <2> DEFINE row == [old EXCEPT !.stage = "verify"]
             new == [front EXCEPT !.stamp = front.seen, !.peers = @ \cap front.entries,
                                  !.ended = @ \cup (front.peers \ front.entries)]
  <2>1. /\ front' = new /\ post' = [post EXCEPT ![p] = row] /\ UNCHANGED <<tokenFile, editor>>
        /\ old.stage = "retain"
    BY <1>f, <1>t DEF RetainPeers, StampKept
  <2>2. /\ new \in FrontRow /\ new.lock = front.lock /\ new.seen = front.seen /\ new.stamp = front.seen
        /\ new.entries = front.entries
    BY <1>t DEF FrontRow
  <2>3. /\ row \in PostRow /\ row.late = old.late /\ row.token = old.token /\ row.served = old.served
        /\ row.stage = "verify"
    BY <1>t DEF PostRow, PostStages
  <2> HIDE DEF row, new, old
  <2> QED BY <1>t, <1>l, <1>s, <2>1, <2>2, <2>3, ReaderPost
<1>g. CASE LoadTokensFails(p)
  <2> DEFINE code == 500
             row == [old EXCEPT !.stage = "over", !.code = code]
             new == [front EXCEPT !.lock = NoOne]
  <2>1. /\ front' = new /\ post' = [post EXCEPT ![p] = row] /\ UNCHANGED <<tokenFile, editor>>
        /\ old.stage = "load"
    <3>1. Reply(p, code) /\ front' = new /\ UNCHANGED <<tokenFile, editor>> /\ old.stage = "load"
      BY <1>g DEF LoadTokensFails, Unlock
    <3> HIDE DEF code
    <3> QED BY <1>t, <3>1, RepliedRow
  <2>2. /\ new \in FrontRow /\ new.seen = front.seen /\ new.stamp = front.stamp
        /\ new.entries = front.entries /\ new.loaded = front.loaded
    BY <1>t DEF FrontRow
  <2>3. /\ row \in PostRow /\ row.late = old.late /\ row.token = old.token /\ row.served = old.served
        /\ row.stage = "over"
    <3>1. code \in Int
      OBVIOUS
    <3> HIDE DEF code
    <3> QED BY <3>1, <1>t, AnsweredRow, Zenon
  <2> HIDE DEF row, new, old
  <2> QED BY <1>t, <1>l, <1>s, <2>1, <2>2, <2>3, ReaderPost
<1>h. CASE Authenticate(p)
  <2>0. old.stage = "verify" /\ UNCHANGED <<tokenFile, editor>>
    BY <1>h DEF Authenticate
  <2>1. CASE old.token \in front.entries
    <3> DEFINE row == [old EXCEPT !.stage = "shape", !.served = TRUE]
               new == [front EXCEPT !.peers = @ \cup {old.token}, !.ended = @ \cup BornEnded(old.token),
                                    !.lock = NoOne]
    <3>1. front' = new /\ post' = [post EXCEPT ![p] = row]
      BY <1>h, <1>t, <2>1 DEF Authenticate, Unlock, FrontRow
    <3>2. /\ new \in FrontRow /\ new.seen = front.seen /\ new.stamp = front.stamp
          /\ new.entries = front.entries /\ new.loaded = front.loaded
      BY <1>t, <2>1 DEF FrontRow, BornEnded
    <3>3. /\ row \in PostRow /\ row.late = old.late /\ row.token = old.token /\ row.stage = "shape"
      BY <1>t DEF PostRow, PostStages
    <3>4. ~old.late
      BY <1>l, <2>0, <2>1
    <3> HIDE DEF row, new, old
    <3> QED BY <1>t, <1>l, <1>s, <2>0, <3>1, <3>2, <3>3, <3>4, ReaderPost
  <2>2. CASE old.token \notin front.entries
    <3> DEFINE code == 401
               row == [old EXCEPT !.stage = "over", !.code = code]
               new == [front EXCEPT !.lock = NoOne]
    <3>1. front' = new /\ post' = [post EXCEPT ![p] = row]
      <4>1. front' = new /\ Reply(p, code)
        BY <1>h, <2>2 DEF Authenticate, Unlock
      <4> HIDE DEF code
      <4> QED BY <4>1, <1>t, RepliedRow
    <3>2. /\ new \in FrontRow /\ new.seen = front.seen /\ new.stamp = front.stamp
          /\ new.entries = front.entries /\ new.loaded = front.loaded
      BY <1>t DEF FrontRow
    <3>3. /\ row \in PostRow /\ row.late = old.late /\ row.token = old.token /\ row.served = old.served
          /\ row.stage = "over"
      <4>1. code \in Int
        OBVIOUS
      <4> HIDE DEF code
      <4> QED BY <4>1, <1>t, AnsweredRow, Zenon
    <3> HIDE DEF row, new, old
    <3> QED BY <1>t, <1>l, <1>s, <2>0, <3>1, <3>2, <3>3, ReaderPost
  <2> QED BY <2>1, <2>2
<1> QED BY <1>a, <1>c, <1>d, <1>e, <1>f, <1>g, <1>h DEF PostStep

LEMMA StopKeeps == ASSUME EditIInv, ServeIInv, StopStep PROVE EditIInv' /\ ServeIInv'
<1>t. front \in FrontRow
  BY DEF EditIInv, HttpTypes
<1>1. /\ front' \in FrontRow /\ UNCHANGED <<tokenFile, editor, post>>
      /\ front'.lock = front.lock /\ front'.stamp = front.stamp /\ front'.seen = front.seen
      /\ front'.loaded = front.loaded /\ front'.entries = front.entries
  <2>1. CASE BeginStop
    BY <1>t, <2>1 DEF BeginStop, FrontRow
  <2>2. CASE CancelPeers
    BY <1>t, <2>2 DEF CancelPeers, FrontRow
  <2>3. CASE HardStop
    BY <1>t, <2>3 DEF HardStop, FrontRow
  <2> QED BY <2>1, <2>2, <2>3 DEF StopStep
<1>2. HttpTypes'
  BY <1>1 DEF EditIInv, HttpTypes
<1>3. EditIInv' /\ Revoked' = Revoked
  BY <1>1, <1>2, EditUntouched
<1>4. ServeIInv'
  BY <1>1, <1>3 DEF ServeIInv, ReaderHasLock, StampIsOfTheCopy, LateIsUnknown, RevokedIsRefused
<1> QED BY <1>3, <1>4

LEMMA HttpInvariance == HttpSpec => [](EditIInv /\ ServeIInv)
<1>1. EditIInv /\ ServeIInv /\ [HttpNext]_httpVars => (EditIInv /\ ServeIInv)'
  <2>1. EditIInv /\ ServeIInv /\ UNCHANGED httpVars => (EditIInv /\ ServeIInv)'
    BY EditUntouched DEF httpVars, EditIInv, ServeIInv, HttpTypes, ReaderHasLock, StampIsOfTheCopy,
                         LateIsUnknown, RevokedIsRefused
  <2> QED BY <2>1, EditKeeps, ServeUnderEdit, PostKeeps, StopKeeps DEF HttpNext
<1> QED BY <1>1, HttpInitially, PTL DEF HttpSpec

\* No edit of the token file undoes another, for any number of editors and tokens.
THEOREM TokenEditsAreKept == HttpSpec => []TokenEditsSurvive
BY HttpInvariance, PTL DEF EditIInv

\* A request that arrives after its token was revoked is not served, whatever the server's copy of the file
\* was and however reads and edits interleave.
THEOREM RevokedIsNeverServed == HttpSpec => []RevokedIsRefused
BY HttpInvariance, PTL DEF ServeIInv

-----------------------------------------------------------------------------
(* The keys of one encrypted channel.                                          *)

VerbRow == [name : {"none", "chat", "add", "remove", "rotate"}, at : {"idle", "info", "keyed"},
            target : Mates \cup {"none"}, epoch : 0..MaxKeys, members : SUBSET Mates, key : Nat, blob : Nat]
NoteRow == [epoch : 0..MaxKeys, key : Nat, blob : Nat, readers : SUBSET Mates]
RoomRow == [members : SUBSET Mates, epoch : 0..MaxKeys, pending : BOOLEAN, notes : Seq(NoteRow),
            wraps : [0..MaxKeys -> [Mates -> Nat]]]
SealTypes ==
    /\ room \in RoomRow /\ verb \in [Mates -> VerbRow]
    /\ drawn \in 1..MaxKeys /\ room.epoch < drawn

\* The wraps of an epoch hold one key, and every member has its wrap of the current one.
OneKeyPerEpoch ==
    \A e \in 0..MaxKeys : \A x, y \in Mates :
        room.wraps[e][x] # NoKey /\ room.wraps[e][y] # NoKey => room.wraps[e][x] = room.wraps[e][y]
MembersHoldTheKey == \A x \in room.members : room.wraps[room.epoch][x] # NoKey

\* With no rotation due, nobody outside the channel has a wrap of the current epoch: who left or was
\* removed cannot open what is posted from then on.
OutsidersHoldNoKey == ~room.pending => \A x \in Mates \ room.members : room.wraps[room.epoch][x] = NoKey

\* A client acts with the key of the epoch it read, which is its own wrap.
ActsWithItsWrap ==
    \A m \in Mates :
        /\ verb[m].epoch <= room.epoch /\ (verb[m].name = "add" => verb[m].target \in Mates)
        /\ verb[m].at = "info" => verb[m].blob = NoKey
        /\ verb[m].at = "keyed" /\ verb[m].name \in {"chat", "add"} =>
              verb[m].key # NoKey /\ verb[m].key = room.wraps[verb[m].epoch][m] /\ verb[m].blob \in {NoKey, verb[m].key}

\* Each reader of a message has the key that sealed it and its attachment.
ReadersHaveTheKey ==
    \A n \in DOMAIN room.notes :
        /\ room.notes[n].epoch <= room.epoch /\ room.notes[n].key # NoKey
        /\ room.notes[n].blob \in {NoKey, room.notes[n].key}
        /\ \A r \in room.notes[n].readers : room.wraps[room.notes[n].epoch][r] = room.notes[n].key

SealIInv == /\ SealTypes /\ OneKeyPerEpoch /\ MembersHoldTheKey /\ OutsidersHoldNoKey
            /\ ActsWithItsWrap /\ ReadersHaveTheKey

LEMMA SealInitially == SealInit => SealIInv
<1> SUFFICES ASSUME SealInit PROVE SealIInv
  OBVIOUS
<1>f. Founders \in SUBSET Mates
  BY SealingAssumption DEF Founders
<1>k. MaxKeys \in Nat \ {0}
  BY SealingAssumption
<1> DEFINE W == [e \in 0..MaxKeys |-> [x \in Mates |-> IF e = 0 /\ x \in Founders THEN 1 ELSE NoKey]]
<1>w. W \in [0..MaxKeys -> [Mates -> Nat]]
  BY DEF NoKey
<1>v. /\ room.members = Founders /\ room.epoch = 0 /\ room.pending = FALSE /\ room.notes = <<>> /\ room.wraps = W
      /\ room \in RoomRow
  <2>1. room = [members |-> Founders, epoch |-> 0, pending |-> FALSE, notes |-> <<>>, wraps |-> W]
    BY DEF SealInit
  <2> HIDE DEF W
  <2> QED BY <2>1, <1>f, <1>k, <1>w DEF RoomRow
<1>1. AtRest \in VerbRow /\ AtRest.epoch = 0 /\ AtRest.at = "idle" /\ AtRest.name = "none"
  BY <1>k DEF AtRest, VerbRow, NoKey
<1>2. SealTypes
  BY <1>k, <1>v, <1>1 DEF SealInit, SealTypes
<1>3. OneKeyPerEpoch /\ MembersHoldTheKey /\ OutsidersHoldNoKey
  BY <1>f, <1>k, <1>v DEF OneKeyPerEpoch, MembersHoldTheKey, OutsidersHoldNoKey, NoKey
<1>4. ActsWithItsWrap
  BY <1>1, <1>v DEF SealInit, ActsWithItsWrap
<1>5. ReadersHaveTheKey
  BY <1>v DEF ReadersHaveTheKey
<1> QED BY <1>2, <1>3, <1>4, <1>5 DEF SealIInv

\* A step that leaves the channel as it is: only the caller's own row has to fit.
LEMMA VerbKeeps ==
    ASSUME SealIInv, UNCHANGED room, drawn' \in 1..MaxKeys, drawn' >= drawn,
           NEW m \in Mates, NEW row \in VerbRow, verb' = [verb EXCEPT ![m] = row], row.epoch <= room.epoch,
           row.name = "add" => row.target \in Mates, row.at = "info" => row.blob = NoKey,
           row.at = "keyed" /\ row.name \in {"chat", "add"} =>
              row.key # NoKey /\ row.key = room.wraps[row.epoch][m] /\ row.blob \in {NoKey, row.key}
    PROVE  SealIInv'
<1>1. verb'[m] = row /\ \A x \in Mates : x # m => verb'[x] = verb[x]
  BY DEF SealIInv, SealTypes
<1>2. room.epoch \in Nat /\ drawn \in Nat
  BY SealingAssumption DEF SealIInv, SealTypes, RoomRow
<1>3. SealTypes'
  BY <1>2 DEF SealIInv, SealTypes
<1>4. ActsWithItsWrap'
  BY <1>1 DEF SealIInv, ActsWithItsWrap
<1>5. OneKeyPerEpoch' /\ MembersHoldTheKey' /\ OutsidersHoldNoKey' /\ ReadersHaveTheKey'
  BY DEF SealIInv, OneKeyPerEpoch, MembersHoldTheKey, OutsidersHoldNoKey, ReadersHaveTheKey
<1> QED BY <1>3, <1>4, <1>5 DEF SealIInv

LEMMA AtRestRow ==
    AtRest \in VerbRow /\ AtRest.epoch = 0 /\ AtRest.at = "idle" /\ AtRest.name = "none"
BY SealingAssumption DEF AtRest, VerbRow, NoKey

\* A request that is refused.
LEMMA RefusedKeeps ==
    ASSUME SealIInv, UNCHANGED room, NEW m \in Mates, Done(m), drawn' \in 1..MaxKeys, drawn' >= drawn
    PROVE  SealIInv'
<1>1. 0 <= room.epoch
  BY SealingAssumption DEF SealIInv, SealTypes, RoomRow
<1> QED BY <1>1, AtRestRow, VerbKeeps DEF Done

\* A step that changes the channel's rows and ends the caller's verb, or takes none: what earlier reads and
\* messages rest on are the wraps that were there, so these must stay.
LEMMA WrapsStay ==
    ASSUME SealIInv, room' \in RoomRow, drawn' \in 1..MaxKeys, room'.epoch < drawn', room'.epoch >= room.epoch,
           NEW m \in Mates, Done(m) \/ UNCHANGED verb,
           \A e \in 0..MaxKeys, x \in Mates :
              e <= room.epoch /\ room.wraps[e][x] # NoKey => room'.wraps[e][x] = room.wraps[e][x]
    PROVE  /\ SealTypes' /\ ActsWithItsWrap'
           /\ UNCHANGED room.notes => ReadersHaveTheKey'
<1>0. room.epoch \in Nat /\ room'.epoch \in Nat
  BY SealingAssumption DEF SealIInv, SealTypes, RoomRow
<1>1. verb' \in [Mates -> VerbRow]
  BY AtRestRow DEF SealIInv, SealTypes, Done
<1>2. SealTypes'
  BY <1>1 DEF SealTypes
<1>3. \A x \in Mates : verb'[x] = AtRest \/ verb'[x] = verb[x]
  BY DEF SealIInv, SealTypes, Done
<1>4. ASSUME NEW x \in Mates PROVE verb[x] \in VerbRow /\ verb[x].epoch \in 0..MaxKeys
  BY DEF SealIInv, SealTypes, VerbRow
<1>5. ActsWithItsWrap'
  <2> SUFFICES ASSUME NEW x \in Mates
               PROVE  /\ verb'[x].epoch <= room'.epoch /\ (verb'[x].name = "add" => verb'[x].target \in Mates)
                      /\ verb'[x].at = "info" => verb'[x].blob = NoKey
                      /\ verb'[x].at = "keyed" /\ verb'[x].name \in {"chat", "add"} =>
                            /\ verb'[x].key # NoKey /\ verb'[x].key = room'.wraps[verb'[x].epoch][x]
                            /\ verb'[x].blob \in {NoKey, verb'[x].key}
    BY DEF ActsWithItsWrap
  <2>1. CASE verb'[x] = AtRest
    BY <2>1, <1>0, AtRestRow
  <2>2. CASE verb'[x] = verb[x]
    BY <2>2, <1>0, <1>4 DEF SealIInv, ActsWithItsWrap
  <2> QED BY <2>1, <2>2, <1>3
<1>6. ASSUME UNCHANGED room.notes PROVE ReadersHaveTheKey'
  <2> SUFFICES ASSUME NEW n \in DOMAIN room.notes
               PROVE  /\ room.notes[n].epoch <= room'.epoch /\ room.notes[n].key # NoKey
                      /\ room.notes[n].blob \in {NoKey, room.notes[n].key}
                      /\ \A r \in room.notes[n].readers : room'.wraps[room.notes[n].epoch][r] = room.notes[n].key
    BY <1>6 DEF ReadersHaveTheKey
  <2>1. room.notes[n] \in NoteRow
    BY DEF SealIInv, SealTypes, RoomRow
  <2> QED BY <1>0, <2>1 DEF SealIInv, ReadersHaveTheKey, NoteRow
<1> QED BY <1>2, <1>5, <1>6

\* An accepted message: its sender's key is the one key of the current epoch, which every member has.
LEMMA PostedKeeps ==
    ASSUME SealIInv, NEW m \in Mates, PostSealed(m) PROVE SealIInv'
<1>t. /\ room \in RoomRow /\ drawn \in 1..MaxKeys /\ room.epoch \in 0..MaxKeys /\ room.epoch < drawn
      /\ room.notes \in Seq(NoteRow) /\ room.members \in SUBSET Mates
  BY DEF SealIInv, SealTypes, RoomRow
<1>n. drawn \in Nat /\ room.epoch \in Nat
  BY <1>t, SealingAssumption
<1>v. verb[m] \in VerbRow /\ verb[m].key \in Nat /\ verb[m].blob \in Nat
  BY DEF SealIInv, SealTypes, VerbRow
<1>d. Done(m) /\ UNCHANGED drawn /\ Doing(m, "chat", "keyed")
  BY DEF PostSealed
<1>1. CASE UNCHANGED room
  BY <1>1, <1>d, <1>t, <1>n, RefusedKeeps
<1>2. CASE ~UNCHANGED room
  <2> DEFINE note == [epoch |-> room.epoch, key |-> verb[m].key, blob |-> verb[m].blob, readers |-> room.members]
  <2>1. Member(m) /\ verb[m].epoch = room.epoch /\ room' = [room EXCEPT !.notes = Append(@, note)]
    BY <1>2 DEF PostSealed
  <2>2. note \in NoteRow
    BY <1>t, <1>v DEF NoteRow
  <2>3. note.epoch = room.epoch /\ note.key = verb[m].key /\ note.blob = verb[m].blob /\ note.readers = room.members
    OBVIOUS
  <2> HIDE DEF note
  <2>4. /\ room' \in RoomRow /\ room'.members = room.members /\ room'.epoch = room.epoch
        /\ room'.pending = room.pending /\ room'.wraps = room.wraps /\ room'.notes = Append(room.notes, note)
    <3> DEFINE longer == Append(room.notes, note)
    <3>1. longer \in Seq(NoteRow)
      BY <1>t, <2>2
    <3>2. room' = [room EXCEPT !.notes = longer]
      BY <2>1
    <3> HIDE DEF longer
    <3>3. room'.notes = longer /\ room' \in RoomRow /\ room'.members = room.members /\ room'.epoch = room.epoch
          /\ room'.pending = room.pending /\ room'.wraps = room.wraps
      BY <1>t, <3>1, <3>2 DEF RoomRow
    <3> QED BY <3>3 DEF longer
  <2>5. SealTypes' /\ ActsWithItsWrap'
    BY <1>d, <1>t, <1>n, <2>4, WrapsStay
  <2>6. OneKeyPerEpoch' /\ MembersHoldTheKey' /\ OutsidersHoldNoKey'
    BY <2>4 DEF SealIInv, OneKeyPerEpoch, MembersHoldTheKey, OutsidersHoldNoKey
  <2>7. /\ verb[m].key # NoKey /\ verb[m].key = room.wraps[room.epoch][m]
        /\ verb[m].blob \in {NoKey, verb[m].key}
    BY <1>d, <2>1 DEF SealIInv, ActsWithItsWrap, Doing
  <2>8. \A r \in room.members : room.wraps[room.epoch][r] = verb[m].key
    BY <1>t, <2>1, <2>7 DEF SealIInv, OneKeyPerEpoch, MembersHoldTheKey, Member
  <2>9. ReadersHaveTheKey'
    <3> SUFFICES ASSUME NEW n \in DOMAIN room'.notes
                 PROVE  /\ room'.notes[n].epoch <= room'.epoch /\ room'.notes[n].key # NoKey
                        /\ room'.notes[n].blob \in {NoKey, room'.notes[n].key}
                        /\ \A r \in room'.notes[n].readers : room'.wraps[room'.notes[n].epoch][r] = room'.notes[n].key
      BY DEF ReadersHaveTheKey
    <3>1. CASE n \in DOMAIN room.notes
      <4>1. room'.notes[n] = room.notes[n]
        BY <1>t, <2>2, <2>4, <3>1
      <4> QED BY <2>4, <3>1, <4>1 DEF SealIInv, ReadersHaveTheKey
    <3>2. CASE n \notin DOMAIN room.notes
      <4>1. room'.notes[n] = note
        BY <1>t, <2>2, <2>4, <3>2
      <4> QED BY <1>n, <2>3, <2>4, <2>7, <2>8, <4>1
    <3> QED BY <3>1, <3>2
  <2> QED BY <2>5, <2>6, <2>9 DEF SealIInv
<1> QED BY <1>1, <1>2

\* An accepted join: the wrap is of the epoch the daemon is in, so it holds that epoch's key.
LEMMA AddedKeeps ==
    ASSUME SealIInv, NEW m \in Mates, AddSealed(m) PROVE SealIInv'
<1>t. /\ room \in RoomRow /\ drawn \in 1..MaxKeys /\ room.epoch \in 0..MaxKeys /\ room.epoch < drawn
      /\ room.members \in SUBSET Mates /\ room.wraps \in [0..MaxKeys -> [Mates -> Nat]]
  BY DEF SealIInv, SealTypes, RoomRow
<1>n. drawn \in Nat /\ room.epoch \in Nat
  BY <1>t, SealingAssumption
<1>v. verb[m] \in VerbRow /\ verb[m].key \in Nat /\ verb[m].target \in Mates \cup {"none"}
  BY DEF SealIInv, SealTypes, VerbRow
<1>d. Done(m) /\ UNCHANGED drawn /\ Doing(m, "add", "keyed")
  BY DEF AddSealed
<1>1. CASE UNCHANGED room
  BY <1>1, <1>d, <1>t, <1>n, RefusedKeeps
<1>2. CASE ~UNCHANGED room
  <2> DEFINE t == verb[m].target
             key == verb[m].key
             E == room.epoch
  <2>1. /\ verb[m].epoch = E /\ room.wraps[E][t] = NoKey
        /\ room' = [room EXCEPT !.members = @ \cup {t}, !.wraps[room.epoch][t] = key]
    BY <1>2 DEF AddSealed, DigestFits
  <2>2. t \in Mates /\ key # NoKey /\ key = room.wraps[E][m]
    BY <1>d, <2>1 DEF SealIInv, ActsWithItsWrap, Doing
  <2> DEFINE W == [room.wraps EXCEPT ![E][t] = key]
  <2>3. /\ W \in [0..MaxKeys -> [Mates -> Nat]]
        /\ \A e \in 0..MaxKeys, x \in Mates : W[e][x] = IF e = E /\ x = t THEN key ELSE room.wraps[e][x]
    BY <1>t, <1>v, <2>2
  <2>4. room' = [room EXCEPT !.members = @ \cup {t}, !.wraps = W]
    BY <1>t, <2>1 DEF RoomRow
  <2> HIDE DEF W, t, key, E
  <2>5. /\ room' \in RoomRow /\ room'.members = room.members \cup {t} /\ room'.epoch = room.epoch
        /\ room'.pending = room.pending /\ room'.notes = room.notes /\ room'.wraps = W
    BY <1>t, <2>2, <2>3, <2>4 DEF RoomRow
  <2>6. SealTypes' /\ ActsWithItsWrap' /\ ReadersHaveTheKey'
    <3>1. \A e \in 0..MaxKeys, x \in Mates : room.wraps[e][x] # NoKey => room'.wraps[e][x] = room.wraps[e][x]
      BY <2>1, <2>3, <2>5
    <3>2. room'.epoch < drawn' /\ room'.epoch >= room.epoch /\ drawn' \in 1..MaxKeys
      BY <1>d, <1>t, <1>n, <2>5
    <3> QED BY <1>d, <2>5, <3>1, <3>2, WrapsStay
  <2>7. OneKeyPerEpoch'
    <3>1. E \in 0..MaxKeys /\ \A x \in Mates : room.wraps[E][x] # NoKey => room.wraps[E][x] = key
      BY <1>t, <2>2 DEF SealIInv, OneKeyPerEpoch, E
    <3> SUFFICES ASSUME NEW e \in 0..MaxKeys, NEW x \in Mates, NEW y \in Mates, W[e][x] # NoKey, W[e][y] # NoKey
                 PROVE  W[e][x] = W[e][y]
      BY <2>5 DEF OneKeyPerEpoch
    <3>2. CASE e = E
      BY <2>3, <3>1, <3>2
    <3>3. CASE e # E
      BY <2>3, <3>3 DEF SealIInv, OneKeyPerEpoch
    <3> QED BY <3>2, <3>3
  <2>8. MembersHoldTheKey' /\ OutsidersHoldNoKey'
    <3>1. E \in 0..MaxKeys /\ room'.epoch = E
      BY <1>t, <2>5 DEF E
    <3>2. \A x \in room.members : room.wraps[E][x] # NoKey
      BY DEF SealIInv, MembersHoldTheKey, E
    <3>3. ~room.pending => \A x \in Mates \ room.members : room.wraps[E][x] = NoKey
      BY DEF SealIInv, OutsidersHoldNoKey, E
    <3>4. MembersHoldTheKey'
      BY <1>t, <2>2, <2>3, <2>5, <3>1, <3>2 DEF MembersHoldTheKey
    <3>5. OutsidersHoldNoKey'
      BY <2>2, <2>3, <2>5, <3>1, <3>3 DEF OutsidersHoldNoKey
    <3> QED BY <3>4, <3>5
  <2> QED BY <2>6, <2>7, <2>8 DEF SealIInv
<1> QED BY <1>1, <1>2

\* An accepted removal or rotation: one new key, wrapped for exactly those who stay, in an epoch nobody read.
LEMMA RekeyedKeeps ==
    ASSUME SealIInv, NEW m \in Mates, NEW members \in SUBSET Mates,
           drawn < MaxKeys, drawn' = drawn + 1, Done(m), room' = room \/ room' = Rekeyed(m, members)
    PROVE  SealIInv'
<1>t. /\ room \in RoomRow /\ drawn \in 1..MaxKeys /\ room.epoch \in 0..MaxKeys /\ room.epoch < drawn
      /\ room.members \in SUBSET Mates /\ room.wraps \in [0..MaxKeys -> [Mates -> Nat]]
  BY DEF SealIInv, SealTypes, RoomRow
<1>n. drawn \in Nat /\ room.epoch \in Nat /\ MaxKeys \in Nat /\ drawn' \in 1..MaxKeys /\ drawn' >= drawn
  <2>1. MaxKeys \in Nat
    BY SealingAssumption
  <2> QED BY <1>t, <2>1
<1>1. CASE UNCHANGED room
  BY <1>1, <1>t, <1>n, RefusedKeeps
<1>2. CASE ~UNCHANGED room
  <2> DEFINE fresh == [x \in Mates |-> IF x \in members THEN drawn + 1 ELSE NoKey]
             W == [room.wraps EXCEPT ![room.epoch + 1] = fresh]
  <2>1. room' = [room EXCEPT !.members = members, !.epoch = @ + 1, !.pending = FALSE, !.wraps[room.epoch + 1] = fresh]
    <3>1. room' = Rekeyed(m, members)
      BY <1>2
    <3>2. /\ verb[m].members \ {verb[m].target} = members
          /\ room' = [room EXCEPT !.members = members, !.epoch = @ + 1, !.pending = FALSE,
                                   !.wraps[room.epoch + 1] = [x \in Mates |-> IF x \in verb[m].members \ {verb[m].target} THEN drawn + 1 ELSE NoKey]]
      BY <1>2, <3>1 DEF Rekeyed, Covers
    <3> QED BY <3>2
  <2>2. fresh \in [Mates -> Nat] /\ room.epoch + 1 \in 0..MaxKeys
    <3>1. room.epoch + 1 \in 0..MaxKeys
      BY <1>t, <1>n
    <3>2. drawn + 1 \in Nat /\ NoKey \in Nat
      BY <1>n DEF NoKey
    <3> QED BY <3>1, <3>2
  <2>3. \A x \in Mates : (x \in members => fresh[x] = drawn + 1) /\ (x \notin members => fresh[x] = NoKey)
    OBVIOUS
  <2> HIDE DEF fresh
  <2>4. /\ W \in [0..MaxKeys -> [Mates -> Nat]] /\ W[room.epoch + 1] = fresh
        /\ \A e \in 0..MaxKeys : e # room.epoch + 1 => W[e] = room.wraps[e]
    BY <1>t, <2>2
  <2>5. room' = [room EXCEPT !.members = members, !.epoch = @ + 1, !.pending = FALSE, !.wraps = W]
    BY <1>t, <2>1 DEF RoomRow
  <2> HIDE DEF W
  <2>6. /\ room' \in RoomRow /\ room'.members = members /\ room'.epoch = room.epoch + 1
        /\ room'.pending = FALSE /\ room'.notes = room.notes /\ room'.wraps = W
    BY <1>t, <2>2, <2>4, <2>5 DEF RoomRow
  <2>7. SealTypes' /\ ActsWithItsWrap' /\ ReadersHaveTheKey'
    <3>1. \A e \in 0..MaxKeys, x \in Mates : e <= room.epoch => room'.wraps[e][x] = room.wraps[e][x]
      <4>1. \A e \in 0..MaxKeys : e <= room.epoch => e # room.epoch + 1
        BY <1>n
      <4> QED BY <2>4, <2>6, <4>1
    <3>2. room'.epoch < drawn' /\ room'.epoch >= room.epoch
      BY <1>t, <1>n, <2>6
    <3> QED BY <1>n, <2>6, <3>1, <3>2, WrapsStay
  <2>8. OneKeyPerEpoch'
    <3> SUFFICES ASSUME NEW e \in 0..MaxKeys, NEW x \in Mates, NEW y \in Mates, W[e][x] # NoKey, W[e][y] # NoKey
                 PROVE  W[e][x] = W[e][y]
      BY <2>6 DEF OneKeyPerEpoch
    <3>1. CASE e = room.epoch + 1
      BY <2>3, <2>4, <3>1
    <3>2. CASE e # room.epoch + 1
      BY <2>4, <3>2 DEF SealIInv, OneKeyPerEpoch
    <3> QED BY <3>1, <3>2
  <2>9. MembersHoldTheKey' /\ OutsidersHoldNoKey'
    <3>1. room'.wraps[room'.epoch] = fresh /\ drawn + 1 # NoKey
      BY <1>n, <2>4, <2>6 DEF NoKey
    <3> QED BY <2>3, <2>6, <3>1 DEF MembersHoldTheKey, OutsidersHoldNoKey
  <2> QED BY <2>7, <2>8, <2>9 DEF SealIInv
<1> QED BY <1>1, <1>2

LEMMA LeftKeeps ==
    ASSUME SealIInv, NEW m \in Mates, LeaveSealed(m) PROVE SealIInv'
<1>t. /\ room \in RoomRow /\ drawn \in 1..MaxKeys /\ room.epoch \in 0..MaxKeys /\ room.epoch < drawn
  BY DEF SealIInv, SealTypes, RoomRow
<1>n. drawn \in Nat /\ room.epoch \in Nat
  BY <1>t, SealingAssumption
<1>1. /\ room' \in RoomRow /\ room'.members = room.members \ {m} /\ room'.epoch = room.epoch
      /\ room'.pending = TRUE /\ room'.notes = room.notes /\ room'.wraps = room.wraps
      /\ UNCHANGED <<verb, drawn>>
  BY <1>t DEF LeaveSealed, RoomRow
<1>2. SealTypes' /\ ActsWithItsWrap' /\ ReadersHaveTheKey'
  BY <1>t, <1>n, <1>1, WrapsStay
<1>3. OneKeyPerEpoch' /\ MembersHoldTheKey' /\ OutsidersHoldNoKey'
  BY <1>1 DEF SealIInv, OneKeyPerEpoch, MembersHoldTheKey, OutsidersHoldNoKey
<1> QED BY <1>2, <1>3 DEF SealIInv

\* The reads, and the upload of an attachment, which is sealed with the key the client has.
LEMMA ReadsKeep ==
    ASSUME SealIInv, NEW m \in Mates,
           \/ \E name \in {"chat", "rotate"} : ReadChannel(m, name, "none")
           \/ \E t \in Mates, name \in {"add", "remove"} : ReadChannel(m, name, t)
           \/ ReadKey(m) \/ PutBlob(m)
    PROVE  SealIInv'
<1> DEFINE old == verb[m]
<1>t. /\ room \in RoomRow /\ drawn \in 1..MaxKeys /\ room.epoch \in 0..MaxKeys /\ room.members \in SUBSET Mates
      /\ room.wraps \in [0..MaxKeys -> [Mates -> Nat]] /\ old \in VerbRow /\ verb \in [Mates -> VerbRow]
  BY DEF SealIInv, SealTypes, RoomRow
<1>n. drawn \in Nat /\ room.epoch \in Nat
  BY <1>t, SealingAssumption
<1>o. /\ old.epoch <= room.epoch /\ (old.name = "add" => old.target \in Mates)
      /\ old.at = "info" => old.blob = NoKey
      /\ old.at = "keyed" /\ old.name \in {"chat", "add"} =>
            old.key # NoKey /\ old.key = room.wraps[old.epoch][m] /\ old.blob \in {NoKey, old.key}
  BY DEF SealIInv, ActsWithItsWrap
<1>1. ASSUME NEW name \in {"chat", "rotate", "add", "remove"}, NEW t \in Mates \cup {"none"},
             name \in {"add", "remove"} => t \in Mates, ReadChannel(m, name, t)
      PROVE  SealIInv'
  <2> DEFINE row == [AtRest EXCEPT !.name = name, !.target = t, !.epoch = room.epoch, !.members = room.members,
                                   !.at = IF name \in {"chat", "add"} THEN "info" ELSE "keyed"]
  <2>1. /\ row \in VerbRow /\ row.name = name /\ row.target = t /\ row.epoch = room.epoch /\ row.blob = NoKey
        /\ row.at = IF name \in {"chat", "add"} THEN "info" ELSE "keyed"
    BY <1>t DEF AtRest, VerbRow, NoKey
  <2>2. verb' = [verb EXCEPT ![m] = row] /\ UNCHANGED <<room, drawn>>
    BY <1>1 DEF ReadChannel
  <2> HIDE DEF row
  <2>3. row.epoch <= room.epoch /\ drawn' \in 1..MaxKeys /\ drawn' >= drawn
    BY <1>t, <1>n, <2>1, <2>2
  <2>4. (row.name = "add" => row.target \in Mates) /\ ~(row.at = "keyed" /\ row.name \in {"chat", "add"})
    BY <1>1, <2>1
  <2> QED BY <2>1, <2>2, <2>3, <2>4, VerbKeeps
<1>2. CASE ReadKey(m)
  <2>0. UNCHANGED <<room, drawn>>
    BY <1>2 DEF ReadKey
  <2>1. CASE Member(m) /\ Unwrap(m, room.epoch) # NoKey
    <3> DEFINE row == [old EXCEPT !.at = "keyed", !.epoch = room.epoch, !.key = Unwrap(m, room.epoch)]
    <3>1. /\ row \in VerbRow /\ row.name = old.name /\ row.target = old.target /\ row.epoch = room.epoch
          /\ row.at = "keyed"
          /\ row.key = room.wraps[room.epoch][m] /\ row.blob = old.blob
      <4>1. room.wraps[room.epoch][m] \in Nat
        BY <1>t
      <4> QED BY <1>t, <4>1 DEF Unwrap, VerbRow
    <3>2. verb' = [verb EXCEPT ![m] = row] /\ old.at = "info"
      BY <1>2, <1>t, <2>1 DEF ReadKey
    <3> HIDE DEF row
    <3>3. row.epoch <= room.epoch /\ drawn' \in 1..MaxKeys /\ drawn' >= drawn
      BY <1>t, <1>n, <2>0, <3>1
    <3> QED BY <1>o, <2>0, <2>1, <3>1, <3>2, <3>3, VerbKeeps DEF Unwrap
  <2>2. CASE Done(m)
    BY <1>t, <1>n, <2>0, <2>2, RefusedKeeps
  <2> QED BY <1>2, <2>1, <2>2 DEF ReadKey
<1>3. CASE PutBlob(m)
  <2> DEFINE row == [old EXCEPT !.blob = old.key]
  <2>1. /\ row \in VerbRow /\ row.name = old.name /\ row.target = old.target /\ row.epoch = old.epoch
        /\ row.key = old.key /\ row.blob = old.key
    BY <1>t DEF VerbRow
  <2>2. verb' = [verb EXCEPT ![m] = row] /\ UNCHANGED <<room, drawn>> /\ Doing(m, "chat", "keyed")
    BY <1>3, <1>t DEF PutBlob
  <2>3. row.at = old.at
    BY <1>t DEF VerbRow
  <2> HIDE DEF row
  <2>4. row.epoch <= room.epoch /\ drawn' \in 1..MaxKeys /\ drawn' >= drawn
    BY <1>o, <1>t, <1>n, <2>1, <2>2
  <2> QED BY <1>o, <2>1, <2>2, <2>3, <2>4, VerbKeeps DEF Doing
<1> QED BY <1>1, <1>2, <1>3

LEMMA SealInvariance == SealSpec => []SealIInv
<1>1. ASSUME SealIInv, NEW m \in Mates, SealStep(m) PROVE SealIInv'
  <2>t. room.members \in SUBSET Mates
    BY <1>1 DEF SealIInv, SealTypes, RoomRow
  <2>1. CASE RemoveSealed(m)
    BY <1>1, <2>1, <2>t, RekeyedKeeps DEF RemoveSealed
  <2>2. CASE RotateSealed(m)
    BY <1>1, <2>2, <2>t, RekeyedKeeps DEF RotateSealed
  <2> QED BY <1>1, <2>1, <2>2, ReadsKeep, PostedKeeps, AddedKeeps, LeftKeeps DEF SealStep
<1>2. SealIInv /\ UNCHANGED sealVars => SealIInv'
  <2>1. SealIInv /\ UNCHANGED sealVars => (SealTypes /\ ActsWithItsWrap)'
    BY DEF sealVars, SealIInv, SealTypes, ActsWithItsWrap
  <2>2. SealIInv /\ UNCHANGED sealVars => (OneKeyPerEpoch /\ MembersHoldTheKey /\ OutsidersHoldNoKey)'
    BY DEF sealVars, SealIInv, OneKeyPerEpoch, MembersHoldTheKey, OutsidersHoldNoKey
  <2>3. SealIInv /\ UNCHANGED sealVars => ReadersHaveTheKey'
    BY DEF sealVars, SealIInv, ReadersHaveTheKey
  <2> QED BY <2>1, <2>2, <2>3 DEF SealIInv
<1>3. SealIInv /\ [\E m \in Mates : SealStep(m)]_sealVars => SealIInv'
  BY <1>1, <1>2
<1> QED BY <1>3, SealInitially, PTL DEF SealSpec

\* Whoever was a member when a message was accepted can open it and its attachment, for any number of
\* clients, keys and messages.
THEOREM MembersCanOpen == SealSpec => []EveryMemberCanOpen
<1>1. SealIInv => EveryMemberCanOpen
  BY DEF SealIInv, ReadersHaveTheKey, EveryMemberCanOpen, Renders, Fetches, Opened, Unwrap
<1> QED BY <1>1, SealInvariance, PTL

\* Who left or was removed has no key of an epoch in which messages are accepted.
THEOREM LeaversAreLockedOut == SealSpec => []OutsidersHoldNoKey
BY SealInvariance, PTL DEF SealIInv

-----------------------------------------------------------------------------
(* Cancelled calls.                                                            *)

TaskStages == {"none", "spawned", "registering", "running", "answered", "ended", "over"}
TaskRow == [stage : TaskStages, kind : {"call", "other"}, modern : BOOLEAN]
StdioTypes ==
    /\ flight \in [RequestIds -> {Absent, "live", "cancelled"}]
    /\ task \in [RequestIds -> TaskRow]
    /\ ghost \in [early : SUBSET RequestIds, ran : SUBSET RequestIds]

\* The reader knows a call before its task begins, and a cancel that came so early is still there when
\* the task looks.
KnownBeforeItBegins == \A i \in RequestIds : task[i].stage = "spawned" /\ task[i].kind = "call" => flight[i] # Absent
EarlyIsRemembered ==
    \A i \in ghost.early : /\ task[i].stage \in {"spawned", "answered", "ended", "over"}
                           /\ task[i].stage = "spawned" => task[i].kind = "call" /\ flight[i] = "cancelled"
RanHadBegun == \A i \in ghost.ran : task[i].stage \in {"running", "answered", "ended", "over"}

StdioIInv == StdioTypes /\ KnownBeforeItBegins /\ EarlyIsRemembered /\ RanHadBegun /\ CancelIsNotMissed

\* A task that only moves on keeps the bookkeeping, if it was not cancelled early or does not begin.
LEMMA TaskMovesOn ==
    ASSUME StdioIInv, NEW i \in RequestIds, NEW stage \in TaskStages \ {"none", "spawned"}, To(i, stage),
           NEW f \in [RequestIds -> {Absent, "live", "cancelled"}], flight' = f,
           \A j \in RequestIds \ {i} : f[j] = flight[j],
           UNCHANGED ghost, stage \in {"registering", "running"} => i \notin ghost.early,
           stage = "registering" => i \notin ghost.ran
    PROVE  StdioIInv'
<1>1. task \in [RequestIds -> TaskRow] /\ task' = [task EXCEPT ![i].stage = stage]
  BY DEF StdioIInv, StdioTypes, To
<1>2. task' \in [RequestIds -> TaskRow]
  BY <1>1 DEF TaskRow
<1>3. task'[i].stage = stage /\ \A j \in RequestIds \ {i} : task'[j] = task[j]
  BY <1>1 DEF TaskRow
<1>4. StdioTypes'
  BY <1>2 DEF StdioIInv, StdioTypes
<1>5. KnownBeforeItBegins'
  BY <1>3 DEF StdioIInv, KnownBeforeItBegins
<1>6. EarlyIsRemembered' /\ RanHadBegun' /\ CancelIsNotMissed'
  <2>1. ghost.early \in SUBSET RequestIds /\ ghost.ran \in SUBSET RequestIds
    BY DEF StdioIInv, StdioTypes
  <2> QED BY <1>3, <2>1 DEF StdioIInv, EarlyIsRemembered, RanHadBegun, CancelIsNotMissed, TaskStages
<1> QED BY <1>4, <1>5, <1>6 DEF StdioIInv

LEMMA StdioIdle == ASSUME StdioIInv, UNCHANGED <<flight, task, ghost>> PROVE StdioIInv'
BY DEF StdioIInv, StdioTypes, KnownBeforeItBegins, EarlyIsRemembered, RanHadBegun, CancelIsNotMissed

\* The tool of a call runs: it was not cancelled before it began.
LEMMA ToolRuns ==
    ASSUME StdioIInv, NEW i \in RequestIds, task[i].stage = "registering", To(i, "running"),
           ghost' = [ghost EXCEPT !.ran = @ \cup {i}], UNCHANGED flight
    PROVE  StdioIInv'
<1>1. /\ task \in [RequestIds -> TaskRow] /\ task' = [task EXCEPT ![i].stage = "running"]
      /\ ghost.early \in SUBSET RequestIds /\ ghost.ran \in SUBSET RequestIds
  BY DEF StdioIInv, StdioTypes, To
<1>2. task' \in [RequestIds -> TaskRow]
  BY <1>1 DEF TaskRow, TaskStages
<1>3. task'[i].stage = "running" /\ \A j \in RequestIds \ {i} : task'[j] = task[j]
  BY <1>1 DEF TaskRow
<1>4. ghost'.early = ghost.early /\ ghost'.ran = ghost.ran \cup {i} /\ ghost' \in [early : SUBSET RequestIds, ran : SUBSET RequestIds]
  BY DEF StdioIInv, StdioTypes
<1>5. i \notin ghost.early
  BY DEF StdioIInv, EarlyIsRemembered
<1>6. StdioTypes' /\ KnownBeforeItBegins'
  BY <1>2, <1>3, <1>4 DEF StdioIInv, StdioTypes, KnownBeforeItBegins
<1>7. EarlyIsRemembered' /\ RanHadBegun' /\ CancelIsNotMissed'
  BY <1>1, <1>3, <1>4, <1>5 DEF StdioIInv, EarlyIsRemembered, RanHadBegun, CancelIsNotMissed
<1> QED BY <1>6, <1>7 DEF StdioIInv

LEMMA ReaderKeeps ==
    ASSUME StdioIInv, NEW i \in RequestIds, ReaderStep(i)
    PROVE  StdioIInv'
<1>t. /\ task \in [RequestIds -> TaskRow] /\ flight \in [RequestIds -> {Absent, "live", "cancelled"}]
      /\ ghost.early \in SUBSET RequestIds /\ ghost.ran \in SUBSET RequestIds
      /\ ghost \in [early : SUBSET RequestIds, ran : SUBSET RequestIds]
  BY DEF StdioIInv, StdioTypes
<1>1. ASSUME NEW kind \in {"call", "other"}, NEW modern \in BOOLEAN, ReadLine(i, kind, modern) PROVE StdioIInv'
  <2> DEFINE row == [stage |-> "spawned", kind |-> kind, modern |-> modern]
             f   == RegisteredByReader(kind)
  <2>1. /\ task[i].stage = "none" /\ task' = [task EXCEPT ![i] = row] /\ flight' = [flight EXCEPT ![i] = f]
        /\ ghost' = ghost
    BY <1>1 DEF ReadLine, Unread
  <2>2. row \in TaskRow /\ row.stage = "spawned" /\ row.kind = kind
    BY DEF TaskRow, TaskStages
  <2>3. f \in {Absent, "live", "cancelled"} /\ (kind = "call" => f # Absent)
    BY DEF RegisteredByReader, Absent
  <2> HIDE DEF row, f
  <2>4. /\ task' \in [RequestIds -> TaskRow] /\ flight' \in [RequestIds -> {Absent, "live", "cancelled"}]
        /\ task'[i] = row /\ flight'[i] = f
        /\ \A j \in RequestIds \ {i} : task'[j] = task[j] /\ flight'[j] = flight[j]
    BY <1>t, <2>1, <2>2, <2>3
  <2>5. i \notin ghost.early /\ i \notin ghost.ran
    BY <2>1 DEF StdioIInv, EarlyIsRemembered, RanHadBegun
  <2>6. StdioTypes' /\ KnownBeforeItBegins'
    BY <2>1, <2>2, <2>3, <2>4 DEF StdioIInv, StdioTypes, KnownBeforeItBegins
  <2>7. EarlyIsRemembered' /\ RanHadBegun' /\ CancelIsNotMissed'
    BY <1>t, <2>1, <2>4, <2>5 DEF StdioIInv, EarlyIsRemembered, RanHadBegun, CancelIsNotMissed
  <2> QED BY <2>6, <2>7 DEF StdioIInv
<1>2. CASE RefuseLine(i) \/ ReadInitialize(i)
  <2>1. To(i, "over") /\ flight' = flight /\ ghost' = ghost
    BY <1>2 DEF RefuseLine, ReadInitialize, To
  <2> QED BY <1>t, <2>1, TaskMovesOn DEF TaskStages
<1>3. CASE ReadCancel(i)
  <2> DEFINE f == IF flight[i] = "live" THEN "cancelled" ELSE flight[i]
  <2>1. /\ flight' = [flight EXCEPT ![i] = f] /\ task' = task /\ task[i].kind = "call"
        /\ ghost' = IF task[i].stage = "spawned" THEN [ghost EXCEPT !.early = ghost.early \cup {i}] ELSE ghost
    BY <1>3 DEF ReadCancel
  <2>2. f \in {Absent, "live", "cancelled"} /\ (flight[i] # Absent => f = "cancelled")
    BY <1>t DEF Absent
  <2> HIDE DEF f
  <2>3. /\ flight' \in [RequestIds -> {Absent, "live", "cancelled"}] /\ flight'[i] = f
        /\ \A j \in RequestIds \ {i} : flight'[j] = flight[j]
    BY <1>t, <2>1, <2>2
  <2>n. Absent # "cancelled"
    BY DEF Absent
  <2>4. CASE task[i].stage = "spawned"
    <3>1. flight[i] # Absent /\ f = "cancelled"
      BY <2>1, <2>2, <2>4 DEF StdioIInv, KnownBeforeItBegins
    <3>2. /\ ghost'.early = ghost.early \cup {i} /\ ghost'.ran = ghost.ran
          /\ ghost' \in [early : SUBSET RequestIds, ran : SUBSET RequestIds]
      BY <1>t, <2>1, <2>4
    <3>3. i \notin ghost.ran
      BY <2>4 DEF StdioIInv, RanHadBegun
    <3>4. StdioTypes' /\ KnownBeforeItBegins'
      BY <1>t, <2>1, <2>3, <2>n, <3>1, <3>2 DEF StdioIInv, StdioTypes, KnownBeforeItBegins
    <3>5. EarlyIsRemembered' /\ RanHadBegun' /\ CancelIsNotMissed'
      BY <1>t, <2>1, <2>3, <2>4, <3>1, <3>2, <3>3 DEF StdioIInv, EarlyIsRemembered, RanHadBegun, CancelIsNotMissed
    <3> QED BY <3>4, <3>5 DEF StdioIInv
  <2>5. CASE task[i].stage # "spawned"
    <3>1. ghost' = ghost
      BY <2>1, <2>5
    <3>2. StdioTypes' /\ KnownBeforeItBegins'
      BY <1>t, <2>1, <2>3, <2>5, <3>1 DEF StdioIInv, StdioTypes, KnownBeforeItBegins
    <3>3. EarlyIsRemembered' /\ RanHadBegun' /\ CancelIsNotMissed'
      BY <1>t, <2>1, <2>3, <2>5, <3>1 DEF StdioIInv, EarlyIsRemembered, RanHadBegun, CancelIsNotMissed
    <3> QED BY <3>2, <3>3 DEF StdioIInv
  <2> QED BY <2>4, <2>5
<1> QED BY <1>1, <1>2, <1>3 DEF ReaderStep

LEMMA TaskKeeps ==
    ASSUME StdioIInv, NEW i \in RequestIds, TaskStep(i)
    PROVE  StdioIInv'
<1>t. flight \in [RequestIds -> {Absent, "live", "cancelled"}]
  BY DEF StdioIInv, StdioTypes
<1>1. CASE AnswerAtOnce(i) \/ ToolEnds(i) \/ CallCancelledStdio(i) \/ Registered(i, FALSE)
  <2>1. (To(i, "answered") \/ To(i, "ended")) /\ flight' = flight /\ ghost' = ghost
    BY <1>1 DEF AnswerAtOnce, ToolEnds, CallCancelledStdio, Registered
  <2>2. {"answered", "ended"} \subseteq TaskStages \ {"none", "spawned"}
    BY DEF TaskStages
  <2> QED BY <1>t, <2>1, <2>2, TaskMovesOn
<1>2. CASE QueueAnswer(i) \/ EndSilently(i)
  <2> DEFINE f == [flight EXCEPT ![i] = Absent]
  <2>1. To(i, "over") /\ flight' = f /\ ghost' = ghost
    BY <1>2 DEF QueueAnswer, EndSilently, Forget
  <2>2. f \in [RequestIds -> {Absent, "live", "cancelled"}] /\ \A j \in RequestIds \ {i} : f[j] = flight[j]
    BY <1>t
  <2>3. "over" \in TaskStages \ {"none", "spawned"}
    BY DEF TaskStages
  <2> HIDE DEF f
  <2> QED BY <2>1, <2>2, <2>3, TaskMovesOn
<1>3. CASE BeginCall(i)
  <2> DEFINE f == [flight EXCEPT ![i] = IF @ = Absent THEN "live" ELSE @]
             stage == IF flight[i] = "cancelled" THEN "ended" ELSE "registering"
  <2>1. To(i, stage) /\ flight' = f /\ ghost' = ghost /\ task[i].stage = "spawned"
    BY <1>3 DEF BeginCall
  <2>2. f \in [RequestIds -> {Absent, "live", "cancelled"}] /\ \A j \in RequestIds \ {i} : f[j] = flight[j]
    BY <1>t
  <2>3. stage \in TaskStages \ {"none", "spawned"} /\ stage # "running"
    BY DEF TaskStages
  <2>4. stage = "registering" => i \notin ghost.early /\ i \notin ghost.ran
    BY <2>1 DEF StdioIInv, EarlyIsRemembered, RanHadBegun
  <2> HIDE DEF f, stage
  <2> QED BY <2>1, <2>2, <2>3, <2>4, TaskMovesOn
<1>4. CASE TryRegister(i)
  BY <1>4, StdioIdle DEF TryRegister
<1>5. CASE Registered(i, TRUE) \/ RunTool(i)
  <2>1. task[i].stage = "registering" /\ To(i, "running") /\ ghost' = [ghost EXCEPT !.ran = @ \cup {i}] /\ flight' = flight
    BY <1>5 DEF Registered, RunTool
  <2> QED BY <2>1, ToolRuns
<1>6. \A ok \in BOOLEAN : Registered(i, ok) => Registered(i, TRUE) \/ Registered(i, FALSE)
  OBVIOUS
<1> QED BY <1>1, <1>2, <1>3, <1>4, <1>5, <1>6 DEF TaskStep

LEMMA AbortKeeps == ASSUME StdioIInv, AbortTasks PROVE StdioIInv'
<1>1. /\ task' = [i \in RequestIds |-> IF Running(i) THEN [task[i] EXCEPT !.stage = "over"] ELSE task[i]]
      /\ flight' = [i \in RequestIds |-> Absent] /\ ghost' = ghost /\ task \in [RequestIds -> TaskRow]
  BY DEF AbortTasks, StdioIInv, StdioTypes
<1>2. ASSUME NEW i \in RequestIds
      PROVE  task'[i] \in TaskRow /\ (task'[i].stage = "over" \/ (task[i].stage = "none" /\ task'[i] = task[i]))
  BY <1>1 DEF TaskRow, TaskStages, Running
<1>3. task' \in [RequestIds -> TaskRow]
  BY <1>1, <1>2
<1>4. StdioTypes' /\ KnownBeforeItBegins'
  BY <1>1, <1>2, <1>3 DEF StdioIInv, StdioTypes, KnownBeforeItBegins
<1>5. ghost.early \in SUBSET RequestIds /\ ghost.ran \in SUBSET RequestIds
  BY DEF StdioIInv, StdioTypes
<1>6. EarlyIsRemembered' /\ RanHadBegun' /\ CancelIsNotMissed'
  BY <1>1, <1>2, <1>5 DEF StdioIInv, EarlyIsRemembered, RanHadBegun, CancelIsNotMissed
<1> QED BY <1>4, <1>6 DEF StdioIInv

\* A cancel read right behind its call always finds it: a call that is cancelled before its task has begun
\* never runs its tool (`register_inflight`, called by the reader and again by the task), however many calls,
\* registrations and endings of the session are interleaved with it.
THEOREM EarlyCancelStopsTheTool == StdioSpec => []CancelIsNotMissed
<1>1. StdioInit => StdioIInv
  <2> SUFFICES ASSUME StdioInit PROVE StdioIInv
    OBVIOUS
  <2>1. StdioTypes
    BY DEF StdioInit, StdioTypes, TaskRow, TaskStages
  <2> QED BY <2>1 DEF StdioInit, StdioIInv, KnownBeforeItBegins, EarlyIsRemembered, RanHadBegun, CancelIsNotMissed
<1>2. StdioIInv /\ [StdioNext]_stdioVars => StdioIInv'
  <2> SUFFICES ASSUME StdioIInv, [StdioNext]_stdioVars PROVE StdioIInv'
    OBVIOUS
  <2>1. CASE \E i \in RequestIds : ReaderStep(i) \/ TaskStep(i)
    BY <2>1, ReaderKeeps, TaskKeeps
  <2>2. CASE AbortTasks
    BY <2>2, AbortKeeps
  <2>3. CASE \/ ReadInitialized \/ QueueNote \/ WriteLine \/ WriteFailsStdio \/ InputEnds \/ ShutdownStdio \/ GraceEnds
             \/ FlushEnds \/ UNCHANGED stdioVars
    BY <2>3, StdioIdle DEF ReadInitialized, QueueNote, WriteLine, WriteFailsStdio, InputEnds, ShutdownStdio, GraceEnds,
                           FlushEnds, stdioVars
  <2> QED BY <2>1, <2>2, <2>3 DEF StdioNext, EndStep
<1>3. StdioIInv => CancelIsNotMissed
  BY DEF StdioIInv
<1> QED BY <1>1, <1>2, <1>3, PTL DEF StdioSpec

-----------------------------------------------------------------------------
(* ClientCalls: what the daemon sent is with the client or on its way.          *)

Frames == [kind : {"answer", "event"}, id : Nat]
CallRoles == {"calls", "subscribing", "stream", "consumed"}
CallRow == [next : Nat \ {0}, broken : BOOLEAN, flying : Nat, role : CallRoles, answered : SUBSET Nat]

\* How far the client is: nothing is pushed before it asks, and only a stream gives events out.
CallOk(c, p, e, s) ==
    /\ c \in CallRow
    /\ c.role = "calls" => p = <<>>
    /\ c.role \in {"calls", "subscribing"} => s = <<>>
    /\ c.role = "calls" => e = <<>>
    /\ c.role = "stream" => c.flying = 0

\* The events of `p`: the first `n` are with the client, the others are the event frames.
Coming(f) == {k \in DOMAIN f : f[k].kind = "event"}
OnTheWay(f, n, p) ==
    /\ \A k \in Coming(f) : f[k].id \in n + 1..Len(p)
    /\ \A i \in n + 1..Len(p) : \E k \in Coming(f) : f[k].id = i
    /\ \A j, k \in Coming(f) : j < k => f[j].id < f[k].id
CountsUp(s, n) == \A k \in DOMAIN s : s[k] = n + k

StreamOk(c, f, p, e, s) ==
    /\ f \in Seq(Frames) /\ p \in Seq(Nat) /\ e \in Seq(Nat) /\ s \in Seq(Nat)
    /\ CountsUp(p, 0)
    /\ c.role # "consumed" =>
         /\ CountsUp(s, 0) /\ CountsUp(e, Len(s)) /\ Len(s) + Len(e) <= Len(p)
         /\ OnTheWay(f, Len(s) + Len(e), p)

CallInv == CallOk(client, pushed, early, seen) /\ StreamOk(client, stream.frames, pushed, early, seen)
           /\ stream = [frames |-> stream.frames, half |-> stream.half]

LEMMA FrameTypes == \A id \in Nat : Answer(id) \in Frames /\ EventFrame(id) \in Frames
  BY DEF Answer, EventFrame, Frames

\* An answer at the end leaves the events on the way alone.
LEMMA AnswerComes ==
  ASSUME NEW f \in Seq(Frames), NEW n \in Nat, NEW p \in Seq(Nat), OnTheWay(f, n, p), NEW id \in Nat
  PROVE  OnTheWay(Append(f, Answer(id)), n, p)
<1> DEFINE g == Append(f, Answer(id))
<1>1. g \in Seq(Frames) /\ Len(g) = Len(f) + 1 /\ (\A k \in 1..Len(f) : g[k] = f[k]) /\ g[Len(f) + 1] = Answer(id)
  BY FrameTypes
<1>2. Answer(id).kind # "event"
  BY DEF Answer
<1>3. Coming(g) = Coming(f) /\ \A k \in Coming(f) : g[k] = f[k]
  BY <1>1, <1>2 DEF Coming
<1> HIDE DEF g
<1>4. OnTheWay(g, n, p)
  BY <1>3 DEF OnTheWay
<1> QED BY <1>4 DEF g

\* A new event comes after those on the way.
LEMMA EventComes ==
  ASSUME NEW f \in Seq(Frames), NEW n \in Nat, NEW p \in Seq(Nat), OnTheWay(f, n, p), n <= Len(p),
         NEW x \in Nat
  PROVE  OnTheWay(Append(f, EventFrame(Len(p) + 1)), n, Append(p, x))
<1> DEFINE g == Append(f, EventFrame(Len(p) + 1))
           q == Append(p, x)
<1>1. /\ g \in Seq(Frames) /\ Len(g) = Len(f) + 1 /\ (\A k \in 1..Len(f) : g[k] = f[k])
      /\ g[Len(f) + 1] = EventFrame(Len(p) + 1)
  BY FrameTypes
<1>2. EventFrame(Len(p) + 1).kind = "event" /\ EventFrame(Len(p) + 1).id = Len(p) + 1
  BY DEF EventFrame
<1>3. Coming(g) = Coming(f) \cup {Len(f) + 1} /\ (\A k \in Coming(f) : g[k] = f[k] /\ k \in 1..Len(f))
  BY <1>1, <1>2 DEF Coming
<1>4. Len(q) = Len(p) + 1 /\ g[Len(f) + 1].id = Len(p) + 1
  BY <1>1, <1>2
<1> HIDE DEF g, q
<1>5. \A k \in Coming(g) : g[k].id \in n + 1..Len(q)
  BY <1>3, <1>4 DEF OnTheWay
<1>6. ASSUME NEW i \in n + 1..Len(q) PROVE \E k \in Coming(g) : g[k].id = i
  <2>1. CASE i = Len(q)
    BY <2>1, <1>3, <1>4
  <2>2. CASE i # Len(q)
    <3>1. i \in n + 1..Len(p)
      BY <2>2, <1>4
    <3> QED BY <3>1, <1>3 DEF OnTheWay
  <2> QED BY <2>1, <2>2
<1>7. ASSUME NEW j \in Coming(g), NEW k \in Coming(g), j < k PROVE g[j].id < g[k].id
  <2>1. j \in Coming(f) /\ f[j].id \in n + 1..Len(p) /\ g[j] = f[j]
    BY <1>3, <1>7 DEF OnTheWay
  <2>2. CASE k = Len(f) + 1
    BY <2>1, <2>2, <1>4
  <2>3. CASE k # Len(f) + 1
    BY <2>1, <2>3, <1>3, <1>7 DEF OnTheWay
  <2> QED BY <2>2, <2>3
<1> QED BY <1>5, <1>6, <1>7 DEF OnTheWay, g, q

\* Reading a frame that is no event leaves the events on the way alone.
LEMMA AnswerRead ==
  ASSUME NEW f \in Seq(Frames), NEW n \in Nat, NEW p \in Seq(Nat), OnTheWay(f, n, p), f # <<>>,
         Head(f).kind # "event"
  PROVE  OnTheWay(Tail(f), n, p)
<1> DEFINE g == Tail(f)
<1>1. g \in Seq(Frames) /\ Len(g) = Len(f) - 1 /\ (\A k \in 1..Len(g) : g[k] = f[k + 1]) /\ Len(f) > 0
      /\ f[1].kind # "event"
  OBVIOUS
<1>2. \A k \in Coming(g) : k + 1 \in Coming(f) /\ g[k] = f[k + 1] /\ k \in Nat
  BY <1>1 DEF Coming
<1>3. \A k \in Coming(f) : k - 1 \in Coming(g) /\ g[k - 1] = f[k]
  BY <1>1 DEF Coming
<1> HIDE DEF g
<1>4. \A i \in n + 1..Len(p) : \E k \in Coming(g) : g[k].id = i
  BY <1>3 DEF OnTheWay
<1>5. \A k \in Coming(g) : g[k].id \in n + 1..Len(p)
  BY <1>2 DEF OnTheWay
<1>6. ASSUME NEW j \in Coming(g), NEW k \in Coming(g), j < k PROVE g[j].id < g[k].id
  <2>1. j + 1 < k + 1
    BY <1>2, <1>6
  <2> QED BY <2>1, <1>2 DEF OnTheWay
<1>7. OnTheWay(g, n, p)
  BY <1>4, <1>5, <1>6 DEF OnTheWay
<1> QED BY <1>7 DEF g

\* The first event frame is the next event, and reading it leaves those after it.
LEMMA EventRead ==
  ASSUME NEW f \in Seq(Frames), NEW n \in Nat, NEW p \in Seq(Nat), OnTheWay(f, n, p), f # <<>>,
         Head(f).kind = "event"
  PROVE  Head(f).id = n + 1 /\ n + 1 <= Len(p) /\ OnTheWay(Tail(f), n + 1, p)
<1> DEFINE g == Tail(f)
<1>1. g \in Seq(Frames) /\ Len(g) = Len(f) - 1 /\ (\A k \in 1..Len(g) : g[k] = f[k + 1]) /\ Len(f) > 0
      /\ Head(f) = f[1] /\ f[1].kind = "event"
  OBVIOUS
<1>2. \A k \in Coming(g) : k + 1 \in Coming(f) /\ g[k] = f[k + 1] /\ k \in 1..Len(g)
  BY <1>1 DEF Coming
<1>3. \A k \in Coming(f) : k = 1 \/ (k - 1 \in Coming(g) /\ g[k - 1] = f[k] /\ k > 1)
  BY <1>1 DEF Coming
<1>4. 1 \in Coming(f)
  BY <1>1 DEF Coming
<1> HIDE DEF g
<1>5. f[1].id \in n + 1..Len(p)
  BY <1>4 DEF OnTheWay
<1>6. f[1].id = n + 1
  <2>1. PICK k \in Coming(f) : f[k].id = n + 1
    BY <1>5 DEF OnTheWay
  <2>2. k = 1 \/ f[1].id < f[k].id
    BY <1>3, <1>4 DEF OnTheWay
  <2> QED BY <2>1, <2>2, <1>5
<1>7. \A k \in Coming(g) : g[k].id \in n + 2..Len(p)
  <2>1. ASSUME NEW k \in Coming(g) PROVE g[k].id \in n + 2..Len(p)
    <3>1. k + 1 \in Coming(f) /\ 1 < k + 1 /\ g[k] = f[k + 1]
      BY <1>2
    <3>2. f[k + 1].id \in n + 1..Len(p) /\ f[1].id < f[k + 1].id
      BY <3>1, <1>4 DEF OnTheWay
    <3> QED BY <3>1, <3>2, <1>6
  <2> QED BY <2>1
<1>8. ASSUME NEW i \in n + 2..Len(p) PROVE \E k \in Coming(g) : g[k].id = i
  <2>1. PICK k \in Coming(f) : f[k].id = i
    BY DEF OnTheWay
  <2>2. k # 1
    BY <2>1, <1>6
  <2> QED BY <2>1, <2>2, <1>3
<1>9. ASSUME NEW j \in Coming(g), NEW k \in Coming(g), j < k PROVE g[j].id < g[k].id
  <2>1. j + 1 < k + 1
    BY <1>2, <1>9
  <2> QED BY <2>1, <1>2 DEF OnTheWay
<1>10. (n + 1) + 1 = n + 2
  OBVIOUS
<1>11. OnTheWay(g, n + 1, p)
  BY <1>7, <1>8, <1>9, <1>10 DEF OnTheWay
<1>12. n + 1 <= Len(p)
  BY <1>5
<1> QED BY <1>1, <1>6, <1>11, <1>12 DEF g

\* Numbers in a row: one more at the end, and the first taken off.
LEMMA CountsAppend ==
  ASSUME NEW s \in Seq(Nat), NEW n \in Nat, CountsUp(s, n), NEW x \in Nat, x = n + Len(s) + 1
  PROVE  Append(s, x) \in Seq(Nat) /\ Len(Append(s, x)) = Len(s) + 1 /\ CountsUp(Append(s, x), n)
<1>1. Append(s, x) \in Seq(Nat) /\ Len(Append(s, x)) = Len(s) + 1
  OBVIOUS
<1>2. ASSUME NEW k \in DOMAIN Append(s, x) PROVE Append(s, x)[k] = n + k
  <2>1. k \in 1..Len(s) + 1
    BY <1>1
  <2>2. CASE k = Len(s) + 1
    BY <2>2
  <2>3. CASE k # Len(s) + 1
    <3>1. k \in DOMAIN s /\ Append(s, x)[k] = s[k]
      BY <2>1, <2>3
    <3> QED BY <3>1 DEF CountsUp
  <2> QED BY <2>2, <2>3
<1> QED BY <1>1, <1>2 DEF CountsUp

LEMMA CountsTail ==
  ASSUME NEW s \in Seq(Nat), NEW n \in Nat, CountsUp(s, n), s # <<>>
  PROVE  /\ Head(s) = n + 1 /\ Tail(s) \in Seq(Nat) /\ Len(s) = Len(Tail(s)) + 1
         /\ CountsUp(Tail(s), n + 1)
<1>1. Tail(s) \in Seq(Nat) /\ Len(s) = Len(Tail(s)) + 1 /\ Head(s) = s[1] /\ Len(s) > 0
  OBVIOUS
<1>2. s[1] = n + 1
  BY <1>1 DEF CountsUp
<1>3. ASSUME NEW k \in DOMAIN Tail(s) PROVE Tail(s)[k] = (n + 1) + k
  <2>1. k \in 1..Len(Tail(s)) /\ k + 1 \in DOMAIN s /\ Tail(s)[k] = s[k + 1]
    BY <1>1
  <2>2. s[k + 1] = n + (k + 1)
    BY <2>1 DEF CountsUp
  <2> QED BY <2>1, <2>2
<1> QED BY <1>1, <1>2, <1>3 DEF CountsUp

LEMMA FirstFrame ==
  ASSUME NEW f \in Seq(Frames), f # <<>>
  PROVE  Tail(f) \in Seq(Frames) /\ Head(f) \in Frames /\ Head(f).id \in Nat
<1>1. Tail(f) \in Seq(Frames) /\ Head(f) \in Frames
  OBVIOUS
<1> QED BY <1>1 DEF Frames

\* How a call ends.
LEMMA EndedTo ==
  ASSUME client \in CallRow, NEW how \in {"answered", "failed"}, Ended(how)
  PROVE  /\ client' \in CallRow /\ client'.flying = 0
         /\ client'.role = IF client.role # "subscribing" THEN client.role
                           ELSE IF how = "answered" THEN "stream" ELSE "consumed"
<1> DEFINE r == IF client.role # "subscribing" THEN client.role
                ELSE IF how = "answered" THEN "stream" ELSE "consumed"
<1>1. client' = [client EXCEPT !.flying = 0, !.broken = Settle(how), !.role = r]
  BY DEF Ended
<1>2. r \in CallRoles /\ Settle(how) \in BOOLEAN
  BY DEF CallRow, CallRoles, Settle
<1> HIDE DEF r
<1>3. client' \in CallRow /\ client'.flying = 0 /\ client'.role = r
  BY <1>1, <1>2 DEF CallRow
<1> QED BY <1>3 DEF r

LEMMA CallStep == CallInv /\ [CallsNext]_callVars => CallInv'
<1> SUFFICES ASSUME CallInv, [CallsNext]_callVars PROVE CallInv'
  OBVIOUS
<1> DEFINE f == stream.frames
<1>0. /\ client \in CallRow /\ f \in Seq(Frames) /\ pushed \in Seq(Nat) /\ early \in Seq(Nat) /\ seen \in Seq(Nat)
      /\ Len(seen) + Len(early) \in Nat /\ client.role \in CallRoles /\ client.flying \in Nat /\ client.next \in Nat \ {0}
      /\ client.answered \subseteq Nat /\ client.broken \in BOOLEAN
  BY DEF CallInv, CallOk, StreamOk, CallRow
<1>1. ASSUME NEW kind \in {"plain", "subscribe"}, Call(kind) PROVE CallInv'
  <2>1. client' \in CallRow /\ client'.role \in {client.role, "subscribing"} /\ client.role = "calls"
    <3>1. /\ client.role = "calls" /\ client.next \in Nat /\ client.next + 1 \in Nat \ {0}
          /\ client' = [client EXCEPT !.flying = client.next, !.next = client.next + 1, !.broken = TRUE,
                                !.role = IF kind = "subscribe" THEN "subscribing" ELSE client.role]
      BY <1>0, <1>1 DEF Call
    <3> QED BY <1>0, <3>1 DEF CallRow, CallRoles
  <2>2. UNCHANGED <<stream, pushed, early, seen>>
    BY <1>1 DEF Call
  <2>3. client'.role \in {"calls", "subscribing"}
    BY <2>1
  <2>4. CallOk(client, pushed, early, seen)'
    BY <2>1, <2>2, <2>3 DEF CallInv, CallOk
  <2>5. StreamOk(client, stream.frames, pushed, early, seen)'
    BY <2>1, <2>2, <2>3 DEF CallInv, StreamOk
  <2> QED BY <2>2, <2>4, <2>5 DEF CallInv
<1>2. ASSUME NEW id \in 1..MaxCalls, DaemonAnswers(id) PROVE CallInv'
  <2>0. id \in Nat
    BY <1>0, <1>2 DEF DaemonAnswers
  <2>1. client' \in CallRow /\ client'.role = client.role /\ client'.flying = client.flying
    BY <1>0, <1>2, <2>0 DEF DaemonAnswers, CallRow
  <2>2. UNCHANGED <<pushed, early, seen>> /\ stream' = [frames |-> Append(f, Answer(id)), half |-> stream.half]
    BY <1>2 DEF DaemonAnswers, CallInv
  <2>3. CallOk(client, pushed, early, seen)'
    BY <2>1, <2>2 DEF CallInv, CallOk
  <2>4. Append(f, Answer(id)) \in Seq(Frames)
    BY <1>0, <2>0, FrameTypes
  <2>5. client.role # "consumed" => OnTheWay(Append(f, Answer(id)), Len(seen) + Len(early), pushed)
    BY <1>0, <2>0, AnswerComes DEF CallInv, StreamOk
  <2>6. StreamOk(client, stream.frames, pushed, early, seen)'
    BY <2>1, <2>2, <2>4, <2>5 DEF CallInv, StreamOk
  <2> QED BY <2>2, <2>3, <2>6 DEF CallInv
<1>3. CASE DaemonPushes
  <2>1. client.role \in {"subscribing", "stream"} /\ pushed' = Append(pushed, Len(pushed) + 1)
        /\ UNCHANGED <<client, early, seen>>
        /\ stream' = [frames |-> Append(f, EventFrame(Len(pushed) + 1)), half |-> stream.half]
    BY <1>3 DEF DaemonPushes, CallInv
  <2>2. Append(f, EventFrame(Len(pushed) + 1)) \in Seq(Frames) /\ pushed' \in Seq(Nat) /\ Len(pushed') = Len(pushed) + 1
    BY <1>0, <2>1, FrameTypes
  <2>3. Len(seen) + Len(early) <= Len(pushed) /\ OnTheWay(f, Len(seen) + Len(early), pushed) /\ CountsUp(pushed, 0)
    BY <2>1 DEF CallInv, StreamOk
  <2>4. OnTheWay(Append(f, EventFrame(Len(pushed) + 1)), Len(seen) + Len(early), pushed')
    BY <1>0, <2>1, <2>3, EventComes
  <2>5. CountsUp(pushed', 0)
    BY <1>0, <2>1, <2>3 DEF CountsUp
  <2>6. CallOk(client, pushed, early, seen)'
    BY <2>1, <2>2 DEF CallInv, CallOk
  <2>7. StreamOk(client, stream.frames, pushed, early, seen)'
    BY <1>0, <2>1, <2>2, <2>3, <2>4, <2>5 DEF CallInv, StreamOk
  <2> QED BY <2>1, <2>6, <2>7 DEF CallInv
<1>4. CASE ReadHalf
  <2>1. UNCHANGED <<client, pushed, early, seen>> /\ stream' = [frames |-> f, half |-> TRUE]
    BY <1>4 DEF ReadHalf, CallInv
  <2> QED BY <2>1 DEF CallInv
<1>5. ASSUME stream.frames # <<>>, ReadInCall PROVE CallInv'
  <2>1. /\ stream' = [frames |-> Tail(f), half |-> FALSE] /\ UNCHANGED <<pushed, seen>> /\ client.flying # 0
        /\ early' = KeepEarly(Head(f))
        /\ IF Head(f) = Answer(client.flying) THEN Ended("answered") ELSE UNCHANGED client
    BY <1>5 DEF ReadInCall, Rest
  <2>2. Tail(f) \in Seq(Frames) /\ Head(f) \in Frames /\ Head(f).id \in Nat
    BY <1>0, <1>5, FirstFrame
  <2>3. client.role # "stream"
    BY <2>1 DEF CallInv, CallOk
  <2>4. CASE Head(f).kind = "event"
    <3>1. Head(f) # Answer(client.flying)
      BY <2>4 DEF Answer
    <3>2. UNCHANGED client
      BY <2>1, <3>1
    <3>3. CASE client.role = "subscribing"
      <4>1. early' = Append(early, Head(f).id)
        BY <2>1, <2>4, <3>3 DEF KeepEarly
      <4>2. OnTheWay(f, Len(seen) + Len(early), pushed) /\ CountsUp(seen, 0) /\ CountsUp(early, Len(seen))
        BY <3>3 DEF CallInv, StreamOk
      <4>3. Head(f).id = Len(seen) + Len(early) + 1 /\ Len(seen) + Len(early) + 1 <= Len(pushed)
            /\ OnTheWay(Tail(f), Len(seen) + Len(early) + 1, pushed)
        BY <1>0, <1>5, <2>4, <4>2, EventRead
      <4>4. early' \in Seq(Nat) /\ Len(early') = Len(early) + 1 /\ CountsUp(early', Len(seen))
        <5>1. Len(seen) \in Nat /\ Head(f).id = Len(seen) + Len(early) + 1 /\ CountsUp(early, Len(seen))
          BY <1>0, <4>2, <4>3
        <5> QED BY <1>0, <2>2, <4>1, <5>1, CountsAppend
      <4>6. Len(seen) + Len(early') = Len(seen) + Len(early) + 1
        BY <1>0, <4>4
      <4>7. CallOk(client, pushed, early, seen)'
        BY <2>1, <3>2, <3>3, <4>4 DEF CallInv, CallOk
      <4>8. StreamOk(client, stream.frames, pushed, early, seen)'
        BY <2>1, <2>2, <3>2, <4>2, <4>3, <4>4, <4>6 DEF CallInv, StreamOk
      <4> QED BY <2>1, <4>7, <4>8 DEF CallInv
    <3>4. CASE client.role = "calls"
      <4>1. OnTheWay(f, Len(seen) + Len(early), pushed) /\ pushed = <<>>
        BY <3>4 DEF CallInv, StreamOk, CallOk
      <4>2. Len(seen) + Len(early) + 1 <= Len(pushed)
        BY <1>0, <1>5, <2>4, <4>1, EventRead
      <4> QED BY <1>0, <4>1, <4>2
    <3>5. CASE client.role = "consumed"
      <4>1. early' = early
        BY <2>1, <3>5 DEF KeepEarly
      <4>2. CallOk(client, pushed, early, seen)'
        BY <2>1, <3>2, <4>1 DEF CallInv, CallOk
      <4>3. StreamOk(client, stream.frames, pushed, early, seen)'
        BY <2>1, <2>2, <3>2, <3>5, <4>1 DEF CallInv, StreamOk
      <4> QED BY <2>1, <4>2, <4>3 DEF CallInv
    <3> QED BY <1>0, <2>3, <3>3, <3>4, <3>5 DEF CallRoles
  <2>5. CASE Head(f).kind # "event"
    <3>1. early' = early
      BY <2>1, <2>5 DEF KeepEarly
    <3>2. client.role # "consumed" => OnTheWay(Tail(f), Len(seen) + Len(early), pushed)
      BY <1>0, <1>5, <2>5, AnswerRead DEF CallInv, StreamOk
    <3>3. CASE Head(f) = Answer(client.flying)
      <4>1. Ended("answered")
        BY <2>1, <3>3
      <4>2. client' \in CallRow /\ client'.flying = 0
            /\ client'.role = IF client.role = "subscribing" THEN "stream" ELSE client.role
        BY <1>0, <4>1, EndedTo
      <4>3. (client'.role = "calls" <=> client.role = "calls") /\ (client'.role = "consumed" <=> client.role = "consumed")
            /\ client'.role # "subscribing"
        BY <4>2
      <4>4. CallOk(client, pushed, early, seen)'
        BY <2>1, <3>1, <4>2, <4>3 DEF CallInv, CallOk
      <4>5. StreamOk(client, stream.frames, pushed, early, seen)'
        BY <2>1, <2>2, <3>1, <3>2, <4>3 DEF CallInv, StreamOk
      <4> QED BY <2>1, <4>4, <4>5 DEF CallInv
    <3>4. CASE Head(f) # Answer(client.flying)
      <4>1. UNCHANGED client
        BY <2>1, <3>4
      <4>4. CallOk(client, pushed, early, seen)'
        BY <2>1, <3>1, <4>1 DEF CallInv, CallOk
      <4>5. StreamOk(client, stream.frames, pushed, early, seen)'
        BY <2>1, <2>2, <3>1, <3>2, <4>1 DEF CallInv, StreamOk
      <4> QED BY <2>1, <4>4, <4>5 DEF CallInv
    <3> QED BY <3>3, <3>4
  <2> QED BY <2>4, <2>5
<1>6. CASE CallFails
  <2>1. /\ UNCHANGED <<stream, pushed, early, seen>> /\ client.flying # 0
        /\ Ended("failed")
    BY <1>6 DEF CallFails
  <2>2. client' \in CallRow /\ client'.flying = 0
        /\ client'.role = IF client.role = "subscribing" THEN "consumed" ELSE client.role
    BY <1>0, <2>1, EndedTo
  <2>3. (client'.role = client.role /\ client.role # "subscribing") \/ client'.role = "consumed"
    BY <2>2
  <2>4. CallOk(client, pushed, early, seen)'
    BY <2>1, <2>2, <2>3 DEF CallInv, CallOk
  <2>5. StreamOk(client, stream.frames, pushed, early, seen)'
    BY <2>1, <2>3 DEF CallInv, StreamOk
  <2> QED BY <2>1, <2>4, <2>5 DEF CallInv
<1>7. CASE NextEarly
  <2>1. client.role = "stream" /\ early # <<>> /\ UNCHANGED <<client, stream, pushed>>
        /\ seen' = Append(seen, Head(early)) /\ early' = Tail(early)
    BY <1>7 DEF NextEarly
  <2>2. CountsUp(seen, 0) /\ CountsUp(early, Len(seen)) /\ Len(seen) + Len(early) <= Len(pushed)
        /\ OnTheWay(f, Len(seen) + Len(early), pushed)
    BY <2>1 DEF CallInv, StreamOk
  <2>3. /\ Head(early) = Len(seen) + 1 /\ early' \in Seq(Nat) /\ Len(early) = Len(early') + 1
        /\ CountsUp(early', Len(seen) + 1)
    <3>1. Len(seen) \in Nat
      BY <1>0
    <3> QED BY <1>0, <2>1, <2>2, <3>1, CountsTail
  <2>4. seen' \in Seq(Nat) /\ Len(seen') = Len(seen) + 1 /\ CountsUp(seen', 0)
    <3>1. Head(early) \in Nat /\ Head(early) = 0 + Len(seen) + 1
      BY <1>0, <2>3
    <3> QED BY <1>0, <2>1, <2>2, <3>1, CountsAppend
  <2>7. Len(seen') + Len(early') = Len(seen) + Len(early)
    BY <1>0, <2>3, <2>4
  <2>8. CallOk(client, pushed, early, seen)'
    BY <2>1 DEF CallInv, CallOk
  <2>9. StreamOk(client, stream.frames, pushed, early, seen)'
    BY <2>1, <2>2, <2>3, <2>4, <2>7 DEF CallInv, StreamOk
  <2> QED BY <2>1, <2>8, <2>9 DEF CallInv
<1>8. ASSUME stream.frames # <<>>, NextRead PROVE CallInv'
  <2>1. /\ stream' = [frames |-> Tail(f), half |-> FALSE] /\ UNCHANGED <<client, pushed, early>> /\ early = <<>>
        /\ client.role = "stream"
        /\ seen' = IF Head(f).kind = "event" THEN Append(seen, Head(f).id) ELSE seen
    BY <1>8 DEF NextRead, Rest
  <2>2. CountsUp(seen, 0) /\ Len(seen) + Len(early) <= Len(pushed) /\ OnTheWay(f, Len(seen) + Len(early), pushed)
    BY <2>1 DEF CallInv, StreamOk
  <2>3. Tail(f) \in Seq(Frames) /\ Head(f) \in Frames /\ Head(f).id \in Nat
    BY <1>0, <1>8, FirstFrame
  <2>4. CallOk(client, pushed, early, seen)'
    BY <2>1 DEF CallInv, CallOk
  <2>5. CASE Head(f).kind = "event"
    <3>1. seen' = Append(seen, Head(f).id)
      BY <2>1, <2>5
    <3>2. Head(f).id = Len(seen) + Len(early) + 1 /\ Len(seen) + Len(early) + 1 <= Len(pushed)
            /\ OnTheWay(Tail(f), Len(seen) + Len(early) + 1, pushed)
      BY <1>0, <1>8, <2>5, <2>2, EventRead
    <3>3. seen' \in Seq(Nat) /\ Len(seen') = Len(seen) + 1 /\ Len(early) = 0
      BY <1>0, <2>3, <3>1, <2>1
    <3>4. CountsUp(seen', 0)
      BY <1>0, <2>2, <2>3, <3>1, <3>2, <3>3 DEF CountsUp
    <3>5. Len(seen') + Len(early) = Len(seen) + Len(early) + 1 /\ CountsUp(early, Len(seen'))
      BY <1>0, <2>1, <3>3 DEF CountsUp
    <3>6. StreamOk(client, stream.frames, pushed, early, seen)'
      BY <2>1, <2>3, <3>2, <3>3, <3>4, <3>5 DEF CallInv, StreamOk
    <3> QED BY <2>1, <2>4, <3>6 DEF CallInv
  <2>6. CASE Head(f).kind # "event"
    <3>1. OnTheWay(Tail(f), Len(seen) + Len(early), pushed)
      BY <1>0, <1>8, <2>6, <2>2, AnswerRead
    <3>2. seen' = seen
      BY <2>1, <2>6
    <3>3. StreamOk(client, stream.frames, pushed, early, seen)'
      BY <2>1, <2>3, <3>1, <3>2 DEF CallInv, StreamOk
    <3> QED BY <2>1, <2>4, <3>3 DEF CallInv
  <2> QED BY <2>5, <2>6
<1>9. CASE UNCHANGED callVars
  BY <1>9 DEF callVars, CallInv
<1> QED BY <1>1, <1>2, <1>3, <1>4, <1>5, <1>6, <1>7, <1>8, <1>9 DEF CallsNext

LEMMA CallInvariant == CallsSpec => []CallInv
<1>1. CallsInit => CallInv
  <2> SUFFICES ASSUME CallsInit PROVE CallInv
    OBVIOUS
  <2>1. client \in CallRow /\ client.role = "calls" /\ client.flying = 0
    BY DEF CallsInit, CallRow, CallRoles
  <2>2. stream.frames = <<>> /\ stream = [frames |-> stream.frames, half |-> stream.half]
        /\ pushed = <<>> /\ early = <<>> /\ seen = <<>>
    BY DEF CallsInit
  <2>3. CallOk(client, pushed, early, seen)
    BY <2>1, <2>2 DEF CallOk
  <2>4. StreamOk(client, stream.frames, pushed, early, seen)
    BY <2>2 DEF StreamOk, CountsUp, OnTheWay, Coming
  <2> QED BY <2>2, <2>3, <2>4 DEF CallInv
<1> QED BY <1>1, CallStep, PTL DEF CallsSpec

\* A subscriber's events are what the daemon sent, all and in order: what `next` gave out and
\* what the subscription kept are the first of them, and the frames still to read the others
\* (`exchange_subscribe`, `Subscription::next`), with any number of calls before it.
THEOREM SubscriberMissesNone == CallsSpec => []NoEventIsPassedOver
<1>1. CallInv => NoEventIsPassedOver
  <2> SUFFICES ASSUME CallInv, client.role = "stream" PROVE NoEventIsPassedOver
    BY DEF NoEventIsPassedOver
  <2> DEFINE known == seen \o early
             g == stream.frames
  <2>1. g \in Seq(Frames) /\ pushed \in Seq(Nat) /\ early \in Seq(Nat) /\ seen \in Seq(Nat)
    BY DEF CallInv, StreamOk
  <2>2. /\ CountsUp(pushed, 0) /\ CountsUp(seen, 0) /\ CountsUp(early, Len(seen)) /\ Len(seen) + Len(early) <= Len(pushed)
        /\ OnTheWay(g, Len(seen) + Len(early), pushed)
    BY DEF CallInv, StreamOk
  <2>3. Len(known) = Len(seen) + Len(early) /\ known \in Seq(Nat)
    BY <2>1
  <2>4. ASSUME NEW k \in DOMAIN known PROVE k <= Len(pushed) /\ known[k] = pushed[k]
    <3>1. k \in 1..Len(seen) + Len(early)
      BY <2>3
    <3>2. pushed[k] = k /\ k <= Len(pushed)
      BY <2>1, <2>2, <3>1 DEF CountsUp
    <3>3. known[k] = k
      <4>1. CASE k <= Len(seen)
        BY <2>1, <2>2, <3>1, <4>1 DEF CountsUp
      <4>2. CASE k > Len(seen)
        <5>1. known[k] = early[k - Len(seen)] /\ k - Len(seen) \in 1..Len(early)
          BY <2>1, <3>1, <4>2
        <5> QED BY <2>1, <2>2, <3>1, <5>1 DEF CountsUp
      <4> QED BY <2>1, <3>1, <4>1, <4>2
    <3> QED BY <3>2, <3>3
  <2>5. {g[k].id : k \in Coming(g)} = Len(known) + 1..Len(pushed)
    BY <2>2, <2>3 DEF OnTheWay
  <2>6. \A j, k \in Coming(g) : j < k => g[j].id < g[k].id
    BY <2>2 DEF OnTheWay
  <2> HIDE DEF known
  <2> QED BY <2>4, <2>5, <2>6 DEF NoEventIsPassedOver, known, Coming
<1> QED BY <1>1, CallInvariant, PTL

==============================================================================
