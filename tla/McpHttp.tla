------------------------------ MODULE McpHttp ------------------------------
(***************************************************************************)
(* The HTTP front-end of the MCP server and its token file.  The file is     *)
(* edited by other processes under a lock file; the server keeps a copy, with *)
(* one peer per token, and looks at the file's stamp on every request.        *)
(***************************************************************************)
EXTENDS Integers, FiniteSets

CONSTANTS
    Tokens,   \* token entries, each made once
    Editors,  \* `agora mcp token add | revoke` processes
    Posts     \* HTTP requests

VARIABLES
    tokenFile,  \* the entries of the file, its stamp, and the holder of its lock
    editor,     \* what each editor is doing
    front,      \* the server: its copy, the peers, the lock on them, how far it is stopped
    post        \* each request

httpVars == <<tokenFile, editor, front, post>>

NoOne == "no one"

ASSUME HttpAssumption == NoOne \notin Editors /\ NoOne \notin Posts

\* What editors have finished: tokens made and revoked.
Made    == {t \in Tokens : \E e \in Editors : editor[e].done /\ editor[e].op = "add" /\ editor[e].token = t}
Revoked == {t \in Tokens : \E e \in Editors : editor[e].done /\ editor[e].op = "revoke" /\ editor[e].token = t}

-----------------------------------------------------------------------------
(* Edits of the token file.                                                    *)

\* Faulty: the lock file is not used.
TakeTokenLockNever(e) == TRUE
\* `lock_token_file`: one editor at a time, from its load to its save.
TakeTokenLock(e) == tokenFile.holder = NoOne

\* add and revoke load the file; only an entry that is there can be removed.
LoadForEdit(e, op, t) ==
    /\ editor[e].stage = "idle" /\ TakeTokenLock(e)
    /\ IF op = "add" THEN \A f \in Editors : editor[f].token # t ELSE t \in Made
    /\ tokenFile' = [tokenFile EXCEPT !.holder = e]
    /\ editor' = [editor EXCEPT ![e] = [stage |-> "loaded", op |-> op, token |-> t, base |-> tokenFile.entries, done |-> FALSE]]
    /\ UNCHANGED <<front, post>>

\* A new file is renamed over the old one, so its stamp is new; nothing removed, nothing saved.
SaveEdit(e) ==
    /\ editor[e].stage = "loaded"
    /\ LET after == IF editor[e].op = "add" THEN editor[e].base \cup {editor[e].token}
                    ELSE editor[e].base \ {editor[e].token}
       IN  tokenFile' = IF after = editor[e].base THEN [tokenFile EXCEPT !.holder = NoOne]
                        ELSE [entries |-> after, stamp |-> tokenFile.stamp + 1, holder |-> NoOne]
    /\ editor' = [editor EXCEPT ![e].stage = "over", ![e].done = TRUE]
    /\ UNCHANGED <<front, post>>

\* An unreadable file, a failed temporary file: the entries stay as they were.
EditFails(e) ==
    /\ editor[e].stage = "loaded"
    /\ tokenFile' = [tokenFile EXCEPT !.holder = NoOne]
    /\ editor' = [editor EXCEPT ![e].stage = "over"]
    /\ UNCHANGED <<front, post>>

-----------------------------------------------------------------------------
(* A request.                                                                  *)

Reply(p, code) == post' = [post EXCEPT ![p].stage = "over", ![p].code = code]
Holds(p) == front.lock = p
Unlock(f) == [f EXCEPT !.lock = NoOne]

\* Origin, Host and preflight come before any credential: 403, 204; no bearer is 401.
Arrive(p, t) ==
    /\ post[p].stage = "idle" /\ front.stop # "stopped"
    /\ post' = [post EXCEPT ![p] = [stage |-> "auth", token |-> t, late |-> t \in Revoked, served |-> FALSE, code |-> 0]]
    /\ UNCHANGED <<tokenFile, editor, front>>

TurnedAway(p, code) ==
    /\ post[p].stage = "auth" /\ ~Holds(p) /\ code \in {403, 204, 401}
    /\ Reply(p, code) /\ UNCHANGED <<tokenFile, editor, front>>

\* Faulty: the stamp kept is the one the file has after it was read.
StampKeptLate(stamp) == tokenFile.stamp
\* The stamp kept is the one read before the file.
StampKept(stamp) == stamp

\* `refresh`, first half: the stamp, under the cache's lock.
StatTokens(p) ==
    /\ post[p].stage = "auth" /\ front.lock = NoOne
    /\ front' = [front EXCEPT !.lock = p, !.seen = tokenFile.stamp]
    /\ post' = [post EXCEPT ![p].stage = IF front.loaded /\ front.stamp = tokenFile.stamp THEN "verify" ELSE "load"]
    /\ UNCHANGED <<tokenFile, editor>>

\* Then the entries are read, and with the stamp the peers of removed ones are cancelled and
\* forgotten.
ReadTokens(p) ==
    /\ post[p].stage = "load"
    /\ front' = [front EXCEPT !.loaded = TRUE, !.entries = tokenFile.entries]
    /\ post' = [post EXCEPT ![p].stage = "retain"]
    /\ UNCHANGED <<tokenFile, editor>>
RetainPeers(p) ==
    /\ post[p].stage = "retain"
    /\ front' = [front EXCEPT !.stamp = StampKept(front.seen), !.peers = @ \cap front.entries,
                              !.ended = @ \cup (front.peers \ front.entries)]
    /\ post' = [post EXCEPT ![p].stage = "verify"]
    /\ UNCHANGED <<tokenFile, editor>>

\* An unreadable file leaves the copy as it was: 500.
LoadTokensFails(p) ==
    /\ post[p].stage = "load" /\ front' = Unlock(front)
    /\ Reply(p, 500) /\ UNCHANGED <<tokenFile, editor>>

\* A peer made after the stop began gets no time to serve anything.
BornEnded(t) == IF front.stop # "no" /\ t \notin front.peers THEN {t} ELSE {}

\* A known token finds or makes its peer; the lock is released.
Authenticate(p) ==
    /\ post[p].stage = "verify"
    /\ LET t == post[p].token IN
       IF t \in front.entries
       THEN /\ front' = Unlock([front EXCEPT !.peers = @ \cup {t}, !.ended = @ \cup BornEnded(t)])
            /\ post' = [post EXCEPT ![p].stage = "shape", ![p].served = TRUE]
       ELSE front' = Unlock(front) /\ Reply(p, 401)
    /\ UNCHANGED <<tokenFile, editor>>

\* Method, media types, size, an unreadable or invalid body; notifications are only accepted.
Misshapen(p, code) ==
    /\ post[p].stage = "shape" /\ code \in {405, 415, 406, 413, 400, 202}
    /\ Reply(p, code) /\ UNCHANGED <<tokenFile, editor, front>>

\* The call runs in a task of its own; with progress its answer is a stream.
StartCall(p, streamed) ==
    /\ post[p].stage = "shape"
    /\ post' = [post EXCEPT ![p].stage = IF streamed THEN "stream" ELSE "call"]
    /\ UNCHANGED <<tokenFile, editor, front>>

\* `status_for` of the answer; a panic is 500.  What has begun to stream is 200.
CallEnds(p, code) ==
    /\ post[p].stage \in {"call", "stream"} /\ code \in {200, 400, 404, 500}
    /\ Reply(p, IF post[p].stage = "stream" THEN 200 ELSE code) /\ UNCHANGED <<tokenFile, editor, front>>

\* The peer is cancelled, or the server is stopped hard: no request outlives them.
CallCancelled(p) ==
    /\ post[p].stage \in {"call", "stream"} /\ (post[p].token \in front.ended \/ front.stop = "stopped")
    /\ Reply(p, 503) /\ UNCHANGED <<tokenFile, editor, front>>

\* What a hard stop finds between two awaits is answered and closed.
HardStopped(p) ==
    /\ front.stop = "stopped" /\ post[p].stage \in {"auth", "shape"}
    /\ Reply(p, 503) /\ UNCHANGED <<tokenFile, editor, front>>

-----------------------------------------------------------------------------
\* The stop: first the signal, then (under the lock) every peer; then the drain limit.
BeginStop ==
    /\ front.stop = "no" /\ front' = [front EXCEPT !.stop = "begun"]
    /\ UNCHANGED <<tokenFile, editor, post>>
CancelPeers ==
    /\ front.stop = "begun" /\ front.lock = NoOne
    /\ front' = [front EXCEPT !.stop = "cancelled", !.ended = @ \cup front.peers]
    /\ UNCHANGED <<tokenFile, editor, post>>
HardStop ==
    /\ front.stop = "cancelled" /\ front.lock = NoOne
    /\ front' = [front EXCEPT !.stop = "stopped", !.ended = @ \cup front.peers]
    /\ UNCHANGED <<tokenFile, editor, post>>

EditStep(e) == SaveEdit(e) \/ EditFails(e) \/ \E op \in {"add", "revoke"}, t \in Tokens : LoadForEdit(e, op, t)
PostStep(p) ==
    \/ \E t \in Tokens : Arrive(p, t)
    \/ (\E code \in {403, 401} : TurnedAway(p, code)) \/ (\E code \in {405} : Misshapen(p, code))
    \/ StatTokens(p) \/ ReadTokens(p) \/ RetainPeers(p) \/ LoadTokensFails(p) \/ Authenticate(p)
    \/ (\E s \in BOOLEAN : StartCall(p, s)) \/ (\E code \in {200, 404} : CallEnds(p, code))
    \/ CallCancelled(p) \/ HardStopped(p)
StopStep == BeginStop \/ CancelPeers \/ HardStop

HttpInit ==
    /\ tokenFile = [entries |-> {}, stamp |-> 0, holder |-> NoOne]
    /\ editor = [e \in Editors |-> [stage |-> "idle", op |-> "none", token |-> "none", base |-> {}, done |-> FALSE]]
    /\ front = [loaded |-> FALSE, stamp |-> 0, seen |-> 0, entries |-> {}, peers |-> {}, ended |-> {},
                lock |-> NoOne, stop |-> "no"]
    /\ post = [p \in Posts |-> [stage |-> "idle", token |-> "none", late |-> FALSE, served |-> FALSE, code |-> 0]]

HttpNext == (\E e \in Editors : EditStep(e)) \/ (\E p \in Posts : PostStep(p)) \/ StopStep
HttpSpec == HttpInit /\ [][HttpNext]_httpVars

-----------------------------------------------------------------------------
\* Edits by several processes do not undo each other: a token made and not revoked is in the
\* file, a revoked one is not.
TokenEditsSurvive ==
    \A t \in Tokens : /\ t \in Made /\ (\A e \in Editors : editor[e].op = "revoke" => editor[e].token # t) => t \in tokenFile.entries
                      /\ t \in Revoked => t \notin tokenFile.entries

\* "a revoked token's next request is refused at once": a request that came after the revoke
\* is never served, whatever the server read before, during or after the edit.
RevokedIsRefused == \A p \in Posts : post[p].late => ~post[p].served

=============================================================================
