------------------------------ MODULE Install ------------------------------
(***************************************************************************)
(* `agora install` and `agora uninstall`: the command runs over a list of      *)
(* agent clients; for each client it reads every file it will edit, computes    *)
(* the new contents, then writes the files one after the other, and last it     *)
(* records the clients it served in capabilities.json.  A write can fail, and   *)
(* the command can be killed between any two writes.  Clients share files: the  *)
(* block in a project's AGENTS.md, the Copilot hooks file and instructions.     *)
(*                                                                             *)
(* A file's content is abstracted to what is agora's in it: None, the           *)
(* executable an entry names, "foreign" for an entry or file of that name which  *)
(* is not agora's, "block" for the managed block, "markers" for a text whose     *)
(* markers do not pair.  A hooks file that merges is a sequence of groups of     *)
(* handlers of one event.  Files in `broken` cannot be read (a symlink, not      *)
(* JSON).  A capabilities.json that does not load counts as an empty one.        *)
(***************************************************************************)
EXTENDS Naturals, Sequences, FiniteSets, Functions

CONSTANTS Exes,     \* paths the agora executable is run from
          Crews,    \* the groups of clients that one user sets up
          MaxRuns,  \* commands run
          MaxEdits  \* hooks the user adds

VARIABLES disk,      \* the content of each file
          broken,    \* files that cannot be read
          capsFile,  \* capabilities.json
          setup,     \* the clients of this machine and the command under way
          settled,   \* <<client, scope>> whose install was recorded and not taken up again
          spent      \* commands run and hooks added so far

installVars == <<disk, broken, capsFile, setup, settled, spent>>

Nothing == "nothing"
NoFile  == <<"none", "none">>
Scopes  == {"user", "project"}
Other(s) == IF s = "user" THEN "project" ELSE "user"
Client  == {"claude", "codex", "copilot", "vscode", "agy", "opencode", "cursor"}

\* What is agora's is told from anything else that a file may hold.
ASSUME InstallAssumption ==
    /\ Exes \cap {Nothing, "foreign", "markers", "jsonc", "block", "user"} = {}
    /\ Crews \subseteq SUBSET Client

\* The files of a client in a scope (the table of paths.rs).
Target(c, s) ==
    CASE c = "codex"    -> [mcp |-> <<"codex.toml", s>>, hooks |-> <<"codex.hooks", s>>,
                            text |-> <<IF s = "project" THEN "AGENTS" ELSE "codex.AGENTS", s>>]
      [] c = "agy"      -> [mcp |-> <<"agy.mcp", s>>, hooks |-> <<"agy.hooks", s>>,
                            text |-> <<IF s = "project" THEN "AGENTS" ELSE "agy.AGENTS", s>>]
      [] c = "opencode" -> [mcp |-> <<"opencode.json", s>>, hooks |-> NoFile,
                            text |-> <<IF s = "project" THEN "AGENTS" ELSE "opencode.AGENTS", s>>]
      [] c = "copilot"  -> [mcp |-> <<"copilot.mcp", s>>, hooks |-> <<"copilot.hooks", s>>, text |-> <<"copilot.text", s>>]
      [] c = "vscode"   -> [mcp |-> <<"vscode.mcp", s>>, hooks |-> <<"copilot.hooks", s>>,
                            text |-> <<IF s = "project" THEN "copilot.text" ELSE "vscode.rule", s>>]
      [] c = "cursor"   -> [mcp |-> <<"cursor.mcp", s>>, hooks |-> <<"cursor.hooks", s>>,
                            text |-> IF s = "project" THEN <<"cursor.rule", s>> ELSE NoFile]
      [] c = "claude"   -> [mcp |-> <<"claude.mcp", s>>, hooks |-> <<"claude.settings", s>>, text |-> <<"claude.market", "home">>]
ScopeFiles(c, s) == {Target(c, s).mcp, Target(c, s).hooks, Target(c, s).text} \ {NoFile}

\* Files agora owns whole, as opposed to a block in a shared text.
Owned(f) == f[1] \in {"cursor.rule", "vscode.rule", "copilot.hooks"}
Read(fs) == fs \cap broken = {}

(***************************************************************************)
(* Merging: what is agora's is replaced in place, the rest is left alone.      *)
(***************************************************************************)
IsOurs(h) == h \in Exes
Places(gs) == {p \in (1 .. Len(gs)) \X (1 .. 3) : p[2] \in DOMAIN gs[p[1]]}
OursIn(gs) == {p \in Places(gs) : IsOurs(gs[p[1]][p[2]])}
FirstOf(ps) == CHOOSE p \in ps : \A q \in ps : p[1] < q[1] \/ (p[1] = q[1] /\ p[2] <= q[2])

MergeHooks(gs, x) ==
    IF \E p \in Places(gs) : gs[p[1]][p[2]] = x THEN gs
    ELSE IF OursIn(gs) = {} THEN Append(gs, <<x>>)
    ELSE LET p == FirstOf(OursIn(gs)) IN [gs EXCEPT ![p[1]][p[2]] = x]

\* The elements of a sequence that are in a set, in their order.
Only(s, T) ==
    LET at == {i \in DOMAIN s : s[i] \in T}
    IN [k \in 1 .. Cardinality(at) |-> s[CHOOSE i \in at : Cardinality({j \in at : j < i}) = k - 1]]
RemoveHooks(gs) ==
    LET Keep(g) == Only(g, {h \in Range(g) : ~IsOurs(h)})
        Stays(g) == Keep(g) = g \/ Keep(g) # <<>>
        kept == Only(gs, {g \in Range(gs) : Stays(g)})
    IN [i \in DOMAIN kept |-> Keep(kept[i])]

\* Cursor's hooks are a list of handlers without groups: groups of one.
MergeFlatHooks(gs, x) == MergeHooks(gs, x)
RemoveFlatHooks(gs)   == RemoveHooks(gs)
\* Claude keeps its hooks in the settings, beside the plugin's switch.
MergeSettingsHooks(st, x) == [st EXCEPT !.hooks = MergeHooks(@, x)]
RemoveSettingsHooks(st)   == [st EXCEPT !.hooks = RemoveHooks(@)]
EnablePlugin(st) == [st EXCEPT !.plugin = TRUE]
UnsetPlugin(st)  == [st EXCEPT !.plugin = FALSE]

RemoveServer(v) == IF IsOurs(v) THEN Nothing ELSE v
RemoveBlock(v)  == IF v = "block" THEN Nothing ELSE v

\* Codex runs a hook only if the user's config holds the hash of the handler under the handler's place.
TrustEntries(s, gs, x) ==
    LET at == {p \in Places(gs) : gs[p[1]][p[2]] = x}
    IN IF Cardinality(at) = 1 THEN {[of |-> s, at |-> p, hash |-> x] : p \in at} ELSE {}
SameKey(t, u) == t.of = u.of /\ t.at = u.at
SetTrust(ts, es) == {t \in ts : ~\E u \in es : SameKey(t, u)} \union es
RemoveTrust(ts, es) == {t \in ts : ~\E u \in es : SameKey(t, u)}

(***************************************************************************)
(* One client's part of a command: the writes it makes, in order, or a refusal. *)
(***************************************************************************)
W(f, v) == <<[file |-> f, to |-> v]>>
Refuse  == W(<<"refuse", "none">>, Nothing)
FileSharedNever(caps, f, c) == FALSE
FileShared(caps, f, c) == \E o \in Client \ {c} : f \in caps.entry[o].files

CodexInstall(r) ==
    LET t == Target("codex", r.scope)   user == Target("codex", "user").mcp
        gs == MergeHooks(disk[t.hooks], r.exe)
        es == TrustEntries(r.scope, gs, r.exe)
        server == [disk[t.mcp] EXCEPT !.server = r.exe]
        trusted(toml) == IF r.trust THEN [toml EXCEPT !.trust = SetTrust(@, es)] ELSE toml
    IN IF ~Read(ScopeFiles("codex", r.scope) \union {user}) \/ disk[t.text] = "markers" THEN Refuse
       ELSE W(t.hooks, gs)
            \o W(t.mcp, IF t.mcp = user THEN trusted(server) ELSE server)
            \o (IF t.mcp = user THEN <<>> ELSE W(user, trusted(disk[user])))
            \o W(t.text, "block")

CodexTrusted(r) ==
    LET t == Target("codex", r.scope)
        es == TrustEntries(r.scope, MergeHooks(disk[t.hooks], r.exe), r.exe)
    IN es # {} /\ (r.trust \/ es \subseteq disk[Target("codex", "user").mcp].trust)

\* The hooks file goes last: it is what names the trust keys.
CodexUninstall(r) ==
    LET t == Target("codex", r.scope)   user == Target("codex", "user").mcp
        es == TrustEntries(r.scope, disk[t.hooks], r.exe)
        shared == FileShared(r.caps, t.text, "codex")
        bare == [disk[t.mcp] EXCEPT !.server = RemoveServer(@)]
        distrust(toml) == [toml EXCEPT !.trust = RemoveTrust(@, es)]
    IN IF ~Read(ScopeFiles("codex", r.scope) \union {user}) \/ (~shared /\ disk[t.text] = "markers") THEN Refuse
       ELSE W(t.mcp, IF t.mcp = user THEN distrust(bare) ELSE bare)
            \o (IF t.mcp = user THEN <<>> ELSE W(user, distrust(disk[user])))
            \o (IF shared THEN <<>> ELSE W(t.text, RemoveBlock(disk[t.text])))
            \o W(t.hooks, RemoveHooks(disk[t.hooks]))

AgyInstall(r) ==
    LET t == Target("agy", r.scope)
    IN IF ~Read(ScopeFiles("agy", r.scope)) \/ disk[t.text] = "markers" THEN Refuse
       ELSE W(t.mcp, r.exe) \o W(t.hooks, r.exe) \o W(t.text, "block")
AgyUninstall(r) ==
    LET t == Target("agy", r.scope)   shared == FileShared(r.caps, t.text, "agy")
    IN IF ~Read(ScopeFiles("agy", r.scope)) \/ (~shared /\ disk[t.text] = "markers") THEN Refuse
       ELSE W(t.mcp, RemoveServer(disk[t.mcp])) \o W(t.hooks, RemoveServer(disk[t.hooks]))
            \o (IF shared THEN <<>> ELSE W(t.text, RemoveBlock(disk[t.text])))

\* opencode.jsonc next to a missing opencode.json is not edited.
OpencodeInstall(r) ==
    LET t == Target("opencode", r.scope)
    IN IF ~Read(ScopeFiles("opencode", r.scope)) \/ disk[t.mcp] = "jsonc" \/ disk[t.text] = "markers" THEN Refuse
       ELSE W(t.mcp, r.exe) \o W(t.text, "block")
OpencodeUninstall(r) ==
    LET t == Target("opencode", r.scope)
    IN IF ~Read(ScopeFiles("opencode", r.scope)) \/ disk[t.text] = "markers" THEN Refuse
       ELSE W(t.mcp, RemoveServer(disk[t.mcp]))
            \o (IF FileShared(r.caps, t.text, "opencode") THEN <<>> ELSE W(t.text, RemoveBlock(disk[t.text])))

UninstallSharedHooks(r, f, c) ==
    IF ~IsOurs(disk[f]) \/ FileShared(r.caps, f, c) THEN <<>> ELSE W(f, Nothing)

CopilotInstall(r) ==
    LET t == Target("copilot", r.scope)
    IN IF ~Read(ScopeFiles("copilot", r.scope)) \/ disk[t.hooks] = "foreign" \/ disk[t.text] = "markers" THEN Refuse
       ELSE W(t.mcp, r.exe) \o W(t.hooks, r.exe) \o W(t.text, "block")
CopilotUninstall(r) ==
    LET t == Target("copilot", r.scope)
    IN IF ~Read(ScopeFiles("copilot", r.scope)) \/ disk[t.text] = "markers" THEN Refuse
       ELSE W(t.mcp, RemoveServer(disk[t.mcp])) \o UninstallSharedHooks(r, t.hooks, "copilot")
            \o (IF FileShared(r.caps, t.text, "copilot") THEN <<>> ELSE W(t.text, RemoveBlock(disk[t.text])))

VscodeInstall(r) ==
    LET t == Target("vscode", r.scope)
    IN IF ~Read(ScopeFiles("vscode", r.scope)) \/ disk[t.hooks] = "foreign" \/ disk[t.text] \in {"markers", "foreign"}
       THEN Refuse
       ELSE W(t.mcp, r.exe) \o W(t.hooks, r.exe) \o W(t.text, "block")
\* Unpaired markers are met only after the server and the hooks are gone.
VscodeUninstall(r) ==
    LET t == Target("vscode", r.scope)
    IN IF ~Read(ScopeFiles("vscode", r.scope)) THEN Refuse
       ELSE W(t.mcp, RemoveServer(disk[t.mcp])) \o UninstallSharedHooks(r, t.hooks, "vscode")
            \o (IF disk[t.text] = "markers" THEN Refuse
                ELSE IF ~Owned(t.text) /\ FileShared(r.caps, t.text, "vscode") THEN <<>>
                ELSE W(t.text, RemoveBlock(disk[t.text])))

CursorInstall(r) ==
    LET t == Target("cursor", r.scope)
    IN IF ~Read(ScopeFiles("cursor", r.scope)) \/ (t.text # NoFile /\ disk[t.text] = "foreign") THEN Refuse
       ELSE W(t.mcp, r.exe) \o W(t.hooks, MergeFlatHooks(disk[t.hooks], r.exe))
            \o (IF t.text = NoFile THEN <<>> ELSE W(t.text, "block"))
CursorUninstall(r) ==
    LET t == Target("cursor", r.scope)
    IN IF ~Read(ScopeFiles("cursor", r.scope)) THEN Refuse
       ELSE W(t.mcp, RemoveServer(disk[t.mcp])) \o W(t.hooks, RemoveFlatHooks(disk[t.hooks]))
            \o (IF t.text = NoFile THEN <<>> ELSE W(t.text, RemoveBlock(disk[t.text])))

\* Claude: a plugin (its directory in the home is for both scopes) or plain entries.
PluginFiles == 1 .. 2
UsesAgora(s) ==
    LET t == Target("claude", s)
    IN \/ Read({t.hooks}) /\ (disk[t.hooks].plugin \/ OursIn(disk[t.hooks].hooks) # {})
       \/ Read({t.mcp}) /\ IsOurs(disk[t.mcp])

InstallPlugin(r) ==
    LET t == Target("claude", r.scope)
    IN IF ~Read({t.hooks}) THEN Refuse
       ELSE W(t.text, disk[t.text] \union {1}) \o W(t.text, disk[t.text] \union PluginFiles)
            \o W(t.hooks, EnablePlugin(disk[t.hooks]))
InstallEntries(r) ==
    LET t == Target("claude", r.scope)
    IN IF ~Read({t.hooks, t.mcp}) THEN Refuse
       ELSE W(t.mcp, r.exe) \o W(t.hooks, MergeSettingsHooks(disk[t.hooks], r.exe))
RemoveMarketplace(f) == W(f, disk[f] \ {1}) \o W(f, {})
UninstallPlugin(r) ==
    LET t == Target("claude", r.scope)
    IN IF ~Read({t.hooks}) THEN Refuse
       ELSE W(t.hooks, UnsetPlugin(disk[t.hooks]))
            \o (IF UsesAgora(Other(r.scope)) THEN <<>> ELSE RemoveMarketplace(t.text))
UninstallEntries(r) ==
    LET t == Target("claude", r.scope)
    IN IF ~Read({t.mcp}) THEN Refuse
       ELSE W(t.mcp, RemoveServer(disk[t.mcp]))
            \o (IF Read({t.hooks}) THEN W(t.hooks, RemoveSettingsHooks(disk[t.hooks])) ELSE Refuse)

\* Claude's own record is written within its part.
RecordClaude(r) == W(<<"capabilities", "home">>, [capsFile EXCEPT !.claude = TRUE])
ClearClaude(r)  == IF UsesAgora(Other(r.scope)) THEN <<>> ELSE W(<<"capabilities", "home">>, [capsFile EXCEPT !.claude = FALSE])

InstallModule(c, r) ==
    CASE c = "codex" -> CodexInstall(r)   [] c = "agy" -> AgyInstall(r)       [] c = "opencode" -> OpencodeInstall(r)
      [] c = "copilot" -> CopilotInstall(r) [] c = "vscode" -> VscodeInstall(r) [] c = "cursor" -> CursorInstall(r)
      [] c = "claude" -> (IF r.plugin THEN InstallPlugin(r) ELSE InstallEntries(r)) \o RecordClaude(r)
UninstallModule(c, r) ==
    CASE c = "codex" -> CodexUninstall(r)   [] c = "agy" -> AgyUninstall(r)       [] c = "opencode" -> OpencodeUninstall(r)
      [] c = "copilot" -> CopilotUninstall(r) [] c = "vscode" -> VscodeUninstall(r) [] c = "cursor" -> CursorUninstall(r)
      [] c = "claude" -> (IF r.plugin THEN UninstallPlugin(r) ELSE UninstallEntries(r)) \o ClearClaude(r)

(***************************************************************************)
(* The record of the clients served.                                          *)
(***************************************************************************)
NoEntry == [scopes |-> {}, files |-> {}, trusted |-> FALSE]
RecordEntry(e, c, r) ==
    [scopes |-> e.scopes \union {r.scope},
     files |-> e.files \union ScopeFiles(c, r.scope),
     trusted |-> r.trusted \/ (e.trusted /\ r.scope \notin e.scopes)]
ForgetEntry(e, c, r) ==
    IF e.scopes \ {r.scope} = {} THEN NoEntry
    ELSE [e EXCEPT !.scopes = @ \ {r.scope}, !.files = @ \ ScopeFiles(c, r.scope)]

(***************************************************************************)
(* The command.                                                               *)
(***************************************************************************)
NoRun == [op |-> "idle"]
StartDoc(f) ==
    CASE f[1] = "codex.toml" -> [server |-> Nothing, trust |-> {}]
      [] f[1] = "claude.settings" -> [plugin |-> FALSE, hooks |-> <<>>]
      [] f[1] \in {"codex.hooks", "cursor.hooks"} -> <<>>
      [] f[1] = "claude.market" -> {}
      [] OTHER -> Nothing
\* What the machine holds before the first command: nothing of the names agora uses or something else's, and
\* at most one file that cannot be read.
FoundDoc(f) ==
    CASE f[1] = "opencode.json" -> "jsonc"
      [] f[1] \in {"AGENTS", "copilot.text"} -> "markers"
      [] f[1] \in {"codex.toml", "claude.settings", "codex.hooks", "cursor.hooks", "claude.market"} -> StartDoc(f)
      [] OTHER -> "foreign"
FilesOf(crew) == UNION {ScopeFiles(c, s) : c \in crew, s \in Scopes}
InstallInit ==
    /\ \E crew \in Crews :
          /\ setup = [crew |-> crew, run |-> NoRun]
          /\ \/ broken = {} /\ disk = [f \in FilesOf(crew) |-> FoundDoc(f)]
             \/ /\ \E sick \in {{}} \union {{f} : f \in UNION {ScopeFiles(c, "project") : c \in crew}} : broken = sick
                /\ disk = [f \in FilesOf(crew) |-> StartDoc(f)]
    /\ capsFile = [claude |-> FALSE, entry |-> [c \in Client |-> NoEntry]]
    /\ settled = {} /\ spent = [runs |-> 0, edits |-> 0]

Run == setup.run
AllClients == <<"claude", "codex", "copilot", "vscode", "agy", "opencode", "cursor">>
Lists == {Only(AllClients, some) : some \in SUBSET setup.crew \ {{}}}
Budget == MaxRuns + (IF setup.crew = {"claude"} THEN 1 ELSE 0)

\* uninstall judges sharing by the record as it was, without the clients of its own list.
Begin(op, list, s, x, trust, plugin) ==
    LET named == {list[i] : i \in DOMAIN list}
        before == [capsFile EXCEPT !.entry = [c \in Client |-> IF c \in named THEN NoEntry ELSE capsFile.entry[c]]]
    IN /\ Run = NoRun /\ spent.runs < Budget
       /\ setup' = [setup EXCEPT !.run = [op |-> op, todo |-> list, scope |-> s, exe |-> x, trust |-> trust, plugin |-> plugin,
                                          caps |-> before, at |-> Nothing, plan |-> <<>>, done |-> {}, trusted |-> FALSE]]
       /\ settled' = settled \ (named \X {s})
       /\ spent' = [spent EXCEPT !.runs = @ + 1]
       /\ UNCHANGED <<disk, broken, capsFile>>

\* Everything of one client is read and computed before its first write.
PlanClient ==
    /\ Run # NoRun /\ Run.at = Nothing /\ Run.todo # <<>>
    /\ LET c == Head(Run.todo)
       IN setup' = [setup EXCEPT !.run = [Run EXCEPT
              !.at = c, !.todo = Tail(Run.todo),
              !.plan = IF Run.op = "install" THEN InstallModule(c, Run) ELSE UninstallModule(c, Run),
              !.trusted = IF c = "codex" /\ Run.op = "install" THEN CodexTrusted(Run) ELSE Run.trusted]]
    /\ UNCHANGED <<disk, broken, capsFile, settled, spent>>

\* A temporary file renamed over the target: the old or the new content, never a part of it.  A file that
\* would not change is not written, so that write cannot fail.
Changes(w) ==
    CASE w.file[1] = "refuse" -> TRUE [] w.file[1] = "capabilities" -> w.to # capsFile [] OTHER -> w.to # disk[w.file]
WriteFile ==
    /\ Run # NoRun /\ Run.at # Nothing /\ Run.plan # <<>>
    /\ LET w == Head(Run.plan)
       IN /\ w.file[1] # "refuse"
          /\ setup' = [setup EXCEPT !.run = [Run EXCEPT !.plan = Tail(Run.plan)]]
          /\ disk' = IF w.file \in DOMAIN disk THEN [disk EXCEPT ![w.file] = w.to] ELSE disk
          /\ capsFile' = IF w.file[1] = "capabilities" THEN w.to ELSE capsFile
    /\ UNCHANGED <<broken, settled, spent>>

\* A client that fails leaves the others of the list to be served.
ClientFails ==
    /\ Run # NoRun /\ Run.at # Nothing /\ Run.plan # <<>> /\ Changes(Head(Run.plan))
    /\ setup' = [setup EXCEPT !.run = [Run EXCEPT !.at = Nothing, !.plan = <<>>]]
    /\ UNCHANGED <<disk, broken, capsFile, settled, spent>>
ClientServed ==
    /\ Run # NoRun /\ Run.at # Nothing /\ Run.plan = <<>>
    /\ setup' = [setup EXCEPT !.run = [Run EXCEPT !.at = Nothing, !.done = Run.done \union ({Run.at} \ {"claude"})]]
    /\ UNCHANGED <<disk, broken, capsFile, settled, spent>>

RecordRun ==
    /\ Run # NoRun /\ Run.at = Nothing /\ Run.todo = <<>>
    /\ LET Edit(e, c) == IF Run.op = "install" THEN RecordEntry(e, c, Run) ELSE ForgetEntry(e, c, Run)
       IN capsFile' = [capsFile EXCEPT !.entry = [c \in Client |-> IF c \in Run.done THEN Edit(capsFile.entry[c], c)
                                                                   ELSE capsFile.entry[c]]]
    /\ settled' = IF Run.op = "install" THEN settled \union (Run.done \X {Run.scope}) ELSE settled
    /\ setup' = [setup EXCEPT !.run = NoRun]
    /\ UNCHANGED <<disk, broken, spent>>

\* The command is killed, or the record cannot be written.
Stopped ==
    /\ Run # NoRun
    /\ setup' = [setup EXCEPT !.run = NoRun]
    /\ UNCHANGED <<disk, broken, capsFile, settled, spent>>

\* The user adds a hook of its own, before or behind what is there, between two commands.
UserAddsHook(f, front) ==
    /\ Run = NoRun /\ spent.edits < MaxEdits
    /\ LET gs == disk[f]
       IN disk' = [disk EXCEPT ![f] = IF front \/ gs = <<>> THEN <<<<"user">>>> \o gs
                                      ELSE [gs EXCEPT ![Len(gs)] = Append(gs[Len(gs)], "user")]]
    /\ spent' = [spent EXCEPT !.edits = @ + 1]
    /\ UNCHANGED <<broken, capsFile, setup, settled>>

InstallStep ==
    \/ \E op \in {"install", "uninstall"}, list \in Lists, s \in Scopes, x \in Exes, trust, plugin \in BOOLEAN :
           /\ trust => op = "install" /\ setup.crew = {"codex"}
           /\ plugin => setup.crew = {"claude"}
           /\ setup.crew = {"codex"} \/ x = CHOOSE e \in Exes : TRUE
           /\ Begin(op, list, s, x, trust, plugin)
    \/ PlanClient \/ WriteFile \/ ClientFails \/ ClientServed \/ RecordRun \/ Stopped
    \/ \E f \in {<<"codex.hooks", s>> : s \in Scopes}, front \in BOOLEAN : setup.crew = {"codex"} /\ UserAddsHook(f, front)

InstallSpec == InstallInit /\ [][InstallStep]_installVars

(***************************************************************************)
(* Properties.                                                                *)
(***************************************************************************)
Holding(f, v) == CASE f[1] = "codex.toml" -> IsOurs(v.server)
                   [] f[1] \in {"codex.hooks", "cursor.hooks"} -> Cardinality(OursIn(v)) = 1
                   [] OTHER -> IsOurs(v) \/ v = "block"
HoldsOurs(f) == Holding(f, disk[f])

EnabledPluginIsThere ==
    "claude" \in setup.crew => \A s \in Scopes : disk[Target("claude", s).hooks].plugin => disk[Target("claude", s).text] = PluginFiles

\* A client whose installation ended and was recorded keeps every file it relies on, whatever other
\* clients that share some of them are installed, removed, refused or interrupted, until a command
\* names this client again; and settings that enable the plugin never point at a directory that lacks
\* some of its files, not while an install or an uninstall of either scope is under way, nor after one
\* that was cut short.
InstalledKeepsItsFiles ==
    /\ \A cs \in settled : \A f \in ScopeFiles(cs[1], cs[2]) : HoldsOurs(f)
    /\ EnabledPluginIsThere

=============================================================================
