---------------------------- MODULE Integrations ----------------------------
(***************************************************************************)
(* Wiring mementos into the AI clients of a machine and out again:          *)
(* integration enable, disable, configure and hook, the integration step    *)
(* of init, and the integrations target of destroy (integrations/,          *)
(* cli/commands/admin.ts, init.ts, destroy.ts).                             *)
(*                                                                          *)
(* What mementos installs is spread over three kinds of places: the         *)
(* client's own registry, changed through the client's command line; a      *)
(* skill directory; and a JSON file that the client, the user and mementos  *)
(* all rewrite.  The contents of such a file are its groups of items: hook  *)
(* groups with their commands, or map entries, which are groups of one.     *)
(***************************************************************************)
EXTENDS Naturals, Sequences, FiniteSets, SequencesExt

CONSTANTS
    Clients,       \* integrations of this machine, by their type
    Procs,         \* mementos commands that may run at the same time
    Users,         \* items of the user in the JSON files
    Hosts,         \* machines, each by the clients installed on it
    MaxCommands,   \* bound: mementos commands started
    MaxEdits       \* bound: changes by clients and users

JsonOnly == {"cursor", "claude-desktop", "antigravity"}
ByCli    == {"claude-code", "codex", "openclaw"}
ByFile   == JsonOnly \cup {"opencode"}
Agy      == "antigravity-cli"

ClaudeHooks == <<"session-start", "pre-compact">>
CodexHooks  == <<"session-start">>

Hooks(c) == CASE c = "claude-code" -> ClaudeHooks
              [] c = "codex"       -> CodexHooks
              [] OTHER             -> << >>

Own    == {"mcp", "session-start", "pre-compact", "listed"}
Items  == Own \cup Users
Groups == SUBSET Items \ {{}}

ASSUME IntegrationsAssumption ==
    /\ Clients \subseteq ByCli \cup ByFile \cup {Agy}
    /\ Hosts \subseteq SUBSET Clients /\ MaxCommands \in Nat /\ MaxEdits \in Nat
    /\ Users \cap Own = {}

VARIABLES
    present,   \* the clients on this machine
    cliUp,     \* client: does its command line work?
    cli,       \* client: is mementos in its registry?
    skill,     \* client: is the skill on disk?
    plugin,    \* plugin.json of Antigravity CLI: "none", "bare" or "mcp"
    file,      \* client: the JSON file
    tmp,       \* client: the file beside it that will replace it
    proc,      \* command: what it has still to do
    want,      \* history, client: the user's items
    removed,   \* history, client: uninstalled, and not installed since
    mishaps,   \* history: windows that were hit, see Properties
    spent      \* commands and edits so far

foreign == <<cliUp, want>>
ours    == <<cli, skill, plugin>>
vars    == <<present, foreign, ours, file, tmp, proc, removed, mishaps, spent>>

Missing   == [is |-> "missing", groups |-> {}]
Json(g)   == [is |-> "json", groups |-> g]
Partial   == [is |-> "partial", groups |-> {}]   \* truncated, not yet written
Idle      == [op |-> "none", todo |-> << >>, at |-> "next", held |-> {}, fd |-> "none",
              skips |-> FALSE, blind |-> FALSE]

Step(do, c, k) == [do |-> do, c |-> c, k |-> k]
Hit(names)    == mishaps' = mishaps \cup names
Flagged(b, n) == IF b THEN {n} ELSE {}

(***************************************************************************)
(* The files.                                                               *)
(***************************************************************************)

Has(c, k)     == \E g \in file[c].groups : k \in g
Readable(c)   == file[c].is \in {"missing", "json"}

(* Fault: the other groups of the event go too.                             *)
Without_All(groups, k) == {}

(* A group with a command of ours goes as a whole.                          *)
Without(groups, k) == {g \in groups : k \notin g}

With(groups, k)    == Without(groups, k) \cup {{k}}

WithoutAll(groups, c) == {g \in groups : \A i \in DOMAIN Hooks(c) : Hooks(c)[i] \notin g}

(* The manifest of Antigravity CLI's imports.                               *)
Register(groups)   == IF \E g \in groups : "listed" \in g THEN groups ELSE groups \cup {{"listed"}}
Unregister(groups) == Without(groups, "listed")

Rewritten(s) ==
    LET groups == file[s.c].groups IN
      CASE s.do = "file+" -> With(groups, s.k)
        [] s.do = "file-" -> Without(groups, s.k)
        [] s.do = "file0" -> WithoutAll(groups, s.c)
        [] s.do = "reg+"  -> Register(groups)
        [] s.do = "reg-"  -> Unregister(groups)

FileSteps == {"file+", "file-", "file0", "reg+", "reg-"}

(* Only the entries of maps know better than to create a file in order to   *)
(* remove something from it.                                                *)
Needless(s) == file[s.c].is = "missing" /\ (s.do = "reg-" \/ (s.do = "file-" /\ s.k = "mcp"))

(***************************************************************************)
(* What the integrations do, as steps.                                      *)
(***************************************************************************)

Mcp(c, on) ==
    CASE c \in {"claude-code", "codex"} ->
           <<Step("cli-", c, "mcp")>> \o IF on THEN <<Step("cli+", c, "mcp")>> ELSE << >>
      [] c = "openclaw"  -> <<Step(IF on THEN "cli+" ELSE "cli-", c, "mcp")>>
      [] c \in ByFile    -> <<Step(IF on THEN "file+" ELSE "file-", c, "mcp")>>
      [] c = Agy         -> <<Step(IF on THEN "plugin+" ELSE "plugin0", c, "mcp"), Step("reg+", c, "listed")>>

Skill(c, on) ==
    CASE c \in JsonOnly -> << >>
      [] c = Agy /\ on  -> <<Step("skill+", c, "skill"), Step("reg+", c, "listed")>>
      [] OTHER          -> <<Step(IF on THEN "skill+" ELSE "skill-", c, "skill")>>

Surface(c, k, on) == CASE k = "mcp"   -> Mcp(c, on)
                       [] k = "skill" -> Skill(c, on)
                       [] OTHER       -> <<Step(IF on THEN "file+" ELSE "file-", c, k)>>

InstallAgy == <<Step("plugin+", Agy, "mcp"), Step("skill+", Agy, "skill"), Step("reg+", Agy, "listed")>>

Install(c) == IF c = Agy THEN InstallAgy ELSE Mcp(c, TRUE) \o Skill(c, TRUE)

(* Fault: the hooks are left to a toggle of their own.                      *)
Uninstall_NoHooks(c) ==
    CASE c = Agy -> <<Step("plugin-", c, "mcp"), Step("reg-", c, "listed"), Step("gone", c, "mcp")>>
      [] OTHER   -> Mcp(c, FALSE) \o Skill(c, FALSE) \o <<Step("gone", c, "mcp")>>

NoHooks(c)      == <<Step("file0", c, "mcp")>>
UninstallClaude == Mcp("claude-code", FALSE) \o NoHooks("claude-code") \o Skill("claude-code", FALSE)
UninstallCodex  == Mcp("codex", FALSE) \o Skill("codex", FALSE) \o NoHooks("codex")
UninstallAgy    == <<Step("plugin-", Agy, "mcp"), Step("reg-", Agy, "listed")>>

(* "gone" marks the point where the command calls the client uninstalled.   *)
Uninstall(c) ==
    LET steps == CASE c = "claude-code" -> UninstallClaude
                   [] c = "codex"       -> UninstallCodex
                   [] c = Agy           -> UninstallAgy
                   [] OTHER             -> Mcp(c, FALSE) \o Skill(c, FALSE)
    IN  Append(steps, Step("gone", c, "mcp"))

(* setupAtInit: a toggle for each surface, or, for a client that has only   *)
(* what install brings, install unless it is there.                         *)
Toggle(c, kinds) == [i \in 1..Len(kinds) |-> Step("ask", c, kinds[i])]

SetupClaude   == Toggle("claude-code", <<"mcp", "skill">> \o ClaudeHooks)
SetupCodex    == Toggle("codex", <<"mcp", "skill">> \o CodexHooks)
SetupAgy      == Toggle(Agy, <<"mcp", "skill">>)
SetupOpencode == Toggle("opencode", <<"mcp", "skill">>)

Setup(c) == CASE c = "claude-code" -> SetupClaude
              [] c = "codex"       -> SetupCodex
              [] c = Agy           -> SetupAgy
              [] c = "opencode"    -> SetupOpencode
              [] OTHER             -> <<Step("bring", c, "mcp")>>

(* isInstalled is about the MCP server, or the plugin, only.                *)
Installed(c) == CASE c \in ByCli  -> cliUp[c] /\ cli[c]
                  [] c \in ByFile -> Readable(c) /\ Has(c, "mcp")
                  [] c = Agy      -> plugin # "none"

(***************************************************************************)
(* Commands                                                                 *)
(***************************************************************************)

InOrder(cs) == SetToSeq(cs)
Each(do, cs) == [i \in 1..Cardinality(cs) |-> Step(do, InOrder(cs)[i], "mcp")]

Begin(p, op, todo, skips, blind) ==
    /\ proc[p].op = "none" /\ spent.commands < MaxCommands /\ todo # << >>
    /\ spent' = [spent EXCEPT !.commands = @ + 1]
    /\ proc' = [proc EXCEPT ![p] = [Idle EXCEPT !.op = op, !.todo = todo, !.skips = skips, !.blind = blind]]
    /\ UNCHANGED <<present, foreign, ours, file, tmp, removed, mishaps>>

Enable(p, c)  == Begin(p, "enable", Install(c), FALSE, FALSE)
Disable(p, c) == Begin(p, "disable", Uninstall(c), FALSE, FALSE)

(* integration hook, whose enable goes on only when the key can be read.    *)
Hook(p, c, k, on) ==
    /\ \E i \in DOMAIN Hooks(c) : Hooks(c)[i] = k
    /\ Begin(p, "hook", Surface(c, k, on), FALSE, FALSE)

(* setupIntegrations: the clients that are not ticked go first, then each   *)
(* ticked one is set up; a client that fails is skipped.  A blind Enter     *)
(* takes the ticks, and later the answers, that are offered.                *)
Configure(p, chosen, blind) ==
    LET there   == {c \in present : Installed(c)}
        offered == IF there = {} THEN present ELSE there
        ticked  == IF blind THEN offered ELSE chosen
    IN  Begin(p, IF blind THEN "enter" ELSE "configure",
              Each("drop", present \ ticked) \o Each("setup", ticked), TRUE, blind)

(* The integrations target of destroy: those installed when it looked, in   *)
(* turn, up to the first that fails.                                        *)
Destroy(p) ==
    LET there == {c \in present : Installed(c)}
    IN  /\ there # {}
        /\ Begin(p, "destroy", Each("remove", there), FALSE, FALSE)

(***************************************************************************)
(* Steps                                                                    *)
(***************************************************************************)

At(p, dos) == proc[p].todo # << >> /\ proc[p].at = "next" /\ Head(proc[p].todo).do \in dos
Now(p)     == Head(proc[p].todo)

Doing(todo, r) == IF todo = << >> THEN Idle ELSE [r EXCEPT !.todo = todo, !.at = "next", !.fd = "none", !.held = {}]

Goes(p)        == proc' = [proc EXCEPT ![p] = Doing(Tail(@.todo), @)]
Becomes(p, ss) == proc' = [proc EXCEPT ![p] = Doing(ss \o Tail(@.todo), @)]

(* A step that throws ends the command, or its client's part of it: the     *)
(* n-th step is the first that is still done.                               *)
Throws(p) ==
    LET todo == proc[p].todo IN
      /\ \E n \in 2..(Len(todo) + 1) :
            /\ \A i \in 1..(n - 1) : proc[p].skips => todo[i].c = Now(p).c
            /\ n <= Len(todo) => proc[p].skips /\ todo[n].c # Now(p).c
            /\ proc' = [proc EXCEPT ![p] = Doing(SubSeq(todo, n, Len(todo)), @)]
      /\ Hit({"cut"})

Contested(p, c) == \E q \in Procs \ {p} : \E i \in DOMAIN proc[q].todo : proc[q].todo[i].c = c
Adding == {"cli+", "skill+", "plugin+", "plugin0", "file+", "reg+"}
Notes(p, more) ==
    LET c == Now(p).c IN
      IF Now(p).do \in Adding
        THEN removed' = removed \ {c} /\ Hit(more \cup Flagged(Contested(p, c), "contested"))
        ELSE UNCHANGED removed /\ Hit(more)

(* mcp remove and unset: their failure is tolerated, whatever it was.       *)
CliRemove(p) ==
    /\ At(p, {"cli-"})
    /\ LET c == Now(p).c IN
         /\ cli' = IF cliUp[c] THEN [cli EXCEPT ![c] = FALSE] ELSE cli
         /\ Notes(p, Flagged(cli[c] /\ ~cliUp[c], "deaf"))
    /\ Goes(p)
    /\ UNCHANGED <<present, foreign, skill, plugin, file, tmp, spent>>

(* mcp add and set; the former rejects what is registered by now.           *)
CliAdd(p) ==
    /\ At(p, {"cli+"})
    /\ IF cliUp[Now(p).c] /\ (cli[Now(p).c] => Now(p).c = "openclaw")
         THEN cli' = [cli EXCEPT ![Now(p).c] = TRUE] /\ Notes(p, {}) /\ Goes(p)
         ELSE Throws(p) /\ UNCHANGED <<cli, removed>>
    /\ UNCHANGED <<present, foreign, skill, plugin, file, tmp, spent>>

(* The skill directory, and the directory of the plugin that holds one.     *)
(* Any of it may fail; what is half done then, a SKILL.md written in place  *)
(* or a plugin without its skill, counts as not done.                       *)
Directory(p) ==
    /\ At(p, {"skill+", "skill-", "plugin+", "plugin0", "plugin-"})
    /\ LET s == Now(p) IN
         \/ /\ skill' = [skill EXCEPT ![s.c] = CASE s.do = "skill+" -> TRUE
                                                 [] s.do \in {"skill-", "plugin-"} -> FALSE
                                                 [] OTHER -> @]
            /\ plugin' = CASE s.do = "plugin+" -> "mcp"
                            [] s.do = "plugin0" -> "bare"
                            [] s.do = "plugin-" -> "none"
                            [] OTHER -> plugin
            /\ Notes(p, {}) /\ Goes(p)
         \/ Throws(p) /\ UNCHANGED <<skill, plugin, removed>>
    /\ UNCHANGED <<present, foreign, cli, file, tmp, spent>>

(* Fault: a file that does not parse counts as an empty one.                *)
ReadFile_Lenient(p) ==
    /\ At(p, FileSteps)
    /\ IF Needless(Now(p)) THEN Goes(p)
       ELSE proc' = [proc EXCEPT ![p].at = "held", ![p].held = IF Readable(Now(p).c) THEN Rewritten(Now(p)) ELSE {}]
    /\ UNCHANGED <<present, foreign, ours, file, tmp, removed, mishaps, spent>>

(* readJsonConfig: missing is empty, and what does not parse is refused.    *)
ReadFile(p) ==
    /\ At(p, FileSteps)
    /\ LET s    == Now(p)
           lost == {u \in Users : Has(s.c, u) /\ ~\E g \in Rewritten(s) : u \in g}
       IN  CASE ~Readable(s.c) -> Throws(p)
             [] Needless(s)    -> Goes(p) /\ UNCHANGED mishaps
             [] OTHER -> /\ proc' = [proc EXCEPT ![p].at = "held", ![p].held = Rewritten(s)]
                         /\ Hit(Flagged(\E u \in lost, g \in file[s.c].groups : u \in g /\ g \cap Own # {}, "mixed"))
    /\ UNCHANGED <<present, foreign, ours, file, tmp, removed, spent>>

Writes(q, c) == proc[q].at \in {"opened", "filled"} /\ Now(q).c = c

(* Fault: the file itself is opened.                                        *)
OpenTmp_InPlace(p) ==
    /\ proc[p].at = "held"
    /\ LET c == Now(p).c IN
         /\ file' = [file EXCEPT ![c] = Partial] /\ tmp' = [tmp EXCEPT ![c] = Missing]
         /\ proc' = [proc EXCEPT ![p].at = "opened", ![p].fd = "file"]
         /\ Hit(Flagged(\E q \in Procs \ {p} : Writes(q, c), "shared"))
    /\ UNCHANGED <<present, foreign, ours, removed, spent>>

(* writeFile truncates the one temporary file all commands use ...          *)
OpenTmp(p) ==
    /\ proc[p].at = "held"
    /\ LET c == Now(p).c IN
         /\ tmp' = [tmp EXCEPT ![c] = Partial]
         /\ proc' = [proc EXCEPT ![p].at = "opened", ![p].fd = "tmp"]
         /\ Hit(Flagged(\E q \in Procs \ {p} : Writes(q, c), "shared"))
    /\ UNCHANGED <<present, foreign, ours, file, removed, spent>>

(* ... writes to whatever the file has become, ...                          *)
FillTmp(p) ==
    /\ proc[p].at = "opened"
    /\ LET c == Now(p).c IN
         /\ tmp'  = IF proc[p].fd = "tmp"  THEN [tmp  EXCEPT ![c] = Json(proc[p].held)] ELSE tmp
         /\ file' = IF proc[p].fd = "file" THEN [file EXCEPT ![c] = Json(proc[p].held)] ELSE file
    /\ proc' = [proc EXCEPT ![p].at = "filled"]
    /\ UNCHANGED <<present, foreign, ours, removed, mishaps, spent>>

(* ... and renames it, which fails when another has done so, or when the    *)
(* client keeps the file open through all attempts.                         *)
Rename(p) ==
    /\ proc[p].at = "filled"
    /\ LET c == Now(p).c
           moved(q) == CASE q = p -> "none"
                         [] Writes(q, c) /\ proc[q].fd = "tmp"  -> "file"
                         [] Writes(q, c) /\ proc[q].fd = "file" -> "gone"
                         [] OTHER -> proc[q].fd
       IN  \/ /\ tmp[c] # Missing
              /\ file' = [file EXCEPT ![c] = tmp[c]] /\ tmp' = [tmp EXCEPT ![c] = Missing]
              /\ proc' = [q \in Procs |-> IF q = p THEN Doing(Tail(proc[p].todo), proc[p])
                                                  ELSE [proc[q] EXCEPT !.fd = moved(q)]]
              /\ Notes(p, Flagged(\E q \in Procs \ {p} : proc[q].at # "next" /\ Now(q).c = c, "overtaken"))
           \/ Throws(p) /\ UNCHANGED <<file, tmp, removed>>
    /\ UNCHANGED <<present, foreign, ours, spent>>

(* The toggles of setupAtInit.                                              *)
On(c, k) == CASE k = "mcp" /\ c = Agy -> plugin = "mcp"
              [] k = "mcp"            -> Installed(c)
              [] k = "skill"          -> skill[c]
              [] OTHER                -> Has(c, k)

Offered(c, k) == k \in {"skill", "session-start"} \/ On(c, k)

Ask(p) ==
    /\ At(p, {"ask"})
    /\ LET s == Now(p)
           inFile == s.k \notin {"mcp", "skill"} \/ (s.k = "mcp" /\ s.c \in ByFile)
       IN  IF inFile /\ ~Readable(s.c)
             THEN Throws(p)
             ELSE /\ \E on \in (IF proc[p].blind THEN {Offered(s.c, s.k)} ELSE BOOLEAN) :
                       Becomes(p, Surface(s.c, s.k, on))
                  /\ UNCHANGED mishaps
    /\ UNCHANGED <<present, foreign, ours, file, tmp, removed, spent>>

(* uninstallNotIn and withInstallShell look first; each client in turn.     *)
Decide(p) ==
    /\ At(p, {"remove", "drop", "setup", "bring"})
    /\ LET s == Now(p) IN
         CASE s.do = "remove" -> Becomes(p, Uninstall(s.c)) /\ UNCHANGED mishaps
           [] s.do = "drop"  -> Becomes(p, IF Installed(s.c) THEN Uninstall(s.c) ELSE << >>) /\ UNCHANGED mishaps
           [] s.do = "setup" -> Becomes(p, Setup(s.c)) /\ UNCHANGED mishaps
           [] s.do = "bring" /\ s.c \in ByFile /\ ~Readable(s.c) -> Throws(p)
           [] OTHER -> Becomes(p, IF Installed(s.c) THEN << >> ELSE Install(s.c)) /\ UNCHANGED mishaps
    /\ UNCHANGED <<present, foreign, ours, file, tmp, removed, spent>>

Gone(p) ==
    /\ At(p, {"gone"})
    /\ removed' = removed \cup {Now(p).c} /\ Goes(p)
    /\ UNCHANGED <<present, foreign, ours, file, tmp, mishaps, spent>>

Kill(p) ==
    /\ proc[p].op # "none"
    /\ proc' = [proc EXCEPT ![p] = Idle] /\ Hit({"cut"})
    /\ UNCHANGED <<present, foreign, ours, file, tmp, removed, spent>>

(***************************************************************************)
(* The clients and the user                                                 *)
(***************************************************************************)

Overtakes(c) == Flagged(\E p \in Procs : proc[p].at # "next" /\ Now(p).c = c, "overtaken")
Edits == /\ spent.edits < MaxEdits /\ spent' = [spent EXCEPT !.edits = @ + 1]
         /\ UNCHANGED <<present, ours, tmp, proc, removed>>

EditFile(c) ==
    /\ Edits /\ c \in present /\ Hit(Overtakes(c)) /\ UNCHANGED cliUp
    /\ \/ /\ file[c].is \in {"missing", "json"}
          /\ \E u \in Users \ want[c] :
               /\ want' = [want EXCEPT ![c] = @ \cup {u}]
               /\ \/ file' = [file EXCEPT ![c] = Json(@.groups \cup {{u}})]
                  \/ \E g \in file[c].groups, k \in {"session-start", "pre-compact"} :
                       k \in g /\ file' = [file EXCEPT ![c] = Json((@.groups \ {g}) \cup {g \cup {u}})]
       \/ /\ file[c].is = "json" /\ \E u \in want[c] :
               /\ want' = [want EXCEPT ![c] = @ \ {u}]
               /\ file' = [file EXCEPT ![c] = Json({g \ {u} : g \in @.groups} \ {{}})]
       \/ file[c].is = "json" /\ file' = [file EXCEPT ![c].is = "broken"] /\ UNCHANGED want
       \/ file[c].is = "broken" /\ file' = [file EXCEPT ![c].is = "json"] /\ UNCHANGED want

CliChanges(c) ==
    /\ Edits /\ c \in present \cap ByCli
    /\ cliUp' = [cliUp EXCEPT ![c] = ~@]
    /\ UNCHANGED <<want, file, mishaps>>

Init ==
    /\ present \in Hosts
    /\ cliUp = [c \in Clients |-> TRUE] /\ cli = [c \in Clients |-> FALSE]
    /\ skill = [c \in Clients |-> FALSE] /\ plugin = "none"
    /\ file = [c \in Clients |-> Missing] /\ tmp = file
    /\ proc = [p \in Procs |-> Idle]
    /\ want = [c \in Clients |-> {}] /\ removed = {} /\ mishaps = {}
    /\ spent = [commands |-> 0, edits |-> 0]

Command(p) ==
    \/ \E c \in present : Enable(p, c) \/ Disable(p, c)
    \/ \E c \in present, k \in Own, on \in BOOLEAN : Hook(p, c, k, on)
    \/ \E cs \in SUBSET present : Configure(p, cs, FALSE)
    \/ Configure(p, present, TRUE)
    \/ Destroy(p)

Next ==
    \/ \E p \in Procs : \/ Command(p) \/ CliRemove(p) \/ CliAdd(p) \/ Directory(p)
                       \/ ReadFile(p) \/ OpenTmp(p) \/ FillTmp(p) \/ Rename(p)
                       \/ Ask(p) \/ Decide(p) \/ Gone(p) \/ Kill(p)
    \/ \E c \in Clients : EditFile(c) \/ CliChanges(c)

Spec == Init /\ [][Next]_vars

-----------------------------------------------------------------------------
(* Properties.  The windows the code leaves open:                           *)
(*   overtaken: a file was changed between the read and the rename of a     *)
(*     command; shared: two commands wrote the same temporary file;         *)
(*   contested: one command installed what another was uninstalling;        *)
(*   mixed: a hook of the user stood in a group with one of ours;           *)
(*   deaf: the client's command line failed and that was taken for "not     *)
(*     registered"; cut: a command was killed or a step of it failed.       *)

(* What the user has in a client's file stays there, unless the user takes  *)
(* it out, whatever commands install, toggle, remove or die half way, and a *)
(* file the user broke keeps what was in it.                                *)
UsersKept == mishaps \cap {"overtaken", "shared", "mixed"} = {} =>
               \A c \in Clients : \A u \in want[c] : Has(c, u)

(* No client ever finds its JSON file half-written, even after a command    *)
(* died.  SKILL.md, which skill.ts writes in place, is not meant.           *)
Whole == "shared" \notin mishaps => \A c \in Clients : file[c].is # "partial"

Traces(c) == cli[c] \/ skill[c] \/ (c = Agy /\ plugin # "none") \/ \E k \in Own : Has(c, k)

(* After a client was uninstalled without an error nothing of ours is left  *)
(* in it until something is installed again.                                *)
Clean == mishaps \cap {"overtaken", "shared", "contested", "deaf"} = {} =>
           \A c \in removed : ~Traces(c)

=============================================================================
