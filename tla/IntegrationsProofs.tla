------------------------ MODULE IntegrationsProofs -------------------------
(***************************************************************************)
(* Theorems about Integrations, for any clients, machines, commands at the  *)
(* same time and items of the user: what the user keeps in a client's file  *)
(* stays, no client reads half a file, and an uninstall that went through   *)
(* leaves nothing of ours.                                                  *)
(***************************************************************************)
EXTENDS Integrations, Integers, FiniteSetTheorems, SequenceTheorems, TLAPS

(***************************************************************************)
(* The inductive invariant: types, with the steps each client can be given. *)
(***************************************************************************)

Ops   == {"none", "enable", "disable", "hook", "configure", "enter", "destroy"}
Taking == {"cli-", "skill-", "plugin-", "file-", "file0", "reg-"}
Dos   == Adding \cup Taking \cup {"gone", "ask", "remove", "drop", "setup", "bring"}

Hooked(c, k) == \E i \in DOMAIN Hooks(c) : Hooks(c)[i] = k

(* The items of ours that the file of a client may hold.                    *)
Right(c, k) ==
    \/ k = "mcp" /\ c \in ByFile
    \/ Hooked(c, k)
    \/ k = "listed" /\ c = Agy

(* What a step of each kind is about.                                       *)
Proper(s) ==
    /\ s.do \in {"cli+", "cli-"} => s.c \in ByCli
    /\ s.do \in {"skill+"} => s.c \notin JsonOnly
    /\ s.do \in {"plugin+", "plugin0", "plugin-"} => s.c = Agy
    /\ s.do \in {"reg+", "reg-"} => s.c = Agy /\ s.k = "listed"
    /\ s.do \in {"file+", "file-"} => s.k \in Own /\ s.k # "listed" /\ Right(s.c, s.k)
    /\ s.do = "ask" => s.k \in {"mcp", "skill"} \/ Hooked(s.c, s.k)

Steps == {s \in [do : Dos, c : Clients, k : Own \cup {"skill"}] : Proper(s)}

Contents == {f \in [is : {"missing", "json", "broken", "partial"}, groups : SUBSET SUBSET Items] :
                f.is = "missing" => f.groups = {}}

Tasks == [op : Ops, todo : Seq(Steps), at : {"next", "held", "opened", "filled"},
          held : SUBSET SUBSET Items, fd : {"none", "tmp", "file", "gone"},
          skips : BOOLEAN, blind : BOOLEAN]

(* Between the read of a file and its rename.                               *)
InFile(p) == proc[p].at # "next"

TypeOK ==
    /\ present \subseteq Clients
    /\ cliUp \in [Clients -> BOOLEAN] /\ cli \in [Clients -> BOOLEAN] /\ skill \in [Clients -> BOOLEAN]
    /\ plugin \in {"none", "bare", "mcp"}
    /\ file \in [Clients -> Contents] /\ tmp \in [Clients -> Contents]
    /\ proc \in [Procs -> Tasks]
    /\ want \in [Clients -> SUBSET Users] /\ removed \subseteq Clients
    /\ \A p \in Procs : InFile(p) => proc[p].todo # << >> /\ Now(p).do \in FileSteps

(* Unless two commands shared a temporary file, each writes its own one,    *)
(* and what it has filled is what it holds.                                 *)
WriteInv == "shared" \notin mishaps =>
    /\ \A p, q \in Procs, c \in Clients : p # q /\ Writes(p, c) => ~Writes(q, c)
    /\ \A p \in Procs : proc[p].at \in {"opened", "filled"} => proc[p].fd = "tmp"
    /\ \A p \in Procs : proc[p].at = "filled" => tmp[Now(p).c] = Json(proc[p].held)
    /\ \A c \in Clients : file[c].is # "partial"

(* What a command holds is what it would compute from the file as it is.    *)
HeldInv == mishaps \cap {"overtaken", "shared"} = {} =>
    \A p \in Procs : InFile(p) => \A s \in {Now(p)} : proc[p].held = Rewritten(s)

(* The items of the user are in the file and in what is about to replace it.*)
KeptInv == mishaps \cap {"overtaken", "shared", "mixed"} = {} =>
    \A c \in Clients : \A w \in want[c] :
        /\ Has(c, w)
        /\ \A p \in Procs : InFile(p) /\ Now(p).c = c => \E g \in proc[p].held : w \in g

(* Something of ours is only where an uninstall looks for it.               *)
PlacesInv ==
    /\ \A c \in Clients : (cli[c] => c \in ByCli) /\ (skill[c] => c \notin JsonOnly)
    /\ mishaps \cap {"overtaken", "shared"} = {} =>
         \A c \in Clients, k \in Own : Has(c, k) => Right(c, k)

(* Before a client is called uninstalled come only steps that take from it. *)
GoneLast(todo) == \A n \in 1..Len(todo) :
    todo[n].do = "gone" =>
        \A i \in 1..(n - 1) : todo[i].do \in Taking /\ todo[i].c = todo[n].c

GoneInv == \A p \in Procs : GoneLast(proc[p].todo)

(* The step takes the item out of the file.                                 *)
Takes(s, k) ==
    \/ s.do = "file-" /\ s.k = k
    \/ s.do = "file0" /\ Hooked(s.c, k)
    \/ s.do = "reg-" /\ k = "listed"

(* What is left of ours in a client is taken before step n calls it gone.   *)
Covered(todo, n) ==
    LET c == todo[n].c IN
      /\ cli[c] => \E i \in 1..(n - 1) : todo[i].do = "cli-"
      /\ skill[c] => \E i \in 1..(n - 1) : todo[i].do \in {"skill-", "plugin-"}
      /\ c = Agy /\ plugin # "none" => \E i \in 1..(n - 1) : todo[i].do = "plugin-"
      /\ \A k \in Own : Has(c, k) => \E i \in 1..(n - 1) : Takes(todo[i], k)

AllCovered(todo) == \A n \in 1..Len(todo) : todo[n].do = "gone" => Covered(todo, n)

Undisturbed == mishaps \cap {"overtaken", "shared", "contested", "deaf"} = {}

CleanInv == Undisturbed =>
    /\ \A c \in removed : ~Traces(c)
    /\ \A p \in Procs : AllCovered(proc[p].todo)

IInv == TypeOK /\ WriteInv /\ HeldInv /\ KeptInv /\ PlacesInv /\ GoneInv /\ CleanInv

(***************************************************************************)
(* The steps the integrations are made of.                                  *)
(***************************************************************************)

Plain == {s \in Steps : s.do # "gone"}

LEMMA ClientCases ==
    ASSUME NEW c \in Clients
    PROVE  c \in {"claude-code", "codex", "openclaw", "cursor", "claude-desktop", "antigravity",
                  "opencode", "antigravity-cli"}
BY IntegrationsAssumption DEF ByCli, ByFile, JsonOnly, Agy

LEMMA HookedIs ==
    ASSUME NEW c, NEW k
    PROVE  Hooked(c, k) <=> \/ c = "claude-code" /\ k \in {"session-start", "pre-compact"}
                            \/ c = "codex" /\ k = "session-start"
<1>1. CASE c = "claude-code"
  <2>1. Hooks(c) = <<"session-start", "pre-compact">>
    BY <1>1 DEF Hooks, ClaudeHooks
  <2> QED BY <1>1, <2>1 DEF Hooked
<1>2. CASE c = "codex"
  <2>1. Hooks(c) = <<"session-start">>
    BY <1>2 DEF Hooks, CodexHooks
  <2> QED BY <1>2, <2>1 DEF Hooked
<1>3. CASE c # "claude-code" /\ c # "codex"
  <2>1. Hooks(c) = << >>
    BY <1>3 DEF Hooks
  <2> QED BY <1>3, <2>1 DEF Hooked
<1> QED BY <1>1, <1>2, <1>3

LEMMA StepPlain ==
    ASSUME NEW do \in Dos \ {"gone"}, NEW c \in Clients, NEW k \in Own \cup {"skill"},
           Proper(Step(do, c, k))
    PROVE  /\ Step(do, c, k) \in Plain
           /\ Step(do, c, k).do = do /\ Step(do, c, k).c = c /\ Step(do, c, k).k = k
           /\ <<Step(do, c, k)>> \in Seq(Plain)
BY DEF Plain, Steps, Step

LEMMA PlainConcat ==
    ASSUME NEW s \in Seq(Plain), NEW t \in Seq(Plain)
    PROVE  s \o t \in Seq(Plain)
BY ConcatProperties

LEMMA McpPlain == ASSUME NEW c \in Clients, NEW on \in BOOLEAN PROVE Mcp(c, on) \in Seq(Plain)
<1> USE DEF ByCli, ByFile, JsonOnly, Agy, Dos, Adding, Taking, Own
<1>1. CASE c \in {"claude-code", "codex"}
  <2>1. <<Step("cli-", c, "mcp")>> \in Seq(Plain) /\ <<Step("cli+", c, "mcp")>> \in Seq(Plain)
    BY <1>1, StepPlain DEF Proper, Step
  <2>2. << >> \in Seq(Plain)
    OBVIOUS
  <2>3. Mcp(c, on) = <<Step("cli-", c, "mcp")>> \o IF on THEN <<Step("cli+", c, "mcp")>> ELSE << >>
    BY <1>1 DEF Mcp
  <2> HIDE DEF ByCli, ByFile, JsonOnly, Agy, Dos, Adding, Taking, Own
  <2> QED BY <2>1, <2>2, <2>3, PlainConcat
<1>2. CASE c = "openclaw"
  <2>1. Mcp(c, on) = <<Step("cli+", c, "mcp")>> \/ Mcp(c, on) = <<Step("cli-", c, "mcp")>>
    BY <1>2 DEF Mcp
  <2>2. Step("cli+", c, "mcp") \in Plain /\ Step("cli-", c, "mcp") \in Plain
    BY <1>2, StepPlain DEF Proper, Step
  <2>3. <<Step("cli+", c, "mcp")>> \in Seq(Plain) /\ <<Step("cli-", c, "mcp")>> \in Seq(Plain)
    BY <2>2
  <2> QED BY <2>1, <2>3
<1>3. CASE c \in ByFile
  <2>1. Mcp(c, on) = <<Step("file+", c, "mcp")>> \/ Mcp(c, on) = <<Step("file-", c, "mcp")>>
    BY <1>3 DEF Mcp
  <2>2. Step("file+", c, "mcp") \in Plain /\ Step("file-", c, "mcp") \in Plain
    BY <1>3, StepPlain DEF Proper, Step, Right
  <2>3. <<Step("file+", c, "mcp")>> \in Seq(Plain) /\ <<Step("file-", c, "mcp")>> \in Seq(Plain)
    BY <2>2
  <2> QED BY <2>1, <2>3
<1>4. CASE c = Agy
  <2>1. Mcp(c, on) = <<Step(IF on THEN "plugin+" ELSE "plugin0", c, "mcp"), Step("reg+", c, "listed")>>
    BY <1>4 DEF Mcp
  <2>2. Step(IF on THEN "plugin+" ELSE "plugin0", c, "mcp") \in Plain
    BY <1>4, StepPlain DEF Proper, Step
  <2>3. Step("reg+", c, "listed") \in Plain
    BY <1>4, StepPlain DEF Proper, Step
  <2> HIDE DEF ByCli, ByFile, JsonOnly, Agy, Dos, Adding, Taking, Own
  <2> QED BY <2>1, <2>2, <2>3
<1> QED BY <1>1, <1>2, <1>3, <1>4, ClientCases

LEMMA SkillPlain == ASSUME NEW c \in Clients, NEW on \in BOOLEAN PROVE Skill(c, on) \in Seq(Plain)
<1> USE DEF ByCli, ByFile, JsonOnly, Agy, Dos, Adding, Taking, Own
<1>1. CASE c \in JsonOnly
  BY <1>1 DEF Skill
<1>2. CASE c = Agy /\ on
  <2>1. Skill(c, on) = <<Step("skill+", c, "skill"), Step("reg+", c, "listed")>>
    BY <1>2 DEF Skill
  <2>2. Step("skill+", c, "skill") \in Plain /\ Step("reg+", c, "listed") \in Plain
    BY <1>2, StepPlain DEF Proper, Step
  <2> HIDE DEF ByCli, ByFile, JsonOnly, Agy, Dos, Adding, Taking, Own
  <2> QED BY <2>1, <2>2
<1>3. CASE c \notin JsonOnly /\ ~(c = Agy /\ on)
  <2>1. Skill(c, on) = <<Step("skill+", c, "skill")>> \/ Skill(c, on) = <<Step("skill-", c, "skill")>>
    BY <1>3 DEF Skill
  <2>2. Step("skill+", c, "skill") \in Plain /\ Step("skill-", c, "skill") \in Plain
    BY <1>3, StepPlain DEF Proper, Step
  <2>3. <<Step("skill+", c, "skill")>> \in Seq(Plain) /\ <<Step("skill-", c, "skill")>> \in Seq(Plain)
    BY <2>2
  <2> QED BY <2>1, <2>3
<1> QED BY <1>1, <1>2, <1>3

LEMMA SurfacePlain ==
    ASSUME NEW c \in Clients, NEW k, NEW on \in BOOLEAN, k \in {"mcp", "skill"} \/ Hooked(c, k)
    PROVE  Surface(c, k, on) \in Seq(Plain)
<1>1. CASE k = "mcp"
  BY <1>1, McpPlain DEF Surface
<1>2. CASE k = "skill"
  BY <1>2, SkillPlain DEF Surface
<1>3. CASE Hooked(c, k)
  <2>1. k \in {"session-start", "pre-compact"}
    BY <1>3, HookedIs
  <2>2. Surface(c, k, on) = <<Step("file+", c, k)>> \/ Surface(c, k, on) = <<Step("file-", c, k)>>
    BY <2>1 DEF Surface
  <2>3. Step("file+", c, k) \in Plain /\ Step("file-", c, k) \in Plain
    <3>1. k \in Own /\ k # "listed" /\ Right(c, k)
      BY <1>3, <2>1 DEF Own, Right
    <3>2. Proper(Step("file+", c, k)) /\ Proper(Step("file-", c, k))
      BY <3>1 DEF Proper, Step
    <3> QED BY <3>1, <3>2, StepPlain DEF Dos, Adding, Taking
  <2>4. <<Step("file+", c, k)>> \in Seq(Plain) /\ <<Step("file-", c, k)>> \in Seq(Plain)
    BY <2>3
  <2> QED BY <2>2, <2>4
<1> QED BY <1>1, <1>2, <1>3

LEMMA InstallPlain == ASSUME NEW c \in Clients PROVE Install(c) \in Seq(Plain)
<1>1. CASE c = Agy
  <2>1. Install(c) = <<Step("plugin+", c, "mcp"), Step("skill+", c, "skill"), Step("reg+", c, "listed")>>
    BY <1>1 DEF Install, InstallAgy
  <2>2. /\ Step("plugin+", c, "mcp") \in Plain /\ Step("skill+", c, "skill") \in Plain
        /\ Step("reg+", c, "listed") \in Plain
    BY <1>1, StepPlain DEF Proper, Step, Dos, Adding, Own, Agy, JsonOnly
  <2> QED BY <2>1, <2>2
<1>2. CASE c # Agy
  BY <1>2, McpPlain, SkillPlain, PlainConcat DEF Install
<1> QED BY <1>1, <1>2

LEMMA AskPlain ==
    ASSUME NEW c \in Clients, NEW k, k \in {"mcp", "skill"} \/ Hooked(c, k)
    PROVE  Step("ask", c, k) \in Plain
BY HookedIs, StepPlain DEF Proper, Step, Dos, Own

LEMMA TogglePlain ==
    ASSUME NEW c \in Clients, NEW K, \A k \in K : k \in {"mcp", "skill"} \/ Hooked(c, k),
           NEW kinds \in Seq(K)
    PROVE  Toggle(c, kinds) \in Seq(Plain)
<1>1. Len(kinds) \in Nat /\ \A i \in 1..Len(kinds) : kinds[i] \in K
  OBVIOUS
<1>2. \A i \in 1..Len(kinds) : Step("ask", c, kinds[i]) \in Plain
  BY <1>1, AskPlain
<1> QED BY <1>1, <1>2 DEF Toggle

LEMMA SetupPlain == ASSUME NEW c \in Clients PROVE Setup(c) \in Seq(Plain)
<1> DEFINE K == {k \in {"mcp", "skill", "session-start", "pre-compact"} :
                   k \in {"mcp", "skill"} \/ Hooked(c, k)}
<1>1. \A k \in K : k \in {"mcp", "skill"} \/ Hooked(c, k)
  OBVIOUS
<1>2. <<"mcp", "skill">> \in Seq(K)
  OBVIOUS
<1>3. CASE c = "claude-code"
  <2>1. ClaudeHooks \in Seq(K)
    BY <1>3, HookedIs DEF ClaudeHooks
  <2> HIDE DEF K
  <2>2. <<"mcp", "skill">> \o ClaudeHooks \in Seq(K)
    BY <1>2, <2>1, ConcatProperties
  <2>3. Toggle(c, <<"mcp", "skill">> \o ClaudeHooks) \in Seq(Plain)
    BY <1>1, <2>2, TogglePlain
  <2>4. Setup(c) = SetupClaude
    BY <1>3 DEF Setup, Agy
  <2>5. SetupClaude = Toggle(c, <<"mcp", "skill">> \o ClaudeHooks)
    BY <1>3 DEF SetupClaude
  <2> QED BY <2>3, <2>4, <2>5
<1>4. CASE c = "codex"
  <2>1. CodexHooks \in Seq(K)
    BY <1>4, HookedIs DEF CodexHooks
  <2> HIDE DEF K
  <2>2. <<"mcp", "skill">> \o CodexHooks \in Seq(K)
    BY <1>2, <2>1, ConcatProperties
  <2>3. Toggle(c, <<"mcp", "skill">> \o CodexHooks) \in Seq(Plain)
    BY <1>1, <2>2, TogglePlain
  <2>4. Setup(c) = SetupCodex
    BY <1>4 DEF Setup, Agy
  <2>5. SetupCodex = Toggle(c, <<"mcp", "skill">> \o CodexHooks)
    BY <1>4 DEF SetupCodex
  <2> QED BY <2>3, <2>4, <2>5
<1>5. CASE c \in {Agy, "opencode"}
  <2> HIDE DEF K
  <2> QED BY <1>1, <1>2, <1>5, TogglePlain DEF Setup, SetupAgy, SetupOpencode, Agy
<1>6. CASE c \notin {"claude-code", "codex", "opencode", Agy}
  <2>1. Setup(c) = <<Step("bring", c, "mcp")>>
    BY <1>6 DEF Setup
  <2>2. Step("bring", c, "mcp") \in Plain
    BY StepPlain DEF Proper, Step, Dos, Own
  <2> QED BY <2>1, <2>2
<1> QED BY <1>3, <1>4, <1>5, <1>6

(* Each client of a finite set, once each.                                  *)
LEMMA EachPlain ==
    ASSUME NEW cs \in SUBSET Clients, NEW do \in {"remove", "drop", "setup"}
    PROVE  Each(do, cs) \in Seq(Plain)
<1>1. IsFiniteSet(cs)
  <2> DEFINE all == {"claude-code", "codex", "openclaw", "cursor", "claude-desktop", "antigravity",
                     "opencode", "antigravity-cli"}
             f == [i \in 1..8 |-> CASE i = 1 -> "claude-code" [] i = 2 -> "codex"
                                     [] i = 3 -> "openclaw"    [] i = 4 -> "cursor"
                                     [] i = 5 -> "claude-desktop" [] i = 6 -> "antigravity"
                                     [] i = 7 -> "opencode"    [] OTHER -> "antigravity-cli"]
  <2>1. f[1] = "claude-code" /\ f[2] = "codex" /\ f[3] = "openclaw" /\ f[4] = "cursor"
    OBVIOUS
  <2>2. f[5] = "claude-desktop" /\ f[6] = "antigravity" /\ f[7] = "opencode" /\ f[8] = "antigravity-cli"
    OBVIOUS
  <2>3. f \in [1..8 -> all]
    OBVIOUS
  <2> HIDE DEF f
  <2>4. \A t \in all : \E i \in 1..8 : f[i] = t
    BY <2>1, <2>2
  <2> HIDE DEF all
  <2>5. f \in Surjection(1..8, all)
    BY <2>3, <2>4 DEF Surjection
  <2>6. IsFiniteSet(all)
    <3>1. 1 \in Int /\ 8 \in Int
      OBVIOUS
    <3>2. IsFiniteSet(1..8)
      BY <3>1, FS_Interval, Zenon
    <3> QED BY <2>5, <3>2, FS_Surjection
  <2>7. cs \subseteq all
    BY ClientCases DEF all
  <2> QED BY <2>6, <2>7, FS_Subset
<1>2. Cardinality(cs) \in Nat /\ ExistsBijection(1..Cardinality(cs), cs)
  BY <1>1, FS_CardinalityType
<1>3. InOrder(cs) \in [1..Cardinality(cs) -> cs]
  <2>1. \E f \in [1..Cardinality(cs) -> cs] : IsInjective(f)
    BY <1>2 DEF ExistsBijection, Bijection, Injection
  <2> QED BY <2>1 DEF InOrder, SetToSeq
<1>4. \A i \in 1..Cardinality(cs) : Step(do, InOrder(cs)[i], "mcp") \in Plain
  BY <1>3, StepPlain DEF Proper, Step, Dos, Own
<1> QED BY <1>2, <1>4 DEF Each

(* What uninstall does before it calls the client uninstalled: it only      *)
(* takes, and it takes from every place that can hold something of ours.    *)
Removal(c, steps) ==
    /\ \A i \in 1..Len(steps) : steps[i].do \in Taking /\ steps[i].c = c
    /\ c \in ByCli => \E i \in 1..Len(steps) : steps[i].do = "cli-"
    /\ c \notin JsonOnly => \E i \in 1..Len(steps) : steps[i].do \in {"skill-", "plugin-"}
    /\ c = Agy => \E i \in 1..Len(steps) : steps[i].do = "plugin-"
    /\ \A k : Right(c, k) => \E i \in 1..Len(steps) : Takes(steps[i], k)

LEMMA UninstallIs ==
    ASSUME NEW c \in Clients
    PROVE  \E steps \in Seq(Plain) :
              Removal(c, steps) /\ Uninstall(c) = Append(steps, Step("gone", c, "mcp"))
<1> USE DEF ByCli, ByFile, JsonOnly, Agy, Dos, Adding, Taking, Own
<1> DEFINE Gives(steps) == /\ steps \in Seq(Plain) /\ Removal(c, steps)
                           /\ Uninstall(c) = Append(steps, Step("gone", c, "mcp"))
           T == Step("cli-", c, "mcp")
           F == Step("file-", c, "mcp")
           H == Step("file0", c, "mcp")
           S == Step("skill-", c, "skill")
<1>1. CASE c = "claude-code"
  <2>1. T \in Plain /\ H \in Plain /\ S \in Plain
    BY <1>1, StepPlain DEF Proper, Step
  <2>2. Uninstall(c) = Append(<<T, H, S>>, Step("gone", c, "mcp"))
    BY <1>1 DEF Uninstall, UninstallClaude, Mcp, Skill, NoHooks
  <2>3. Removal(c, <<T, H, S>>)
    BY <1>1, HookedIs DEF Removal, Right, Takes, Step
  <2> HIDE DEF T, H, S
  <2>4. Gives(<<T, H, S>>)
    BY <2>1, <2>2, <2>3
  <2> QED BY <2>4
<1>2. CASE c = "codex"
  <2>1. T \in Plain /\ H \in Plain /\ S \in Plain
    BY <1>2, StepPlain DEF Proper, Step
  <2>2. Uninstall(c) = Append(<<T, S, H>>, Step("gone", c, "mcp"))
    BY <1>2 DEF Uninstall, UninstallCodex, Mcp, Skill, NoHooks
  <2>3. Removal(c, <<T, S, H>>)
    BY <1>2, HookedIs DEF Removal, Right, Takes, Step
  <2> HIDE DEF T, H, S
  <2>4. Gives(<<T, S, H>>)
    BY <2>1, <2>2, <2>3
  <2> QED BY <2>4
<1>3. CASE c = "openclaw"
  <2>1. T \in Plain /\ S \in Plain
    BY <1>3, StepPlain DEF Proper, Step
  <2>2. Uninstall(c) = Append(<<T, S>>, Step("gone", c, "mcp"))
    BY <1>3 DEF Uninstall, Mcp, Skill
  <2>3. Removal(c, <<T, S>>)
    BY <1>3, HookedIs DEF Removal, Right, Takes, Step
  <2> HIDE DEF T, S
  <2>4. Gives(<<T, S>>)
    BY <2>1, <2>2, <2>3
  <2> QED BY <2>4
<1>4. CASE c = "opencode"
  <2>1. F \in Plain /\ S \in Plain
    BY <1>4, StepPlain DEF Proper, Step, Right
  <2>2. Uninstall(c) = Append(<<F, S>>, Step("gone", c, "mcp"))
    BY <1>4 DEF Uninstall, Mcp, Skill
  <2>3. Removal(c, <<F, S>>)
    BY <1>4, HookedIs DEF Removal, Right, Takes, Step
  <2> HIDE DEF F, S
  <2>4. Gives(<<F, S>>)
    BY <2>1, <2>2, <2>3
  <2> QED BY <2>4
<1>5. CASE c \in JsonOnly
  <2>1. F \in Plain
    BY <1>5, StepPlain DEF Proper, Step, Right
  <2>2. Uninstall(c) = Append(<<F>>, Step("gone", c, "mcp"))
    BY <1>5 DEF Uninstall, Mcp, Skill
  <2>3. Removal(c, <<F>>)
    BY <1>5, HookedIs DEF Removal, Right, Takes, Step
  <2> HIDE DEF F
  <2>4. Gives(<<F>>)
    BY <2>1, <2>2, <2>3
  <2> QED BY <2>4
<1>6. CASE c = Agy
  <2> DEFINE P == Step("plugin-", c, "mcp")
             R == Step("reg-", c, "listed")
  <2>1. P \in Plain /\ R \in Plain
    BY <1>6, StepPlain DEF Proper, Step
  <2>2. Uninstall(c) = Append(<<P, R>>, Step("gone", c, "mcp"))
    BY <1>6 DEF Uninstall, UninstallAgy
  <2>3. Removal(c, <<P, R>>)
    BY <1>6, HookedIs DEF Removal, Right, Takes, Step
  <2> HIDE DEF P, R
  <2>4. Gives(<<P, R>>)
    BY <2>1, <2>2, <2>3
  <2> QED BY <2>4
<1> QED BY <1>1, <1>2, <1>3, <1>4, <1>5, <1>6, ClientCases

(***************************************************************************)
(* What is left to do.                                                      *)
(***************************************************************************)

NoGone(todo) == \A n \in 1..Len(todo) : todo[n].do # "gone"

LEMMA NoGoneFine == ASSUME NEW todo, NoGone(todo) PROVE GoneLast(todo) /\ AllCovered(todo)
BY DEF NoGone, GoneLast, AllCovered

LEMMA TailLast ==
    ASSUME NEW todo \in Seq(Steps), todo # << >>, GoneLast(todo)
    PROVE  /\ Tail(todo) \in Seq(Steps) /\ GoneLast(Tail(todo))
           /\ Head(todo) \in Steps /\ Head(todo) = todo[1]
           /\ Len(todo) \in Nat /\ Len(todo) > 0 /\ Len(Tail(todo)) = Len(todo) - 1
           /\ \A i \in 1..(Len(todo) - 1) : Tail(todo)[i] = todo[i + 1]
           /\ Head(todo).do \notin Taking => NoGone(Tail(todo))
<1>1. /\ Tail(todo) \in Seq(Steps) /\ Head(todo) \in Steps /\ Head(todo) = todo[1]
      /\ Len(todo) \in Nat /\ Len(todo) > 0 /\ Len(Tail(todo)) = Len(todo) - 1
      /\ \A i \in 1..(Len(todo) - 1) : Tail(todo)[i] = todo[i + 1]
  OBVIOUS
<1>2. ASSUME NEW n \in 1..Len(Tail(todo)), Tail(todo)[n].do = "gone"
      PROVE  /\ n + 1 \in 1..Len(todo) /\ todo[n + 1].do = "gone" /\ 1 \in 1..((n + 1) - 1)
             /\ \A i \in 1..((n + 1) - 1) : todo[i].do \in Taking /\ todo[i].c = todo[n + 1].c
  <2>1. n + 1 \in 1..Len(todo) /\ todo[n + 1].do = "gone" /\ 1 \in 1..((n + 1) - 1)
    BY <1>1, <1>2
  <2> QED BY <2>1 DEF GoneLast
<1>3. Head(todo).do \notin Taking => NoGone(Tail(todo))
  BY <1>1, <1>2 DEF NoGone
<1>4. GoneLast(Tail(todo))
  <2> SUFFICES ASSUME NEW n \in 1..Len(Tail(todo)), Tail(todo)[n].do = "gone", NEW i \in 1..(n - 1)
               PROVE  Tail(todo)[i].do \in Taking /\ Tail(todo)[i].c = Tail(todo)[n].c
    BY DEF GoneLast
  <2>1. i + 1 \in 1..((n + 1) - 1) /\ i \in 1..(Len(todo) - 1) /\ n \in 1..(Len(todo) - 1)
    BY <1>1
  <2> QED BY <1>1, <1>2, <2>1
<1> QED BY <1>1, <1>3, <1>4

(* Steps put in front of the rest.                                          *)
LEMMA ConcatSteps ==
    ASSUME NEW s \in Seq(Steps), NEW t \in Seq(Steps), NoGone(t)
    PROVE  /\ s \o t \in Seq(Steps)
           /\ \A n \in 1..Len(s \o t) : (s \o t)[n].do = "gone" =>
                 n \in 1..Len(s) /\ \A i \in 1..n : (s \o t)[i] = s[i]
<1>1. /\ s \o t \in Seq(Steps) /\ Len(s \o t) = Len(s) + Len(t) /\ Len(s) \in Nat /\ Len(t) \in Nat
      /\ \A i \in 1..Len(s) + Len(t) : (s \o t)[i] = IF i <= Len(s) THEN s[i] ELSE t[i - Len(s)]
  BY ConcatProperties
<1>2. ASSUME NEW n \in 1..Len(s \o t), (s \o t)[n].do = "gone"
      PROVE  n \in 1..Len(s) /\ \A i \in 1..n : (s \o t)[i] = s[i]
  <2>1. n <= Len(s)
    <3> SUFFICES ASSUME n > Len(s) PROVE FALSE
      BY <1>1
    <3>1. n - Len(s) \in 1..Len(t) /\ (s \o t)[n] = t[n - Len(s)]
      BY <1>1
    <3> QED BY <1>2, <3>1 DEF NoGone
  <2> QED BY <1>1, <2>1
<1> QED BY <1>1, <1>2

LEMMA PlainNoGone ==
    ASSUME NEW s \in Seq(Plain) PROVE s \in Seq(Steps) /\ NoGone(s)
BY DEF Plain, NoGone

LEMMA PlainFirst ==
    ASSUME NEW s \in Seq(Plain), NEW t \in Seq(Steps), NoGone(t)
    PROVE  s \o t \in Seq(Steps) /\ NoGone(s \o t)
BY PlainNoGone, ConcatSteps DEF NoGone

(* After a step that throws no client is called uninstalled.                *)
LEMMA SuffixPlain ==
    ASSUME NEW todo \in Seq(Steps), todo # << >>, GoneLast(todo), NEW n \in 2..(Len(todo) + 1),
           NEW skips, \A i \in 1..(n - 1) : skips => todo[i].c = Head(todo).c,
           n <= Len(todo) => skips /\ todo[n].c # Head(todo).c
    PROVE  SubSeq(todo, n, Len(todo)) \in Seq(Steps) /\ NoGone(SubSeq(todo, n, Len(todo)))
<1>1. Len(todo) \in Nat /\ \A i \in 1..Len(todo) : todo[i] \in Steps
  OBVIOUS
<1>2. Head(todo) = todo[1] /\ Len(todo) > 0
  OBVIOUS
<1>3. /\ SubSeq(todo, n, Len(todo)) \in Seq(Steps)
      /\ Len(SubSeq(todo, n, Len(todo))) = IF n <= Len(todo) THEN Len(todo) - n + 1 ELSE 0
      /\ \A i \in 1..(Len(todo) - n + 1) : SubSeq(todo, n, Len(todo))[i] = todo[n + i - 1]
  <2>1. \A i \in n..Len(todo) : todo[i] \in Steps
    BY <1>1
  <2> QED BY <1>1, <2>1, SubSeqProperties
<1>4. ASSUME NEW m \in n..Len(todo) PROVE todo[m].do # "gone"
  <2> SUFFICES ASSUME todo[m].do = "gone" PROVE FALSE
    OBVIOUS
  <2>1. m \in 1..Len(todo) /\ 1 \in 1..(m - 1) /\ n <= Len(todo)
    BY <1>1
  <2>2. todo[1].c = todo[m].c
    BY <2>1 DEF GoneLast
  <2>3. n = m \/ n \in 1..(m - 1)
    BY <1>1
  <2> QED BY <1>2, <2>1, <2>2, <2>3 DEF GoneLast
<1>5. NoGone(SubSeq(todo, n, Len(todo)))
  <2> SUFFICES ASSUME NEW i \in 1..Len(SubSeq(todo, n, Len(todo)))
               PROVE  SubSeq(todo, n, Len(todo))[i].do # "gone"
    BY DEF NoGone
  <2>1. i \in 1..(Len(todo) - n + 1) /\ n + i - 1 \in n..Len(todo)
    BY <1>1, <1>3
  <2> QED BY <1>3, <1>4, <2>1
<1> QED BY <1>3, <1>5

LEMMA DoingIs ==
    ASSUME NEW r \in Tasks, NEW todo \in Seq(Steps)
    PROVE  /\ Doing(todo, r) \in Tasks /\ Doing(todo, r).todo = todo /\ Doing(todo, r).at = "next"
           /\ Doing(todo, r).fd = "none"
<1>1. Idle \in Tasks /\ Idle.todo = << >> /\ Idle.at = "next" /\ Idle.fd = "none"
  <2>1. << >> \in Seq(Steps)
    OBVIOUS
  <2> QED BY <2>1 DEF Idle, Tasks, Ops
<1>2. CASE todo = << >>
  BY <1>1, <1>2 DEF Doing
<1>3. CASE todo # << >>
  BY <1>3 DEF Doing, Tasks
<1> QED BY <1>2, <1>3

(***************************************************************************)
(* Places that hold less.                                                   *)
(***************************************************************************)

Fewer(c) ==
    /\ cli'[c] => cli[c]
    /\ skill'[c] => skill[c]
    /\ c = Agy /\ plugin' # "none" => plugin # "none"
    /\ \A k \in Own : Has(c, k)' => Has(c, k)

(* What a step takes away is gone.                                          *)
Effect(s) ==
    /\ s.do = "cli-" => ~cli[s.c]
    /\ s.do \in {"skill-", "plugin-"} => ~skill[s.c]
    /\ s.do = "plugin-" => plugin = "none"
    /\ \A k \in Own : Takes(s, k) => ~Has(s.c, k)

LEMMA FewerTraces == ASSUME NEW c, Fewer(c), ~Traces(c) PROVE ~Traces(c)'
BY DEF Fewer, Traces

LEMMA FewerCovered ==
    ASSUME NEW todo, NEW n, Fewer(todo[n].c), Covered(todo, n) PROVE Covered(todo, n)'
BY DEF Fewer, Covered

LEMMA CoveredNext ==
    ASSUME NEW q, NEW todo, todo = proc'[q].todo, AllCovered(todo)'
    PROVE  AllCovered(proc[q].todo)'
BY DEF AllCovered, Covered, Has, Takes, Hooked, Hooks

(* A step that takes keeps what is not yet taken covered by later steps.    *)
LEMMA CleanTake ==
    ASSUME IInv, NEW p \in Procs, proc[p].todo # << >>, NEW s \in Steps, s = Now(p), s.do \in Taking,
           proc'[p].todo = Tail(proc[p].todo),
           \A q \in Procs \ {p} : proc'[q].todo = proc[q].todo,
           removed' = removed, mishaps \subseteq mishaps',
           Undisturbed' => Effect(s)' /\ \A c \in Clients : Fewer(c)
    PROVE  CleanInv'
<1> SUFFICES ASSUME Undisturbed'
             PROVE  /\ \A c \in removed' : ~Traces(c)'
                    /\ \A q \in Procs : AllCovered(proc[q].todo)'
  BY DEF CleanInv
<1>1. Undisturbed /\ Effect(s)' /\ \A c \in Clients : Fewer(c)
  BY DEF Undisturbed
<1>2. /\ \A c \in removed : ~Traces(c)
      /\ \A q \in Procs : AllCovered(proc[q].todo)
      /\ removed \subseteq Clients
      /\ \A q \in Procs : proc[q].todo \in Seq(Steps) /\ GoneLast(proc[q].todo)
  BY <1>1 DEF IInv, CleanInv, TypeOK, GoneInv, Tasks
<1>3. \A c \in removed' : ~Traces(c)'
  BY <1>1, <1>2, FewerTraces
<1>4. ASSUME NEW q \in Procs \ {p} PROVE AllCovered(proc[q].todo)'
  <2>1. PICK todo \in Seq(Steps) : todo = proc[q].todo
    BY <1>2
  <2>2. ASSUME NEW n \in 1..Len(todo), todo[n].do = "gone" PROVE Covered(todo, n)'
    <3>1. Covered(todo, n) /\ todo[n] \in Steps
      BY <1>2, <2>1, <2>2 DEF AllCovered
    <3>2. todo[n].c \in Clients
      BY <3>1 DEF Steps
    <3> QED BY <1>1, <3>1, <3>2, FewerCovered
  <2>3. AllCovered(todo)'
    BY <2>2 DEF AllCovered
  <2>4. proc'[q].todo = todo
    BY <2>1
  <2> QED BY <2>3, <2>4, CoveredNext
<1>5. AllCovered(proc[p].todo)'
  <2>1. PICK todo \in Seq(Steps) : todo = proc[p].todo
    BY <1>2
  <2> DEFINE t == Tail(todo)
  <2>2. /\ s = todo[1] /\ todo # << >> /\ GoneLast(todo) /\ AllCovered(todo)
        /\ Len(todo) \in Nat /\ Len(t) = Len(todo) - 1 /\ t \in Seq(Steps)
        /\ \A i \in 1..(Len(todo) - 1) : t[i] = todo[i + 1]
    BY <1>2, <2>1, TailLast DEF Now
  <2> HIDE DEF t
  <2>3. ASSUME NEW n \in 1..Len(t), t[n].do = "gone" PROVE Covered(t, n)'
    <3>1. /\ n + 1 \in 1..Len(todo) /\ todo[n + 1] = t[n] /\ 1 \in 1..((n + 1) - 1)
          /\ \A i \in 1..((n + 1) - 1) : i # 1 => i - 1 \in 1..(n - 1) /\ t[i - 1] = todo[i]
      BY <2>2
    <3>8. todo[n + 1].do = "gone"
      BY <2>3, <3>1
    <3>9. Covered(todo, n + 1)
      BY <2>2, <3>1, <3>8 DEF AllCovered
    <3>10. todo[1].c = todo[n + 1].c
      BY <2>2, <3>1, <3>8 DEF GoneLast
    <3>2. Covered(todo, n + 1) /\ s.c = t[n].c /\ s.c = todo[n + 1].c /\ s.c \in Clients
      BY <2>2, <3>1, <3>9, <3>10 DEF Steps
    <3> DEFINE c == s.c
    <3>3. Fewer(c)
      BY <1>1, <3>2
    <3>4. cli'[c] => \E i \in 1..(n - 1) : t[i].do = "cli-"
      <4> SUFFICES ASSUME cli'[c] PROVE \E i \in 1..(n - 1) : t[i].do = "cli-"
        OBVIOUS
      <4>1. PICK i \in 1..((n + 1) - 1) : todo[i].do = "cli-"
        BY <3>1, <3>2, <3>3 DEF Covered, Fewer
      <4>2. i # 1
        BY <1>1, <2>2, <4>1 DEF Effect
      <4> QED BY <3>1, <4>1, <4>2
    <3>5. skill'[c] => \E i \in 1..(n - 1) : t[i].do \in {"skill-", "plugin-"}
      <4> SUFFICES ASSUME skill'[c] PROVE \E i \in 1..(n - 1) : t[i].do \in {"skill-", "plugin-"}
        OBVIOUS
      <4>1. PICK i \in 1..((n + 1) - 1) : todo[i].do \in {"skill-", "plugin-"}
        BY <3>1, <3>2, <3>3 DEF Covered, Fewer
      <4>2. i # 1
        BY <1>1, <2>2, <4>1 DEF Effect
      <4> QED BY <3>1, <4>1, <4>2
    <3>6. c = Agy /\ plugin' # "none" => \E i \in 1..(n - 1) : t[i].do = "plugin-"
      <4> SUFFICES ASSUME c = Agy, plugin' # "none" PROVE \E i \in 1..(n - 1) : t[i].do = "plugin-"
        OBVIOUS
      <4>1. PICK i \in 1..((n + 1) - 1) : todo[i].do = "plugin-"
        BY <3>1, <3>2, <3>3 DEF Covered, Fewer
      <4>2. i # 1
        BY <1>1, <2>2, <4>1 DEF Effect
      <4> QED BY <3>1, <4>1, <4>2
    <3>7. ASSUME NEW k \in Own, Has(c, k)' PROVE \E i \in 1..(n - 1) : Takes(t[i], k)
      <4>1. PICK i \in 1..((n + 1) - 1) : Takes(todo[i], k)
        BY <3>1, <3>2, <3>3, <3>7 DEF Covered, Fewer
      <4>2. i # 1
        BY <1>1, <2>2, <3>7, <4>1 DEF Effect
      <4> QED BY <3>1, <4>1, <4>2
    <3> QED BY <3>2, <3>4, <3>5, <3>6, <3>7 DEF Covered
  <2>4. AllCovered(t)'
    BY <2>3 DEF AllCovered
  <2>5. proc'[p].todo = t
    BY <2>1 DEF t
  <2> QED BY <2>4, <2>5, CoveredNext
<1> QED BY <1>3, <1>4, <1>5

(* A step that adds is of a client nobody is uninstalling.                  *)
LEMMA CleanAdd ==
    ASSUME IInv, NEW p \in Procs, proc[p].todo # << >>, NEW s \in Steps, s = Now(p), s.do \in Adding,
           proc'[p].todo = Tail(proc[p].todo),
           \A q \in Procs \ {p} : proc'[q].todo = proc[q].todo,
           removed' = removed \ {s.c},
           mishaps \cup Flagged(Contested(p, s.c), "contested") \subseteq mishaps',
           \A c \in Clients \ {s.c} : Fewer(c)
    PROVE  CleanInv'
<1> SUFFICES ASSUME Undisturbed'
             PROVE  /\ \A c \in removed' : ~Traces(c)'
                    /\ \A q \in Procs : AllCovered(proc[q].todo)'
  BY DEF CleanInv
<1>1. Undisturbed /\ ~Contested(p, s.c)
  BY DEF Undisturbed, Flagged
<1>2. /\ \A c \in removed : ~Traces(c)
      /\ \A q \in Procs : AllCovered(proc[q].todo)
      /\ removed \subseteq Clients
      /\ \A q \in Procs : proc[q].todo \in Seq(Steps) /\ GoneLast(proc[q].todo)
  BY <1>1 DEF IInv, CleanInv, TypeOK, GoneInv, Tasks
<1>3. \A c \in removed' : ~Traces(c)'
  BY <1>2, FewerTraces
<1>4. ASSUME NEW q \in Procs \ {p} PROVE AllCovered(proc[q].todo)'
  <2>1. PICK todo \in Seq(Steps) : todo = proc[q].todo
    BY <1>2
  <2>2. ASSUME NEW n \in 1..Len(todo), todo[n].do = "gone" PROVE Covered(todo, n)'
    <3>1. Covered(todo, n) /\ todo[n] \in Steps
      BY <1>2, <2>1, <2>2 DEF AllCovered
    <3>2. todo[n].c \in Clients /\ todo[n].c # s.c
      BY <1>1, <2>1, <3>1 DEF Steps, Contested
    <3>3. Fewer(todo[n].c)
      BY <3>2
    <3> QED BY <3>1, <3>3, FewerCovered
  <2>3. AllCovered(todo)'
    BY <2>2 DEF AllCovered
  <2>4. proc'[q].todo = todo
    BY <2>1
  <2> QED BY <2>3, <2>4, CoveredNext
<1>5. AllCovered(proc[p].todo)'
  <2>1. PICK todo \in Seq(Steps) : todo = Tail(proc[p].todo) /\ NoGone(todo)
    <3>1. s.do \notin Taking
      BY DEF Adding, Taking
    <3> QED BY <1>2, <3>1, TailLast DEF Now
  <2>2. AllCovered(todo)'
    BY <2>1 DEF AllCovered, NoGone
  <2>3. proc'[p].todo = todo
    BY <2>1
  <2> QED BY <2>2, <2>3, CoveredNext
<1> QED BY <1>3, <1>4, <1>5

(***************************************************************************)
(* Steps that leave the files alone.                                        *)
(***************************************************************************)

LEMMA SameFile ==
    ASSUME file' = file, NEW c, NEW k PROVE Has(c, k)' <=> Has(c, k)
BY DEF Has

LEMMA SameRewritten ==
    ASSUME NEW s, file'[s.c] = file[s.c] PROVE Rewritten(s)' = Rewritten(s)
BY DEF Rewritten

LEMMA Frame ==
    ASSUME IInv, NEW p \in Procs, NEW r \in Tasks, r.at = "next", GoneLast(r.todo),
           proc' = [proc EXCEPT ![p] = r], UNCHANGED <<present, file, tmp, want>>,
           cliUp' \in [Clients -> BOOLEAN], cli' \in [Clients -> BOOLEAN], skill' \in [Clients -> BOOLEAN],
           plugin' \in {"none", "bare", "mcp"},
           \A c \in Clients : (cli'[c] => c \in ByCli) /\ (skill'[c] => c \notin JsonOnly),
           removed' \subseteq Clients, mishaps \subseteq mishaps', CleanInv'
    PROVE  IInv'
<1>1. /\ proc'[p] = r /\ proc' \in [Procs -> Tasks]
      /\ \A q \in Procs : q # p => proc'[q] = proc[q]
      /\ \A q \in Procs : InFile(q)' => q # p /\ InFile(q)
      /\ \A q \in Procs, c \in Clients : Writes(q, c)' => q # p /\ Writes(q, c)
      /\ \A q \in Procs : q # p => Now(q)' = Now(q)
  BY DEF IInv, TypeOK, InFile, Writes, Now
<1>2. TypeOK'
  BY <1>1 DEF IInv, TypeOK
<1>3. WriteInv'
  <2> SUFFICES ASSUME "shared" \notin mishaps' PROVE WriteInv!2'
    BY DEF WriteInv
  <2>1. WriteInv!2
    BY DEF IInv, WriteInv
  <2> QED BY <1>1, <2>1 DEF Writes, Now
<1>4. HeldInv'
  <2> SUFFICES ASSUME mishaps' \cap {"overtaken", "shared"} = {}, NEW q \in Procs, InFile(q)',
                      NEW s, s = Now(q)'
               PROVE  proc'[q].held = Rewritten(s)'
    BY DEF HeldInv
  <2>1. q # p /\ InFile(q) /\ s = Now(q) /\ mishaps \cap {"overtaken", "shared"} = {}
    BY <1>1
  <2>2. proc[q].held = Rewritten(s)
    BY <2>1 DEF IInv, HeldInv
  <2> QED BY <1>1, <2>1, <2>2, SameRewritten
<1>5. KeptInv'
  <2> SUFFICES ASSUME mishaps' \cap {"overtaken", "shared", "mixed"} = {},
                      NEW c \in Clients, NEW w \in want[c]
               PROVE  /\ Has(c, w)'
                      /\ \A q \in Procs : InFile(q)' /\ Now(q)'.c = c => \E g \in proc'[q].held : w \in g
    BY DEF KeptInv
  <2>1. mishaps \cap {"overtaken", "shared", "mixed"} = {}
    OBVIOUS
  <2>2. Has(c, w) /\ \A q \in Procs : InFile(q) /\ Now(q).c = c => \E g \in proc[q].held : w \in g
    BY <2>1 DEF IInv, KeptInv
  <2> QED BY <1>1, <2>2, SameFile
<1>6. PlacesInv'
  <2>1. mishaps' \cap {"overtaken", "shared"} = {} => mishaps \cap {"overtaken", "shared"} = {}
    OBVIOUS
  <2> QED BY <2>1, SameFile DEF IInv, PlacesInv
<1>7. GoneInv'
  <2>1. \A q \in Procs : GoneLast(proc[q].todo)
    BY DEF IInv, GoneInv
  <2> QED BY <1>1, <2>1 DEF GoneInv, GoneLast
<1> QED BY <1>2, <1>3, <1>4, <1>5, <1>6, <1>7 DEF IInv

(* A step that changes nothing but what is left to do.                      *)
LEMMA Quiet ==
    ASSUME IInv, NEW p \in Procs, NEW r \in Tasks, r.at = "next", GoneLast(r.todo),
           proc' = [proc EXCEPT ![p] = r], UNCHANGED <<present, foreign, ours, file, tmp, removed>>,
           mishaps \subseteq mishaps', Undisturbed => AllCovered(r.todo)
    PROVE  IInv'
<1>1. CleanInv'
  <2> SUFFICES ASSUME Undisturbed'
               PROVE  /\ \A c \in removed : ~Traces(c)'
                      /\ \A q \in Procs : AllCovered(proc[q].todo)'
    BY DEF CleanInv
  <2>1. Undisturbed
    BY DEF Undisturbed
  <2>2. /\ \A c \in removed : ~Traces(c)
        /\ \A q \in Procs : AllCovered(proc[q].todo)
    BY <2>1 DEF IInv, CleanInv
  <2>3. \A c : Fewer(c)
    BY SameFile DEF Fewer, ours
  <2>4. \A q \in Procs : AllCovered(proc'[q].todo)
    BY <2>1, <2>2 DEF IInv, TypeOK
  <2>5. ASSUME NEW q \in Procs PROVE AllCovered(proc[q].todo)'
    <3>1. PICK todo : todo = proc'[q].todo
      OBVIOUS
    <3>2. AllCovered(todo)
      BY <2>4, <3>1
    <3>3. \A n \in 1..Len(todo) : todo[n].do = "gone" => Covered(todo, n)'
      BY <2>3, <3>2, FewerCovered DEF AllCovered
    <3>4. AllCovered(todo)'
      BY <3>3 DEF AllCovered
    <3> QED BY <3>1, <3>4, CoveredNext
  <2> QED BY <2>2, <2>3, <2>5, FewerTraces
<1> QED BY <1>1, Frame DEF IInv, TypeOK, PlacesInv, foreign, ours

(***************************************************************************)
(* Commands that begin, ask and decide.                                     *)
(***************************************************************************)

(* What is left to do may become t.                                         *)
Fine(t) == t \in Seq(Steps) /\ GoneLast(t) /\ (Undisturbed => AllCovered(t))

LEMMA PlainFine ==
    ASSUME NEW s \in Seq(Plain), NEW t \in Seq(Steps), NoGone(t)
    PROVE  Fine(s) /\ Fine(t) /\ Fine(s \o t)
BY PlainNoGone, PlainFirst, NoGoneFine DEF Fine

(* An uninstall that begins covers all that the client can hold of ours.    *)
LEMMA UninstallFine ==
    ASSUME IInv, NEW c \in Clients, NEW t \in Seq(Steps), NoGone(t)
    PROVE  Fine(Uninstall(c) \o t)
<1>1. PICK steps \in Seq(Plain) : Removal(c, steps) /\ Uninstall(c) = Append(steps, Step("gone", c, "mcp"))
  BY UninstallIs
<1> DEFINE g == Step("gone", c, "mcp")
           u == Append(steps, g)
           s == u \o t
<1>2. g \in Steps /\ g.do = "gone" /\ g.c = c
  BY DEF Steps, Step, Proper, Dos, Own
<1>3. steps \in Seq(Steps) /\ NoGone(steps)
  BY PlainNoGone
<1> HIDE DEF g
<1>4. /\ u \in Seq(Steps) /\ Len(u) = Len(steps) + 1 /\ Len(steps) \in Nat
      /\ \A i \in 1..Len(steps) : u[i] = steps[i]
      /\ u[Len(steps) + 1] = g
  BY <1>2, <1>3
<1> HIDE DEF u
<1>5. s \in Seq(Steps) /\ \A n \in 1..Len(s) : s[n].do = "gone" =>
        n \in 1..Len(u) /\ \A i \in 1..n : s[i] = u[i]
  BY <1>4, ConcatSteps
<1> HIDE DEF s
<1>6. ASSUME NEW n \in 1..Len(s), s[n].do = "gone"
      PROVE  n = Len(steps) + 1 /\ s[n] = g /\ \A i \in 1..Len(steps) : i \in 1..(n - 1) /\ s[i] = steps[i]
  <2>1. n \in 1..Len(u) /\ n \in 1..n /\ \A i \in 1..n : s[i] = u[i]
    BY <1>5, <1>6
  <2>2. n \notin 1..Len(steps)
    BY <1>3, <1>4, <1>6, <2>1 DEF NoGone
  <2> QED BY <1>4, <2>1, <2>2
<1>7. GoneLast(s)
  <2> SUFFICES ASSUME NEW n \in 1..Len(s), s[n].do = "gone", NEW i \in 1..(n - 1)
               PROVE  s[i].do \in Taking /\ s[i].c = s[n].c
    BY DEF GoneLast
  <2>1. i \in 1..Len(steps) /\ s[i] = steps[i] /\ s[n].c = c
    BY <1>2, <1>4, <1>6
  <2> QED BY <1>1, <2>1 DEF Removal
<1>8. ASSUME Undisturbed, NEW n \in 1..Len(s), s[n].do = "gone" PROVE Covered(s, n)
  <2>1. s[n].c = c
    BY <1>2, <1>6, <1>8
  <2>2. /\ cli[c] => c \in ByCli
        /\ skill[c] => c \notin JsonOnly
        /\ \A k \in Own : Has(c, k) => Right(c, k)
    BY <1>8 DEF IInv, PlacesInv, Undisturbed
  <2>3. /\ cli[c] => \E i \in 1..Len(steps) : steps[i].do = "cli-"
        /\ skill[c] => \E i \in 1..Len(steps) : steps[i].do \in {"skill-", "plugin-"}
        /\ c = Agy => \E i \in 1..Len(steps) : steps[i].do = "plugin-"
        /\ \A k \in Own : Has(c, k) => \E i \in 1..Len(steps) : Takes(steps[i], k)
    BY <1>1, <2>2 DEF Removal
  <2>4. \A i \in 1..Len(steps) : i \in 1..(n - 1) /\ s[i] = steps[i]
    BY <1>6, <1>8
  <2>5. \A k \in Own : Has(c, k) => \E i \in 1..(n - 1) : Takes(s[i], k)
    BY <2>3, <2>4
  <2>6. /\ cli[c] => \E i \in 1..(n - 1) : s[i].do = "cli-"
        /\ skill[c] => \E i \in 1..(n - 1) : s[i].do \in {"skill-", "plugin-"}
        /\ c = Agy /\ plugin # "none" => \E i \in 1..(n - 1) : s[i].do = "plugin-"
    BY <2>3, <2>4
  <2> QED BY <2>1, <2>5, <2>6 DEF Covered
<1> QED BY <1>1, <1>5, <1>7, <1>8 DEF Fine, AllCovered, s, u, g

LEMMA UninstallAlone == ASSUME IInv, NEW c \in Clients PROVE Fine(Uninstall(c))
<1>1. Uninstall(c) \in Seq(Steps)
  <2>1. Step("gone", c, "mcp") \in Steps
    BY DEF Steps, Step, Proper, Dos, Own
  <2> QED BY <2>1, UninstallIs, PlainNoGone
<1>2. << >> \in Seq(Steps) /\ NoGone(<< >>)
  BY DEF NoGone
<1>3. Uninstall(c) \o << >> = Uninstall(c)
  BY <1>1
<1> QED BY <1>2, <1>3, UninstallFine

LEMMA BeginKeeps ==
    ASSUME IInv, NEW p \in Procs, NEW op \in Ops, NEW todo, Fine(todo),
           NEW skips \in BOOLEAN, NEW blind \in BOOLEAN, Begin(p, op, todo, skips, blind)
    PROVE  IInv'
<1> DEFINE r == [Idle EXCEPT !.op = op, !.todo = todo, !.skips = skips, !.blind = blind]
<1>1. r \in Tasks /\ r.at = "next" /\ r.todo = todo
  BY DEF Idle, Tasks, Fine
<1>2. /\ proc' = [proc EXCEPT ![p] = r] /\ UNCHANGED <<present, foreign, ours, file, tmp, removed>>
      /\ mishaps \subseteq mishaps'
  BY DEF Begin
<1> HIDE DEF r
<1> QED BY <1>1, <1>2, Quiet DEF Fine

LEMMA CommandKeeps == ASSUME IInv, NEW p \in Procs, Command(p) PROVE IInv'
<1> USE DEF Ops
<1>0. present \subseteq Clients
  BY DEF IInv, TypeOK
<1>e. << >> \in Seq(Steps) /\ NoGone(<< >>)
  BY DEF NoGone
<1>1. ASSUME NEW c \in present, Enable(p, c) PROVE IInv'
  <2>1. Fine(Install(c))
    BY <1>0, <1>e, InstallPlain, PlainFine
  <2> QED BY <1>1, <2>1, BeginKeeps DEF Enable
<1>2. ASSUME NEW c \in present, Disable(p, c) PROVE IInv'
  BY <1>0, <1>2, UninstallAlone, BeginKeeps DEF Disable
<1>3. ASSUME NEW c \in present, NEW k \in Own, NEW on \in BOOLEAN, Hook(p, c, k, on) PROVE IInv'
  <2>1. Fine(Surface(c, k, on))
    BY <1>0, <1>e, <1>3, SurfacePlain, PlainFine DEF Hook, Hooked
  <2> QED BY <1>3, <2>1, BeginKeeps DEF Hook
<1>4. ASSUME NEW cs \in SUBSET present, NEW blind \in BOOLEAN, Configure(p, cs, blind) PROVE IInv'
  <2>1. PICK ticked \in SUBSET Clients :
           Begin(p, IF blind THEN "enter" ELSE "configure",
                 Each("drop", present \ ticked) \o Each("setup", ticked), TRUE, blind)
    BY <1>0, <1>4 DEF Configure
  <2>2. Each("drop", present \ ticked) \in Seq(Plain) /\ Each("setup", ticked) \in Seq(Plain)
    BY <1>0, EachPlain
  <2>3. Fine(Each("drop", present \ ticked) \o Each("setup", ticked))
    BY <2>2, PlainFine, PlainNoGone
  <2> QED BY <2>1, <2>3, BeginKeeps
<1>5. ASSUME Destroy(p) PROVE IInv'
  <2>1. PICK cs \in SUBSET Clients : Begin(p, "destroy", Each("remove", cs), FALSE, FALSE)
    BY <1>0, <1>5 DEF Destroy
  <2>2. Fine(Each("remove", cs))
    BY <1>e, EachPlain, PlainFine
  <2> QED BY <2>1, <2>2, BeginKeeps
<1> QED BY <1>1, <1>2, <1>3, <1>4, <1>5 DEF Command

(***************************************************************************)
(* A step, once decided, gives way to others or to the rest.                *)
(***************************************************************************)

(* The first of what p has to do.                                           *)
LEMMA First ==
    ASSUME IInv, NEW p \in Procs, proc[p].todo # << >>
    PROVE  /\ Now(p) \in Steps /\ Now(p) = proc[p].todo[1] /\ Now(p).c \in Clients
           /\ proc[p] \in Tasks /\ proc[p].todo \in Seq(Steps) /\ GoneLast(proc[p].todo)
           /\ Tail(proc[p].todo) \in Seq(Steps) /\ GoneLast(Tail(proc[p].todo))
           /\ Now(p).do \notin Taking => NoGone(Tail(proc[p].todo))
<1>1. proc[p] \in Tasks /\ proc[p].todo \in Seq(Steps) /\ GoneLast(proc[p].todo)
  BY DEF IInv, TypeOK, GoneInv, Tasks
<1> QED BY <1>1, TailLast DEF Now, Steps

LEMMA BecomesKeeps ==
    ASSUME IInv, NEW p \in Procs, proc[p].todo # << >>, NEW s, Fine(s \o Tail(proc[p].todo)),
           Becomes(p, s), UNCHANGED <<present, foreign, ours, file, tmp, removed>>,
           mishaps \subseteq mishaps'
    PROVE  IInv'
<1>1. PICK t : t = s \o Tail(proc[p].todo)
  OBVIOUS
<1>2. PICK r : r = Doing(t, proc[p])
  OBVIOUS
<1>3. r \in Tasks /\ r.todo = t /\ r.at = "next"
  BY <1>1, <1>2, First, DoingIs DEF Fine
<1>4. proc' = [proc EXCEPT ![p] = r]
  BY <1>1, <1>2 DEF Becomes
<1> QED BY <1>1, <1>3, <1>4, Quiet DEF Fine

LEMMA ThrowsIs ==
    ASSUME IInv, NEW p \in Procs, proc[p].todo # << >>, Throws(p)
    PROVE  /\ \E r \in Tasks : /\ proc' = [proc EXCEPT ![p] = r] /\ r.at = "next"
                               /\ NoGone(r.todo)
           /\ mishaps' = mishaps \cup {"cut"}
<1>1. PICK todo : todo = proc[p].todo
  OBVIOUS
<1>2. PICK n \in 2..(Len(todo) + 1) :
        /\ \A i \in 1..(n - 1) : proc[p].skips => todo[i].c = Now(p).c
        /\ n <= Len(todo) => proc[p].skips /\ todo[n].c # Now(p).c
        /\ proc' = [proc EXCEPT ![p] = Doing(SubSeq(todo, n, Len(todo)), proc[p])]
  BY <1>1 DEF Throws
<1>3. todo \in Seq(Steps) /\ GoneLast(todo) /\ todo # << >> /\ Now(p) = Head(todo) /\ proc[p] \in Tasks
  BY <1>1, First DEF Now
<1>4. PICK t : t = SubSeq(todo, n, Len(todo))
  OBVIOUS
<1>5. t \in Seq(Steps) /\ NoGone(t)
  BY <1>2, <1>3, <1>4, SuffixPlain
<1>6. PICK r : r = Doing(t, proc[p])
  OBVIOUS
<1>7. r \in Tasks /\ r.todo = t /\ r.at = "next"
  BY <1>3, <1>5, <1>6, DoingIs
<1>8. proc' = [proc EXCEPT ![p] = r]
  BY <1>2, <1>4, <1>6
<1> QED BY <1>5, <1>7, <1>8 DEF Throws, Hit

LEMMA ThrowsKeeps ==
    ASSUME IInv, NEW p \in Procs, proc[p].todo # << >>, Throws(p),
           UNCHANGED <<present, foreign, ours, file, tmp, removed>>
    PROVE  IInv'
BY ThrowsIs, NoGoneFine, Quiet

LEMMA AskKeeps == ASSUME IInv, NEW p \in Procs, Ask(p) PROVE IInv'
<1>1. /\ proc[p].todo # << >> /\ Now(p).do = "ask"
      /\ UNCHANGED <<present, foreign, ours, file, tmp, removed>>
  BY DEF Ask, At, Now
<1>2. CASE Throws(p)
  BY <1>1, <1>2, ThrowsKeeps
<1>3. CASE ~Throws(p)
  <2>1. PICK on \in BOOLEAN : Becomes(p, Surface(Now(p).c, Now(p).k, on)) /\ UNCHANGED mishaps
    <3>1. Offered(Now(p).c, Now(p).k) \in BOOLEAN
      BY DEF Offered
    <3> QED BY <1>3, <3>1 DEF Ask
  <2>2. /\ NoGone(Tail(proc[p].todo)) /\ Tail(proc[p].todo) \in Seq(Steps) /\ Now(p).c \in Clients
        /\ Now(p).k \in {"mcp", "skill"} \/ Hooked(Now(p).c, Now(p).k)
    BY <1>1, First DEF Steps, Proper, Taking
  <2>3. Fine(Surface(Now(p).c, Now(p).k, on) \o Tail(proc[p].todo))
    BY <2>2, SurfacePlain, PlainFine
  <2> QED BY <1>1, <2>1, <2>3, BecomesKeeps
<1> QED BY <1>2, <1>3

LEMMA DecideKeeps == ASSUME IInv, NEW p \in Procs, Decide(p) PROVE IInv'
<1>1. /\ proc[p].todo # << >> /\ Now(p).do \in {"remove", "drop", "setup", "bring"}
      /\ UNCHANGED <<present, foreign, ours, file, tmp, removed>>
  BY DEF Decide, At, Now
<1>2. CASE Throws(p)
  BY <1>1, <1>2, ThrowsKeeps
<1>3. CASE ~Throws(p)
  <2> DEFINE c == Now(p).c
  <2>1. /\ \/ Becomes(p, Uninstall(c)) \/ Becomes(p, << >>) \/ Becomes(p, Setup(c)) \/ Becomes(p, Install(c))
        /\ UNCHANGED mishaps
    BY <1>1, <1>3 DEF Decide
  <2>2. /\ NoGone(Tail(proc[p].todo)) /\ Tail(proc[p].todo) \in Seq(Steps) /\ c \in Clients
    BY <1>1, First DEF Taking
  <2>3. << >> \in Seq(Plain)
    OBVIOUS
  <2>4. /\ Fine(Uninstall(c) \o Tail(proc[p].todo)) /\ Fine(<< >> \o Tail(proc[p].todo))
        /\ Fine(Setup(c) \o Tail(proc[p].todo)) /\ Fine(Install(c) \o Tail(proc[p].todo))
    BY <2>2, <2>3, UninstallFine, SetupPlain, InstallPlain, PlainFine
  <2> HIDE DEF c
  <2> QED BY <1>1, <2>1, <2>4, BecomesKeeps
<1> QED BY <1>2, <1>3

LEMMA KillKeeps == ASSUME IInv, NEW p \in Procs, Kill(p) PROVE IInv'
<1>1. << >> \in Seq(Steps) /\ NoGone(<< >>)
  BY DEF NoGone
<1>2. Idle \in Tasks /\ Idle.at = "next" /\ Idle.todo = << >>
  BY <1>1 DEF Idle, Tasks, Ops
<1>3. /\ proc' = [proc EXCEPT ![p] = Idle] /\ UNCHANGED <<present, foreign, ours, file, tmp, removed>>
      /\ mishaps \subseteq mishaps'
  BY DEF Kill, Hit
<1> QED BY <1>1, <1>2, <1>3, NoGoneFine, Quiet

(***************************************************************************)
(* Steps outside the JSON files.                                            *)
(***************************************************************************)

LEMMA GoesIs ==
    ASSUME IInv, NEW p \in Procs, proc[p].todo # << >>, Goes(p)
    PROVE  /\ \E r \in Tasks : /\ proc' = [proc EXCEPT ![p] = r] /\ r.at = "next"
                               /\ r.todo = Tail(proc[p].todo) /\ GoneLast(r.todo)
           /\ proc'[p].todo = Tail(proc[p].todo)
           /\ \A q \in Procs \ {p} : proc'[q].todo = proc[q].todo
<1>1. PICK t : t = Tail(proc[p].todo)
  OBVIOUS
<1>2. PICK r : r = Doing(t, proc[p])
  OBVIOUS
<1>3. r \in Tasks /\ r.todo = t /\ r.at = "next" /\ GoneLast(t)
  BY <1>1, <1>2, First, DoingIs
<1>4. proc' = [proc EXCEPT ![p] = r]
  BY <1>1, <1>2 DEF Goes
<1>5. proc'[p] = r /\ \A q \in Procs \ {p} : proc'[q] = proc[q]
  BY <1>4 DEF IInv, TypeOK
<1> QED BY <1>1, <1>3, <1>4, <1>5

(* The histories of a step.                                                 *)
LEMMA NotesIs ==
    ASSUME NEW p \in Procs, NEW more, NEW s, s = Now(p), Notes(p, more)
    PROVE  /\ mishaps \cup more \subseteq mishaps'
           /\ s.do \in Taking => removed' = removed
           /\ s.do \in Adding => /\ removed' = removed \ {s.c}
                                 /\ mishaps \cup Flagged(Contested(p, s.c), "contested") \subseteq mishaps'
BY DEF Notes, Hit, Adding, Taking

LEMMA CliRemoveKeeps == ASSUME IInv, NEW p \in Procs, CliRemove(p) PROVE IInv'
<1>1. PICK s : s = Now(p)
  OBVIOUS
<1>2. /\ proc[p].todo # << >> /\ s.do = "cli-" /\ s \in Steps /\ s.c \in Clients
      /\ UNCHANGED <<present, foreign, skill, plugin, file, tmp>>
  BY <1>1, First DEF CliRemove, At, Now
<1>3. removed' = removed /\ mishaps \cup Flagged(cli[s.c] /\ ~cliUp[s.c], "deaf") \subseteq mishaps'
  BY <1>1, <1>2, NotesIs DEF CliRemove, Taking
<1>4. /\ cli' = IF cliUp[s.c] THEN [cli EXCEPT ![s.c] = FALSE] ELSE cli
      /\ cli \in [Clients -> BOOLEAN]
  BY <1>1 DEF CliRemove, IInv, TypeOK
<1>5. Undisturbed' => Effect(s)'
  <2> SUFFICES ASSUME Undisturbed' PROVE ~cli'[s.c]
    BY <1>2 DEF Effect, Takes
  <2>1. ~(cli[s.c] /\ ~cliUp[s.c])
    BY <1>3 DEF Undisturbed, Flagged
  <2> QED BY <1>2, <1>4, <2>1
<1>6. \A c \in Clients : Fewer(c)
  BY <1>2, <1>4, SameFile DEF Fewer
<1>7. CleanInv'
  BY <1>1, <1>2, <1>3, <1>5, <1>6, GoesIs, CleanTake DEF CliRemove, Taking
<1>8. /\ \A c \in Clients : (cli'[c] => c \in ByCli) /\ (skill'[c] => c \notin JsonOnly)
      /\ cli' \in [Clients -> BOOLEAN]
  BY <1>2, <1>4, <1>6 DEF IInv, PlacesInv
<1> QED BY <1>2, <1>3, <1>7, <1>8, GoesIs, Frame DEF CliRemove, IInv, TypeOK, foreign

LEMMA CliAddKeeps == ASSUME IInv, NEW p \in Procs, CliAdd(p) PROVE IInv'
<1>1. PICK s : s = Now(p)
  OBVIOUS
<1>2. /\ proc[p].todo # << >> /\ s.do = "cli+" /\ s \in Steps /\ s.c \in Clients
      /\ UNCHANGED <<present, foreign, skill, plugin, file, tmp>>
  BY <1>1, First DEF CliAdd, At, Now
<1>3. CASE Throws(p) /\ UNCHANGED <<cli, removed>>
  BY <1>2, <1>3, ThrowsKeeps DEF ours
<1>4. CASE cli' = [cli EXCEPT ![s.c] = TRUE] /\ Notes(p, {}) /\ Goes(p)
  <2>1. /\ removed' = removed \ {s.c}
        /\ mishaps \cup Flagged(Contested(p, s.c), "contested") \subseteq mishaps'
    BY <1>1, <1>2, <1>4, NotesIs DEF Adding
  <2>2. cli \in [Clients -> BOOLEAN]
    BY DEF IInv, TypeOK
  <2>3. \A c \in Clients \ {s.c} : Fewer(c)
    BY <1>2, <1>4, <2>2, SameFile DEF Fewer
  <2>4. CleanInv'
    BY <1>1, <1>2, <1>4, <2>1, <2>3, GoesIs, CleanAdd DEF Adding
  <2>5. s.c \in ByCli
    BY <1>2 DEF Steps, Proper
  <2>6. /\ \A c \in Clients : (cli'[c] => c \in ByCli) /\ (skill'[c] => c \notin JsonOnly)
        /\ cli' \in [Clients -> BOOLEAN]
    BY <1>2, <1>4, <2>2, <2>5 DEF IInv, PlacesInv
  <2> QED BY <1>2, <1>4, <2>1, <2>4, <2>6, GoesIs, Frame DEF IInv, TypeOK, foreign
<1> QED BY <1>1, <1>3, <1>4 DEF CliAdd

(* The step of Directory that does not throw.                               *)
Placed(p) ==
    LET s == Now(p) IN
         /\ skill' = [skill EXCEPT ![s.c] = CASE s.do = "skill+" -> TRUE
                                              [] s.do \in {"skill-", "plugin-"} -> FALSE
                                              [] OTHER -> @]
         /\ plugin' = CASE s.do = "plugin+" -> "mcp"
                         [] s.do = "plugin0" -> "bare"
                         [] s.do = "plugin-" -> "none"
                         [] OTHER -> plugin
         /\ Notes(p, {}) /\ Goes(p)

LEMMA DirectoryDone == ASSUME IInv, NEW p \in Procs, Directory(p), Placed(p) PROVE IInv'
<1>1. PICK s : s = Now(p)
  OBVIOUS
<1>2. /\ proc[p].todo # << >> /\ s.do \in {"skill+", "skill-", "plugin+", "plugin0", "plugin-"}
      /\ s \in Steps /\ s.c \in Clients /\ Notes(p, {}) /\ Goes(p)
      /\ UNCHANGED <<present, foreign, cli, file, tmp>>
  BY <1>1, First DEF Directory, Placed, At, Now
<1>3. /\ skill' = [skill EXCEPT ![s.c] = CASE s.do = "skill+" -> TRUE
                                           [] s.do \in {"skill-", "plugin-"} -> FALSE
                                           [] OTHER -> skill[s.c]]
      /\ plugin' = CASE s.do = "plugin+" -> "mcp"
                      [] s.do = "plugin0" -> "bare"
                      [] s.do = "plugin-" -> "none"
                      [] OTHER -> plugin
  BY <1>1 DEF Placed
<1>4. skill \in [Clients -> BOOLEAN] /\ plugin \in {"none", "bare", "mcp"}
  BY DEF IInv, TypeOK
<1>5. s.do = "skill+" => s.c \notin JsonOnly
  BY <1>2 DEF Steps, Proper
<1>6. s.do \in {"plugin+", "plugin0", "plugin-"} => s.c = Agy
  BY <1>2 DEF Steps, Proper
<1>7. /\ \A c \in Clients : (cli'[c] => c \in ByCli) /\ (skill'[c] => c \notin JsonOnly)
      /\ skill' \in [Clients -> BOOLEAN] /\ plugin' \in {"none", "bare", "mcp"}
  BY <1>2, <1>3, <1>4, <1>5 DEF IInv, PlacesInv
<1>8. CASE s.do \in {"skill-", "plugin-"}
  <2>1. removed' = removed /\ mishaps \subseteq mishaps' /\ s.do \in Taking
    BY <1>1, <1>2, <1>8, NotesIs DEF Taking
  <2>2. Effect(s)'
    BY <1>2, <1>3, <1>4, <1>8 DEF Effect, Takes
  <2>3. \A c \in Clients : Fewer(c)
    BY <1>2, <1>3, <1>4, <1>8, SameFile DEF Fewer
  <2>4. CleanInv'
    BY <1>1, <1>2, <2>1, <2>2, <2>3, GoesIs, CleanTake
  <2> QED BY <1>2, <1>7, <2>1, <2>4, GoesIs, Frame DEF IInv, TypeOK, foreign
<1>9. CASE s.do \in {"skill+", "plugin+", "plugin0"}
  <2>1. /\ removed' = removed \ {s.c} /\ s.do \in Adding
        /\ mishaps \cup Flagged(Contested(p, s.c), "contested") \subseteq mishaps'
    BY <1>1, <1>2, <1>9, NotesIs DEF Adding
  <2>3. \A c \in Clients \ {s.c} : Fewer(c)
    <3>1. ASSUME NEW c \in Clients \ {s.c} PROVE skill'[c] = skill[c] /\ (c = Agy => plugin' = plugin)
      BY <1>2, <1>3, <1>4, <1>6, <1>9
    <3> QED BY <1>2, <3>1, SameFile DEF Fewer
  <2>4. CleanInv'
    BY <1>1, <1>2, <2>1, <2>3, GoesIs, CleanAdd
  <2> QED BY <1>2, <1>7, <2>1, <2>4, GoesIs, Frame DEF IInv, TypeOK, foreign
<1> QED BY <1>2, <1>8, <1>9

LEMMA DirectoryKeeps == ASSUME IInv, NEW p \in Procs, Directory(p) PROVE IInv'
<1>1. /\ proc[p].todo # << >> /\ UNCHANGED <<present, foreign, cli, file, tmp>>
      /\ Placed(p) \/ (Throws(p) /\ UNCHANGED <<skill, plugin, removed>>)
  BY DEF Directory, At, Placed
<1>2. CASE Throws(p) /\ UNCHANGED <<skill, plugin, removed>>
  BY <1>1, <1>2, ThrowsKeeps DEF ours
<1> QED BY <1>1, <1>2, DirectoryDone

(* Todos stay as they are, and nothing of ours appears.                     *)
LEMMA CleanFewer ==
    ASSUME IInv, \A q \in Procs : proc'[q].todo = proc[q].todo, removed' = removed,
           mishaps \subseteq mishaps', Undisturbed' => \A c \in Clients : Fewer(c)
    PROVE  CleanInv'
<1> SUFFICES ASSUME Undisturbed'
             PROVE  /\ \A c \in removed' : ~Traces(c)'
                    /\ \A q \in Procs : AllCovered(proc[q].todo)'
  BY DEF CleanInv
<1>1. Undisturbed /\ \A c \in Clients : Fewer(c)
  BY DEF Undisturbed
<1>2. /\ \A c \in removed : ~Traces(c)
      /\ \A q \in Procs : AllCovered(proc[q].todo) /\ proc[q].todo \in Seq(Steps)
      /\ removed \subseteq Clients
  BY <1>1 DEF IInv, CleanInv, TypeOK, Tasks
<1>3. ASSUME NEW q \in Procs PROVE AllCovered(proc[q].todo)'
  <2>1. PICK todo \in Seq(Steps) : todo = proc[q].todo
    BY <1>2
  <2>2. ASSUME NEW n \in 1..Len(todo), todo[n].do = "gone" PROVE Covered(todo, n)'
    <3>1. Covered(todo, n) /\ todo[n] \in Steps
      BY <1>2, <2>1, <2>2 DEF AllCovered
    <3>2. todo[n].c \in Clients
      BY <3>1 DEF Steps
    <3> QED BY <1>1, <3>1, <3>2, FewerCovered
  <2>3. AllCovered(todo)'
    BY <2>2 DEF AllCovered
  <2>4. proc'[q].todo = todo
    BY <2>1
  <2> QED BY <2>3, <2>4, CoveredNext
<1> QED BY <1>1, <1>2, <1>3, FewerTraces

LEMMA GoneKeeps == ASSUME IInv, NEW p \in Procs, Gone(p) PROVE IInv'
<1>1. PICK s : s = Now(p)
  OBVIOUS
<1>2. /\ proc[p].todo # << >> /\ s.do = "gone" /\ s = proc[p].todo[1] /\ s.c \in Clients
      /\ proc[p].todo \in Seq(Steps) /\ NoGone(Tail(proc[p].todo))
      /\ removed' = removed \cup {s.c} /\ Goes(p)
      /\ UNCHANGED <<present, foreign, ours, file, tmp, mishaps>>
  BY <1>1, First DEF Gone, At, Now, Taking
<1>3. \A c : Fewer(c)
  BY <1>2, SameFile DEF Fewer, ours
<1>4. CleanInv'
  <2> SUFFICES ASSUME Undisturbed'
               PROVE  /\ \A c \in removed' : ~Traces(c)'
                      /\ \A q \in Procs : AllCovered(proc[q].todo)'
    BY DEF CleanInv
  <2>1. Undisturbed
    BY <1>2 DEF Undisturbed
  <2>2. /\ \A c \in removed : ~Traces(c)
        /\ \A q \in Procs : AllCovered(proc[q].todo)
    BY <2>1 DEF IInv, CleanInv
  <2>3. ~Traces(s.c)
    <3>1. Covered(proc[p].todo, 1) /\ proc[p].todo[1].c = s.c
      BY <1>2, <2>2 DEF AllCovered
    <3>2. \A i \in 1..(1 - 1) : FALSE
      OBVIOUS
    <3> QED BY <3>1, <3>2 DEF Covered, Traces
  <2>4. ASSUME NEW q \in Procs PROVE AllCovered(proc[q].todo)'
    <3>1. PICK todo : todo = proc'[q].todo
      OBVIOUS
    <3>2. AllCovered(todo)
      <4>1. CASE q = p
        BY <1>2, <3>1, <4>1, GoesIs DEF AllCovered, NoGone
      <4>2. CASE q # p
        BY <1>2, <2>2, <3>1, <4>2, GoesIs
      <4> QED BY <4>1, <4>2
    <3>3. \A n \in 1..Len(todo) : todo[n].do = "gone" => Covered(todo, n)'
      BY <1>3, <3>2, FewerCovered DEF AllCovered
    <3>4. AllCovered(todo)'
      BY <3>3 DEF AllCovered
    <3> QED BY <3>1, <3>4, CoveredNext
  <2> QED BY <1>2, <1>3, <2>2, <2>3, <2>4, FewerTraces
<1> QED BY <1>2, <1>4, GoesIs, Frame DEF IInv, TypeOK, PlacesInv, foreign, ours

(***************************************************************************)
(* Steps in the JSON files.                                                 *)
(***************************************************************************)

(* A rewrite holds of ours only what it may, takes what it is to take, and  *)
(* loses an item of the user only with a group that holds one of ours.      *)
LEMMA RewrittenIs ==
    ASSUME IInv, NEW s \in Steps, s.do \in FileSteps
    PROVE  /\ Rewritten(s) \in SUBSET SUBSET Items
           /\ \A g \in Rewritten(s), k \in Own : k \in g => Has(s.c, k) \/ Right(s.c, k)
           /\ s.do \in Taking => \A g \in Rewritten(s), k \in Own : k \in g => Has(s.c, k) /\ ~Takes(s, k)
           /\ \A g \in file[s.c].groups : g \cap Own = {} => g \in Rewritten(s)
<1> DEFINE groups == file[s.c].groups
<1>0. groups \in SUBSET SUBSET Items /\ s.c \in Clients
  BY DEF IInv, TypeOK, Contents, Steps
<1>1. CASE s.do = "file+"
  <2>1. Rewritten(s) = {g \in groups : s.k \notin g} \cup {{s.k}}
    BY <1>1 DEF Rewritten, With, Without
  <2>2. s.k \in Own /\ Right(s.c, s.k)
    BY <1>1 DEF Steps, Proper
  <2> QED BY <1>0, <1>1, <2>1, <2>2 DEF Has, Taking, Items
<1>2. CASE s.do = "file-"
  <2>1. Rewritten(s) = {g \in groups : s.k \notin g}
    BY <1>2 DEF Rewritten, Without
  <2>2. s.k \in Own
    BY <1>2 DEF Steps, Proper
  <2> QED BY <1>0, <1>2, <2>1, <2>2 DEF Has, Takes
<1>3. CASE s.do = "file0"
  <2>1. Rewritten(s) = {g \in groups : \A i \in DOMAIN Hooks(s.c) : Hooks(s.c)[i] \notin g}
    BY <1>3 DEF Rewritten, WithoutAll
  <2>2. \A i \in DOMAIN Hooks(s.c) : Hooks(s.c)[i] \in Own
    <3>1. \A i \in DOMAIN Hooks(s.c) : Hooked(s.c, Hooks(s.c)[i])
      BY DEF Hooked
    <3> QED BY <3>1, HookedIs DEF Own
  <2>3. \A g \in Rewritten(s), k \in Own : k \in g => ~Hooked(s.c, k)
    BY <2>1 DEF Hooked
  <2> QED BY <1>0, <1>3, <2>1, <2>2, <2>3 DEF Has, Takes
<1>4. CASE s.do = "reg+"
  <2>1. Rewritten(s) = groups \/ Rewritten(s) = groups \cup {{"listed"}}
    BY <1>4 DEF Rewritten, Register
  <2>2. Right(s.c, "listed")
    BY <1>4 DEF Steps, Proper, Right
  <2> QED BY <1>0, <1>4, <2>1, <2>2 DEF Has, Taking, Items, Own
<1>5. CASE s.do = "reg-"
  <2>1. Rewritten(s) = {g \in groups : "listed" \notin g}
    BY <1>5 DEF Rewritten, Unregister, Without
  <2> QED BY <1>0, <1>5, <2>1 DEF Has, Takes, Own
<1> QED BY <1>1, <1>2, <1>3, <1>4, <1>5 DEF FileSteps

LEMMA Filing ==
    ASSUME IInv, NEW p \in Procs, InFile(p)
    PROVE  /\ proc[p].todo # << >> /\ Now(p).do \in FileSteps /\ Now(p) \in Steps /\ Now(p).c \in Clients
           /\ proc[p].held \in SUBSET SUBSET Items /\ proc[p] \in Tasks
           /\ Now(p).do \in Taking \/ Now(p).do \in Adding
<1>1. proc[p].todo # << >> /\ Now(p).do \in FileSteps
  BY DEF IInv, TypeOK
<1> QED BY <1>1, First DEF Tasks, FileSteps, Taking, Adding

LEMMA ReadFileKeeps == ASSUME IInv, NEW p \in Procs, ReadFile(p) PROVE IInv'
<1>1. PICK s : s = Now(p)
  OBVIOUS
<1>2. /\ proc[p].todo # << >> /\ s.do \in FileSteps /\ s \in Steps /\ s.c \in Clients
      /\ proc[p] \in Tasks /\ proc[p].at = "next"
      /\ UNCHANGED <<present, foreign, ours, file, tmp, removed>>
  BY <1>1, First DEF ReadFile, At, Now
<1>3. CASE Throws(p)
  BY <1>2, <1>3, ThrowsKeeps
<1>4. CASE Needless(s) /\ Goes(p) /\ UNCHANGED mishaps
  <2>1. file[s.c].groups = {}
    BY <1>2, <1>4 DEF Needless, IInv, TypeOK, Contents
  <2>2. s.do \in {"file-", "reg-"}
    BY <1>4 DEF Needless
  <2>3. Effect(s)'
    BY <1>2, <2>1, <2>2 DEF Effect, Has
  <2>4. \A c \in Clients : Fewer(c)
    BY <1>2, SameFile DEF Fewer, ours
  <2>5. CleanInv'
    BY <1>1, <1>2, <1>4, <2>2, <2>3, <2>4, GoesIs, CleanTake DEF Taking
  <2> QED BY <1>2, <1>4, <2>5, GoesIs, Frame DEF IInv, TypeOK, PlacesInv, foreign, ours
<1>5. CASE /\ proc' = [proc EXCEPT ![p].at = "held", ![p].held = Rewritten(s)]
           /\ Hit(Flagged(\E u \in {u \in Users : Has(s.c, u) /\ ~\E g \in Rewritten(s) : u \in g},
                              g \in file[s.c].groups : u \in g /\ g \cap Own # {}, "mixed"))
  <2>0. mishaps \subseteq mishaps'
    BY <1>5 DEF Hit
  <2>1. /\ proc'[p] = [proc[p] EXCEPT !.at = "held", !.held = Rewritten(s)]
        /\ \A q \in Procs : q # p => proc'[q] = proc[q]
        /\ Rewritten(s) \in SUBSET SUBSET Items
        /\ \A q \in Procs : proc'[q].todo = proc[q].todo /\ Now(q)' = Now(q)
    BY <1>2, <1>5, RewrittenIs DEF IInv, TypeOK, Now, Tasks
  <2>2. TypeOK'
    <3>1. proc' \in [Procs -> Tasks]
      BY <1>2, <1>5, <2>1 DEF IInv, TypeOK, Tasks
    <3>2. \A q \in Procs : InFile(q)' => proc'[q].todo # << >> /\ Now(q)'.do \in FileSteps
      BY <1>1, <1>2, <2>1 DEF IInv, TypeOK, InFile
    <3> QED BY <1>2, <3>1, <3>2 DEF IInv, TypeOK, foreign, ours
  <2>3. \A q \in Procs : /\ (InFile(q)' => q = p \/ InFile(q))
                         /\ \A c : Writes(q, c)' => q # p /\ Writes(q, c)
    BY <1>2, <2>1 DEF InFile, Writes, Tasks
  <2>4. WriteInv'
    <3> SUFFICES ASSUME "shared" \notin mishaps' PROVE WriteInv!2'
      BY DEF WriteInv
    <3>1. WriteInv!2
      BY <2>0 DEF IInv, WriteInv
    <3> QED BY <1>2, <2>1, <2>3, <3>1 DEF Writes, Tasks
  <2>5. HeldInv'
    <3> SUFFICES ASSUME mishaps' \cap {"overtaken", "shared"} = {}, NEW q \in Procs, InFile(q)',
                        NEW t, t = Now(q)'
                 PROVE  proc'[q].held = Rewritten(t)'
      BY DEF HeldInv
    <3>1. mishaps \cap {"overtaken", "shared"} = {} /\ t = Now(q)
      BY <2>0, <2>1
    <3>2. proc'[q].held = Rewritten(t)
      <4>1. CASE q = p
        BY <1>1, <1>2, <2>1, <3>1, <4>1 DEF Tasks
      <4>2. CASE q # p
        BY <2>1, <2>3, <3>1, <4>2 DEF IInv, HeldInv
      <4> QED BY <4>1, <4>2
    <3> QED BY <1>2, <3>2, SameRewritten
  <2>6. KeptInv'
    <3> SUFFICES ASSUME mishaps' \cap {"overtaken", "shared", "mixed"} = {},
                        NEW c \in Clients, NEW w \in want[c]
                 PROVE  /\ Has(c, w)'
                        /\ \A q \in Procs : InFile(q)' /\ Now(q)'.c = c => \E g \in proc'[q].held : w \in g
      BY <1>2 DEF KeptInv, foreign
    <3>1. mishaps \cap {"overtaken", "shared", "mixed"} = {}
      BY <2>0
    <3>2. Has(c, w) /\ \A q \in Procs : InFile(q) /\ Now(q).c = c => \E g \in proc[q].held : w \in g
      BY <3>1 DEF IInv, KeptInv
    <3>3. ASSUME s.c = c PROVE \E g \in Rewritten(s) : w \in g
      <4> SUFFICES ASSUME ~\E g \in Rewritten(s) : w \in g PROVE FALSE
        OBVIOUS
      <4>1. w \in Users
        BY DEF IInv, TypeOK
      <4>2. PICK g \in file[s.c].groups : w \in g
        BY <3>2, <3>3 DEF Has
      <4>3. g \cap Own = {}
        BY <1>5, <3>2, <3>3, <4>1, <4>2 DEF Hit, Flagged
      <4> QED BY <1>2, <4>2, <4>3, RewrittenIs
    <3>4. ASSUME NEW q \in Procs, InFile(q)', Now(q)'.c = c PROVE \E g \in proc'[q].held : w \in g
      <4>1. CASE q = p
        <5>1. proc'[p].held = Rewritten(s)
          BY <1>2, <2>1 DEF Tasks
        <5>2. s.c = c
          BY <1>1, <2>1, <3>4, <4>1
        <5> QED BY <3>3, <4>1, <5>1, <5>2
      <4>2. CASE q # p
        BY <2>1, <2>3, <3>2, <3>4, <4>2
      <4> QED BY <4>1, <4>2
    <3> QED BY <1>2, <3>2, <3>4, SameFile
  <2>7. PlacesInv'
    <3>1. mishaps' \cap {"overtaken", "shared"} = {} => mishaps \cap {"overtaken", "shared"} = {}
      BY <2>0
    <3> QED BY <1>2, <3>1, SameFile DEF IInv, PlacesInv, ours
  <2>8. GoneInv'
    <3>1. \A q \in Procs : GoneLast(proc[q].todo)
      BY DEF IInv, GoneInv
    <3> QED BY <2>1, <3>1 DEF GoneInv, GoneLast
  <2>9. CleanInv'
    <3>1. \A c \in Clients : Fewer(c)
      BY <1>2, SameFile DEF Fewer, ours
    <3> QED BY <1>2, <2>0, <2>1, <3>1, CleanFewer
  <2> QED BY <2>2, <2>4, <2>5, <2>6, <2>7, <2>8, <2>9 DEF IInv
<1> QED BY <1>1, <1>3, <1>4, <1>5 DEF ReadFile

LEMMA HeldSame ==
    ASSUME IInv, want' = want, mishaps \subseteq mishaps',
           mishaps' \cap {"overtaken", "shared"} = {} => file' = file,
           \A q \in Procs : Now(q)' = Now(q) /\ proc'[q].held = proc[q].held /\ (InFile(q)' => InFile(q))
    PROVE  HeldInv' /\ KeptInv'
<1>1. HeldInv'
  <2> SUFFICES ASSUME mishaps' \cap {"overtaken", "shared"} = {}, NEW q \in Procs, InFile(q)',
                      NEW s, s = Now(q)'
               PROVE  proc'[q].held = Rewritten(s)'
    BY DEF HeldInv
  <2>1. InFile(q) /\ s = Now(q) /\ mishaps \cap {"overtaken", "shared"} = {} /\ file' = file
    OBVIOUS
  <2>2. proc[q].held = Rewritten(s)
    BY <2>1 DEF IInv, HeldInv
  <2> QED BY <2>1, <2>2, SameRewritten
<1>2. KeptInv'
  <2> SUFFICES ASSUME mishaps' \cap {"overtaken", "shared", "mixed"} = {},
                      NEW c \in Clients, NEW w \in want[c]
               PROVE  /\ Has(c, w)'
                      /\ \A q \in Procs : InFile(q)' /\ Now(q)'.c = c => \E g \in proc'[q].held : w \in g
    BY DEF KeptInv
  <2>1. mishaps \cap {"overtaken", "shared", "mixed"} = {} /\ file' = file
    OBVIOUS
  <2>2. Has(c, w) /\ \A q \in Procs : InFile(q) /\ Now(q).c = c => \E g \in proc[q].held : w \in g
    BY <2>1 DEF IInv, KeptInv
  <2> QED BY <2>1, <2>2, SameFile
<1> QED BY <1>1, <1>2

LEMMA OpenTmpKeeps == ASSUME IInv, NEW p \in Procs, OpenTmp(p) PROVE IInv'
<1>1. PICK s : s = Now(p)
  OBVIOUS
<1>2. /\ InFile(p) /\ proc[p].at = "held" /\ s \in Steps /\ s.c \in Clients /\ proc[p] \in Tasks
      /\ tmp' = [tmp EXCEPT ![s.c] = Partial]
      /\ proc' = [proc EXCEPT ![p].at = "opened", ![p].fd = "tmp"]
      /\ mishaps' = mishaps \cup Flagged(\E q \in Procs \ {p} : Writes(q, s.c), "shared")
      /\ UNCHANGED <<present, foreign, ours, file, removed>>
  <2>1. InFile(p)
    BY DEF OpenTmp, InFile
  <2> QED BY <1>1, <2>1, Filing DEF OpenTmp, Hit
<1>3. /\ proc'[p] = [proc[p] EXCEPT !.at = "opened", !.fd = "tmp"]
      /\ \A q \in Procs : q # p => proc'[q] = proc[q]
      /\ \A q \in Procs : /\ proc'[q].todo = proc[q].todo /\ Now(q)' = Now(q)
                          /\ proc'[q].held = proc[q].held /\ (InFile(q)' <=> InFile(q))
  BY <1>2 DEF IInv, TypeOK, Now, Tasks, InFile
<1>4. mishaps \subseteq mishaps'
  BY <1>2
<1>5. TypeOK'
  <2>1. tmp' \in [Clients -> Contents]
    BY <1>2 DEF IInv, TypeOK, Contents, Partial
  <2>2. proc' \in [Procs -> Tasks]
    BY <1>2 DEF IInv, TypeOK, Tasks
  <2> QED BY <1>2, <1>3, <2>1, <2>2 DEF IInv, TypeOK, foreign, ours
<1>6. WriteInv'
  <2> SUFFICES ASSUME "shared" \notin mishaps' PROVE WriteInv!2'
    BY DEF WriteInv
  <2>1. WriteInv!2
    BY <1>4 DEF IInv, WriteInv
  <2>2. \A q \in Procs : q # p => ~Writes(q, s.c)
    BY <1>2 DEF Flagged
  <2>3. \A q \in Procs : q # p => ~Writes(q, s.c)'
    BY <1>3, <2>2 DEF Writes
  <2>4. \A a, b \in Procs, c \in Clients : a # b /\ Writes(a, c)' => ~Writes(b, c)'
    <3> SUFFICES ASSUME NEW a \in Procs, NEW b \in Procs, NEW c \in Clients, a # b, Writes(a, c)', Writes(b, c)'
                 PROVE  FALSE
      OBVIOUS
    <3>1. Writes(p, c)' => c = s.c
      BY <1>1, <1>3 DEF Writes
    <3>2. a # p /\ b # p
      BY <2>3, <3>1
    <3>3. Writes(a, c) /\ Writes(b, c)
      BY <1>3, <3>2 DEF Writes
    <3> QED BY <2>1, <3>3
  <2>5. proc'[p].at = "opened" /\ proc'[p].fd = "tmp"
    <3>1. proc[p] \in Tasks
      BY <1>2
    <3>2. proc'[p] = [proc[p] EXCEPT !.at = "opened", !.fd = "tmp"]
      BY <1>3
    <3> QED BY ONLY <3>1, <3>2 DEF Tasks
  <2>6. \A q \in Procs : proc'[q].at \in {"opened", "filled"} => proc'[q].fd = "tmp"
    BY <1>3, <2>1, <2>5
  <2>7. ASSUME NEW q \in Procs, proc'[q].at = "filled" PROVE tmp'[Now(q)'.c] = Json(proc'[q].held)
    <3>1. q # p /\ proc[q].at = "filled" /\ tmp[Now(q).c] = Json(proc[q].held)
      BY <1>3, <2>1, <2>5, <2>7
    <3>2. Now(q).c # s.c
      BY <2>2, <3>1 DEF Writes
    <3> QED BY <1>2, <1>3, <3>1, <3>2 DEF IInv, TypeOK
  <2> QED BY <1>2, <2>1, <2>4, <2>6, <2>7
<1>7. mishaps' \cap {"overtaken", "shared"} = {} => mishaps \cap {"overtaken", "shared"} = {}
  BY <1>4
<1>8. HeldInv' /\ KeptInv'
  BY <1>2, <1>3, <1>4, HeldSame DEF foreign
<1>9. PlacesInv'
  BY <1>2, <1>7, SameFile DEF IInv, PlacesInv, ours
<1>10. GoneInv'
  <2>1. \A q \in Procs : GoneLast(proc[q].todo)
    BY DEF IInv, GoneInv
  <2> QED BY <1>3, <2>1 DEF GoneInv, GoneLast
<1>11. CleanInv'
  <2>1. \A c \in Clients : Fewer(c)
    BY <1>2, SameFile DEF Fewer, ours
  <2> QED BY <1>2, <1>3, <1>4, <2>1, CleanFewer
<1> QED BY <1>5, <1>6, <1>8, <1>9, <1>10, <1>11 DEF IInv

LEMMA FillTmpKeeps == ASSUME IInv, NEW p \in Procs, FillTmp(p) PROVE IInv'
<1>1. PICK s : s = Now(p)
  OBVIOUS
<1>2. /\ InFile(p) /\ proc[p].at = "opened" /\ s \in Steps /\ s.c \in Clients /\ proc[p] \in Tasks
      /\ proc[p].held \in SUBSET SUBSET Items
      /\ tmp' = (IF proc[p].fd = "tmp" THEN [tmp EXCEPT ![s.c] = Json(proc[p].held)] ELSE tmp)
      /\ file' = (IF proc[p].fd = "file" THEN [file EXCEPT ![s.c] = Json(proc[p].held)] ELSE file)
      /\ proc' = [proc EXCEPT ![p].at = "filled"]
      /\ UNCHANGED <<present, foreign, ours, removed, mishaps>>
  <2>1. InFile(p)
    BY DEF FillTmp, InFile
  <2> QED BY <1>1, <2>1, Filing DEF FillTmp
<1>3. /\ proc'[p] = [proc[p] EXCEPT !.at = "filled"]
      /\ \A q \in Procs : q # p => proc'[q] = proc[q]
      /\ \A q \in Procs : /\ proc'[q].todo = proc[q].todo /\ Now(q)' = Now(q)
                          /\ proc'[q].held = proc[q].held /\ (InFile(q)' <=> InFile(q))
                          /\ proc'[q].fd = proc[q].fd
                          /\ \A c : Writes(q, c)' <=> Writes(q, c)
  BY <1>2 DEF IInv, TypeOK, Now, Tasks, InFile, Writes
<1>4. Writes(p, s.c)
  BY <1>1, <1>2 DEF Writes
<1>5. TypeOK'
  <2>0. Json(proc[p].held) \in Contents
    BY <1>2 DEF Json, Contents
  <2>1. tmp' \in [Clients -> Contents] /\ file' \in [Clients -> Contents]
    BY <1>2, <2>0 DEF IInv, TypeOK
  <2>2. proc' \in [Procs -> Tasks]
    BY <1>2 DEF IInv, TypeOK, Tasks
  <2> QED BY <1>2, <1>3, <2>1, <2>2 DEF IInv, TypeOK, foreign, ours
<1>6. ASSUME "shared" \notin mishaps
      PROVE  proc[p].fd = "tmp" /\ file' = file /\ WriteInv!2
  BY <1>2, <1>6 DEF IInv, WriteInv
<1>7. WriteInv'
  <2> SUFFICES ASSUME "shared" \notin mishaps PROVE WriteInv!2'
    BY <1>2 DEF WriteInv
  <2>1. WriteInv!2 /\ file' = file /\ tmp' = [tmp EXCEPT ![s.c] = Json(proc[p].held)]
    BY <1>2, <1>6
  <2>2. \A q \in Procs : q # p => ~Writes(q, s.c)
    BY <1>2, <1>4, <2>1
  <2>3. \A a, b \in Procs, c \in Clients : a # b /\ Writes(a, c)' => ~Writes(b, c)'
    BY <1>3, <2>1 DEF Writes
  <2>4. \A q \in Procs : proc'[q].at \in {"opened", "filled"} => proc'[q].fd = "tmp"
    BY <1>2, <1>3, <2>1, <1>6
  <2>5. ASSUME NEW q \in Procs, proc'[q].at = "filled" PROVE tmp'[Now(q)'.c] = Json(proc'[q].held)
    <3>1. CASE q = p
      BY <1>1, <1>2, <1>3, <2>1, <3>1 DEF IInv, TypeOK
    <3>2. CASE q # p
      <4>1. proc[q].at = "filled" /\ tmp[Now(q).c] = Json(proc[q].held)
        BY <1>3, <2>1, <2>5, <3>2
      <4>2. Now(q).c # s.c
        BY <2>2, <3>2, <4>1 DEF Writes
      <4> QED BY <1>3, <2>1, <4>1, <4>2 DEF IInv, TypeOK
    <3> QED BY <3>1, <3>2
  <2> QED BY <2>1, <2>3, <2>4, <2>5
<1>8. HeldInv' /\ KeptInv'
  BY <1>2, <1>3, <1>6, HeldSame DEF foreign
<1>10. PlacesInv'
  BY <1>2, <1>6, SameFile DEF IInv, PlacesInv, ours
<1>11. GoneInv'
  <2>1. \A q \in Procs : GoneLast(proc[q].todo)
    BY DEF IInv, GoneInv
  <2> QED BY <1>3, <2>1 DEF GoneInv, GoneLast
<1>12. CleanInv'
  <2>1. Undisturbed' => \A c \in Clients : Fewer(c)
    BY <1>2, <1>6, SameFile DEF Fewer, ours, Undisturbed
  <2> QED BY <1>2, <1>3, <2>1, CleanFewer
<1> QED BY <1>5, <1>7, <1>8, <1>10, <1>11, <1>12 DEF IInv

LEMMA RenameKeeps == ASSUME IInv, NEW p \in Procs, Rename(p) PROVE IInv'
<1>1. PICK s : s = Now(p)
  OBVIOUS
<1>2. /\ InFile(p) /\ proc[p].at = "filled" /\ s \in Steps /\ s.c \in Clients /\ proc[p] \in Tasks
      /\ proc[p].todo # << >> /\ s.do \in FileSteps /\ (s.do \in Taking \/ s.do \in Adding)
      /\ UNCHANGED <<present, foreign, ours>>
  <2>1. InFile(p)
    BY DEF Rename, InFile
  <2> QED BY <1>1, <2>1, Filing DEF Rename
<1>3. CASE Throws(p) /\ UNCHANGED <<file, tmp, removed>>
  BY <1>2, <1>3, ThrowsKeeps
<1> DEFINE over == Flagged(\E q \in Procs \ {p} : proc[q].at # "next" /\ Now(q).c = s.c, "overtaken")
<1>4. CASE \E moved \in [Procs -> {"none", "tmp", "file", "gone"}] :
             /\ \A q \in Procs : q # p /\ Now(q).c # s.c => moved[q] = proc[q].fd
             /\ file' = [file EXCEPT ![s.c] = tmp[s.c]] /\ tmp' = [tmp EXCEPT ![s.c] = Missing]
             /\ proc' = [q \in Procs |-> IF q = p THEN Doing(Tail(proc[p].todo), proc[p])
                                                 ELSE [proc[q] EXCEPT !.fd = moved[q]]]
             /\ Notes(p, over)
  <2> HIDE DEF over
  <2>1. PICK r \in Tasks : /\ r = Doing(Tail(proc[p].todo), proc[p]) /\ r.at = "next"
                           /\ r.todo = Tail(proc[p].todo) /\ GoneLast(r.todo)
    <3>1. PICK t : t = Tail(proc[p].todo)
      OBVIOUS
    <3>2. PICK r : r = Doing(t, proc[p])
      OBVIOUS
    <3>3. r \in Tasks /\ r.todo = t /\ r.at = "next" /\ GoneLast(t)
      BY <1>2, <3>1, <3>2, First, DoingIs
    <3> QED BY <3>1, <3>2, <3>3
  <2>2. PICK moved \in [Procs -> {"none", "tmp", "file", "gone"}] :
             /\ \A q \in Procs : q # p /\ Now(q).c # s.c => moved[q] = proc[q].fd
             /\ file' = [file EXCEPT ![s.c] = tmp[s.c]] /\ tmp' = [tmp EXCEPT ![s.c] = Missing]
             /\ proc' = [q \in Procs |-> IF q = p THEN Doing(Tail(proc[p].todo), proc[p])
                                                 ELSE [proc[q] EXCEPT !.fd = moved[q]]]
             /\ Notes(p, over)
    BY <1>4
  <2>3. /\ mishaps \cup over \subseteq mishaps'
        /\ s.do \in Taking => removed' = removed
        /\ s.do \in Adding => /\ removed' = removed \ {s.c}
                              /\ mishaps \cup Flagged(Contested(p, s.c), "contested") \subseteq mishaps'
    BY <1>1, <2>2, NotesIs
  <2>4. /\ proc'[p] = r /\ r.todo = Tail(proc[p].todo) /\ r.at = "next"
        /\ \A q \in Procs \ {p} :
              /\ proc'[q].todo = proc[q].todo /\ Now(q)' = Now(q) /\ proc'[q].at = proc[q].at
              /\ proc'[q].held = proc[q].held /\ (InFile(q)' <=> InFile(q))
              /\ Now(q).c # s.c => proc'[q].fd = proc[q].fd
              /\ \A c : Writes(q, c)' <=> Writes(q, c)
        /\ ~InFile(p)' /\ \A c : ~Writes(p, c)'
    <3>1. \A q \in Procs : proc[q] \in Tasks
      BY DEF IInv, TypeOK
    <3> QED BY <2>1, <2>2, <3>1 DEF Now, Tasks, InFile, Writes
  <2>5. file \in [Clients -> Contents] /\ tmp \in [Clients -> Contents] /\ removed \subseteq Clients
    BY DEF IInv, TypeOK
  <2>6. TypeOK'
    <3>1. tmp' \in [Clients -> Contents] /\ file' \in [Clients -> Contents]
      BY <1>2, <2>2, <2>5 DEF Missing, Contents
    <3>2. proc' \in [Procs -> Tasks]
      <4>1. \A q \in Procs : [proc[q] EXCEPT !.fd = moved[q]] \in Tasks
        BY DEF IInv, TypeOK, Tasks
      <4> QED BY <2>1, <2>2, <4>1
    <3>3. removed' \subseteq Clients
      BY <1>2, <2>3, <2>5
    <3>4. \A q \in Procs : InFile(q)' => proc'[q].todo # << >> /\ Now(q)'.do \in FileSteps
      BY <2>4 DEF IInv, TypeOK
    <3> QED BY <1>2, <3>1, <3>2, <3>3, <3>4 DEF IInv, TypeOK, foreign, ours
  <2>7. ASSUME "shared" \notin mishaps'
        PROVE  /\ WriteInv!2 /\ file'[s.c] = Json(proc[p].held)
               /\ \A q \in Procs \ {p} : ~Writes(q, s.c)
    <3>1. WriteInv!2
      BY <2>3, <2>7 DEF IInv, WriteInv
    <3>2. file'[s.c] = tmp[s.c]
      BY <1>2, <2>2, <2>5
    <3> QED BY <1>1, <1>2, <3>1, <3>2 DEF Writes
  <2>8. ASSUME mishaps' \cap {"overtaken", "shared"} = {}
        PROVE  /\ mishaps \cap {"overtaken", "shared"} = {}
               /\ file'[s.c].groups = Rewritten(s) /\ proc[p].held = Rewritten(s)
               /\ \A q \in Procs \ {p} : InFile(q) => Now(q).c # s.c
    <3>1. mishaps \cap {"overtaken", "shared"} = {} /\ "shared" \notin mishaps'
      BY <2>3, <2>8
    <3>2. proc[p].held = Rewritten(s)
      BY <1>1, <1>2, <3>1 DEF IInv, HeldInv
    <3>3. \A q \in Procs \ {p} : InFile(q) => Now(q).c # s.c
      BY <2>3, <2>8 DEF over, Flagged, InFile
    <3> QED BY <2>7, <3>1, <3>2, <3>3 DEF Json
  <2>9. WriteInv'
    <3> SUFFICES ASSUME "shared" \notin mishaps' PROVE WriteInv!2'
      BY DEF WriteInv
    <3>1. /\ WriteInv!2 /\ file'[s.c].is = "json"
          /\ \A q \in Procs \ {p} : ~Writes(q, s.c)
      BY <2>7 DEF Json
    <3>2. \A a, b \in Procs, c \in Clients : a # b /\ Writes(a, c)' => ~Writes(b, c)'
      BY <2>4, <3>1 DEF Writes
    <3>3. ASSUME NEW q \in Procs, proc'[q].at \in {"opened", "filled"}
          PROVE  /\ proc'[q].fd = "tmp"
                 /\ proc'[q].at = "filled" => tmp'[Now(q)'.c] = Json(proc'[q].held)
      <4>1. q # p /\ proc[q].at = proc'[q].at
        BY <2>4, <3>3
      <4>2. Now(q).c # s.c
        BY <3>1, <3>3, <4>1 DEF Writes
      <4>3. proc[q].fd = "tmp" /\ (proc[q].at = "filled" => tmp[Now(q).c] = Json(proc[q].held))
        BY <3>1, <3>3, <4>1
      <4>4. Now(q).c \in Clients
        <5>1. InFile(q)
          BY <3>3, <4>1 DEF InFile
        <5> QED BY <5>1, Filing
      <4> QED BY <2>2, <2>4, <2>5, <4>1, <4>2, <4>3, <4>4
    <3>4. \A c \in Clients : file'[c].is # "partial"
      BY <2>2, <2>5, <3>1
    <3> QED BY <3>2, <3>3, <3>4
  <2>10. HeldInv'
    <3> SUFFICES ASSUME mishaps' \cap {"overtaken", "shared"} = {}, NEW q \in Procs, InFile(q)',
                        NEW t, t = Now(q)'
                 PROVE  proc'[q].held = Rewritten(t)'
      BY DEF HeldInv
    <3>1. q # p /\ InFile(q) /\ t = Now(q) /\ t.c # s.c /\ t.c \in Clients /\ proc'[q].held = proc[q].held
      BY <2>4, <2>8, Filing
    <3>2. proc[q].held = Rewritten(t)
      BY <2>8, <3>1 DEF IInv, HeldInv
    <3>3. file'[t.c] = file[t.c]
      BY <2>2, <2>5, <3>1
    <3> QED BY <3>1, <3>2, <3>3, SameRewritten
  <2>11. KeptInv'
    <3> SUFFICES ASSUME mishaps' \cap {"overtaken", "shared", "mixed"} = {},
                        NEW c \in Clients, NEW w \in want[c]
                 PROVE  /\ Has(c, w)'
                        /\ \A q \in Procs : InFile(q)' /\ Now(q)'.c = c => \E g \in proc'[q].held : w \in g
      BY <1>2 DEF KeptInv, foreign
    <3>1. mishaps \cap {"overtaken", "shared", "mixed"} = {} /\ mishaps' \cap {"overtaken", "shared"} = {}
      BY <2>3
    <3>2. Has(c, w) /\ \A q \in Procs : InFile(q) /\ Now(q).c = c => \E g \in proc[q].held : w \in g
      BY <3>1 DEF IInv, KeptInv
    <3>3. Has(c, w)'
      <4>1. CASE c = s.c
        BY <1>1, <1>2, <2>8, <3>1, <3>2, <4>1 DEF Has
      <4>2. CASE c # s.c
        BY <2>2, <2>5, <3>2, <4>2 DEF Has
      <4> QED BY <4>1, <4>2
    <3> QED BY <2>4, <3>2, <3>3
  <2>12. PlacesInv'
    <3>1. ASSUME mishaps' \cap {"overtaken", "shared"} = {}, NEW c \in Clients, NEW k \in Own, Has(c, k)'
          PROVE  Right(c, k)
      <4>1. \A d \in Clients : Has(d, k) => Right(d, k)
        BY <2>8, <3>1 DEF IInv, PlacesInv
      <4>2. CASE c = s.c
        BY <1>2, <2>8, <3>1, <4>1, <4>2, RewrittenIs DEF Has
      <4>3. CASE c # s.c
        BY <2>2, <2>5, <3>1, <4>1, <4>3 DEF Has
      <4> QED BY <4>2, <4>3
    <3> QED BY <1>2, <3>1 DEF IInv, PlacesInv, ours
  <2>13. GoneInv'
    <3>1. \A q \in Procs : GoneLast(proc[q].todo)
      BY DEF IInv, GoneInv
    <3> QED BY <2>1, <2>4, <3>1 DEF GoneInv, GoneLast
  <2>14. CleanInv'
    <3>1. \A c \in Clients \ {s.c} : Fewer(c)
      BY <1>2, <2>2, <2>5 DEF Fewer, Has, ours
    <3>2. CASE s.do \in Taking
      <4>1. ASSUME Undisturbed' PROVE Effect(s)' /\ Fewer(s.c)
        <5>1. mishaps' \cap {"overtaken", "shared"} = {}
          BY <4>1 DEF Undisturbed
        <5>2. \A k \in Own : Has(s.c, k)' => Has(s.c, k) /\ ~Takes(s, k)
          BY <1>2, <2>8, <3>2, <5>1, RewrittenIs DEF Has
        <5>3. s.do \notin {"cli-", "skill-", "plugin-"}
          BY <1>2 DEF FileSteps
        <5> QED BY <1>2, <5>2, <5>3 DEF Effect, Takes, Fewer, ours
      <4> QED BY <1>1, <1>2, <2>3, <2>4, <3>1, <3>2, <4>1, CleanTake
    <3>3. CASE s.do \in Adding
      BY <1>1, <1>2, <2>3, <2>4, <3>1, <3>3, CleanAdd
    <3> QED BY <1>2, <3>2, <3>3
  <2> QED BY <2>6, <2>9, <2>10, <2>11, <2>12, <2>13, <2>14 DEF IInv
<1>5. (Throws(p) /\ UNCHANGED <<file, tmp, removed>>) \/ <1>4!1
  <2> DEFINE moved == [q \in Procs |-> CASE q = p -> "none"
                                         [] Writes(q, s.c) /\ proc[q].fd = "tmp"  -> "file"
                                         [] Writes(q, s.c) /\ proc[q].fd = "file" -> "gone"
                                         [] OTHER -> proc[q].fd]
  <2>1. \A q \in Procs : proc[q].fd \in {"none", "tmp", "file", "gone"}
    BY DEF IInv, TypeOK, Tasks
  <2>2. moved \in [Procs -> {"none", "tmp", "file", "gone"}]
    BY <2>1
  <2>3. \A q \in Procs : q # p /\ Now(q).c # s.c => moved[q] = proc[q].fd
    BY DEF Writes
  <2>4. CASE ~(Throws(p) /\ UNCHANGED <<file, tmp, removed>>)
    <3>1. /\ file' = [file EXCEPT ![s.c] = tmp[s.c]] /\ tmp' = [tmp EXCEPT ![s.c] = Missing]
          /\ proc' = [q \in Procs |-> IF q = p THEN Doing(Tail(proc[p].todo), proc[p])
                                              ELSE [proc[q] EXCEPT !.fd = moved[q]]]
          /\ Notes(p, over)
      BY <1>1, <2>4 DEF Rename
    <3> HIDE DEF moved, over
    <3> QED BY <2>2, <2>3, <3>1
  <2> QED BY <2>4
<1> QED BY <1>3, <1>4, <1>5

(***************************************************************************)
(* The clients, the user, and nobody.                                       *)
(***************************************************************************)

LEMMA EditFileKeeps == ASSUME IInv, NEW c \in Clients, EditFile(c) PROVE IInv'
<1> DEFINE G == file[c].groups
<1>1. /\ UNCHANGED <<present, ours, tmp, proc, removed, cliUp>>
      /\ mishaps' = mishaps \cup Overtakes(c)
  BY DEF EditFile, Edits, Hit
<1>2. /\ file \in [Clients -> Contents] /\ want \in [Clients -> SUBSET Users]
      /\ proc' = proc /\ mishaps \subseteq mishaps'
  BY <1>1 DEF IInv, TypeOK
<1>3. ASSUME "overtaken" \notin mishaps' PROVE \A p \in Procs : InFile(p) => Now(p).c # c
  BY <1>1, <1>3 DEF Overtakes, Flagged, InFile
<1> DEFINE Edit(f, w) ==
             /\ file' = [file EXCEPT ![c] = f] /\ want' = [want EXCEPT ![c] = w]
             /\ f \in Contents /\ w \in SUBSET Users /\ f.is # "partial"
             /\ \A k \in Own : (\E g \in f.groups : k \in g) => \E g \in G : k \in g
             /\ \A u \in w : (\E g \in f.groups : u \in g) \/ (u \in want[c] /\ ~\E g \in G : u \in g)
<1>4. \E f, w : Edit(f, w)
  <2>0. /\ G \in SUBSET SUBSET Items /\ want[c] \in SUBSET Users /\ Users \subseteq Items
        /\ \A u \in Users : u \notin Own
    BY <1>2, IntegrationsAssumption DEF Contents, Items
  <2>1. ASSUME NEW u \in Users \ want[c], want' = [want EXCEPT ![c] = @ \cup {u}],
               file' = [file EXCEPT ![c] = Json(G \cup {{u}})]
        PROVE  \E f, w : Edit(f, w)
    <3>1. PICK f, w : f = Json(G \cup {{u}}) /\ w = want[c] \cup {u}
      OBVIOUS
    <3>2. f.groups = G \cup {{u}} /\ f.is = "json" /\ f \in Contents
      BY <2>0, <3>1 DEF Json, Contents
    <3>3. w \in SUBSET Users
      BY <2>0, <3>1
    <3>4. \A k \in Own : (\E g \in f.groups : k \in g) => \E g \in G : k \in g
      BY <2>0, <3>2
    <3>5. \A v \in w : (\E g \in f.groups : v \in g) \/ (v \in want[c] /\ ~\E g \in G : v \in g)
      BY <3>1, <3>2
    <3>6. file' = [file EXCEPT ![c] = f] /\ want' = [want EXCEPT ![c] = w]
      BY <2>1, <3>1
    <3>7. Edit(f, w)
      BY <3>2, <3>3, <3>4, <3>5, <3>6
    <3> HIDE DEF Edit
    <3> QED BY <3>7
  <2>2. ASSUME NEW u \in Users \ want[c], want' = [want EXCEPT ![c] = @ \cup {u}], NEW h \in G,
               file' = [file EXCEPT ![c] = Json((G \ {h}) \cup {h \cup {u}})]
        PROVE  \E f, w : Edit(f, w)
    <3>1. PICK f, w : f = Json((G \ {h}) \cup {h \cup {u}}) /\ w = want[c] \cup {u}
      OBVIOUS
    <3>2. f.groups = (G \ {h}) \cup {h \cup {u}} /\ f.is = "json" /\ f \in Contents
      BY <2>0, <3>1 DEF Json, Contents
    <3>3. w \in SUBSET Users
      BY <2>0, <3>1
    <3>4. \A k \in Own : (\E g \in f.groups : k \in g) => \E g \in G : k \in g
      BY <2>0, <3>2
    <3>5. \A v \in w : (\E g \in f.groups : v \in g) \/ (v \in want[c] /\ ~\E g \in G : v \in g)
      <4>1. h \cup {u} \in f.groups
        BY <3>2
      <4>2. ASSUME NEW v \in w, NEW g \in G, v \in g PROVE \E j \in f.groups : v \in j
        <5>1. CASE g = h
          BY <4>1, <4>2, <5>1
        <5>2. CASE g # h
          BY <3>2, <4>2, <5>2
        <5> QED BY <5>1, <5>2
      <4>3. \A v \in w : v \in want[c] \/ v = u
        BY <3>1
      <4> QED BY <4>1, <4>2, <4>3
    <3>6. file' = [file EXCEPT ![c] = f] /\ want' = [want EXCEPT ![c] = w]
      BY <2>2, <3>1
    <3>7. Edit(f, w)
      BY <3>2, <3>3, <3>4, <3>5, <3>6
    <3> HIDE DEF Edit
    <3> QED BY <3>7
  <2>3. ASSUME NEW u \in want[c], want' = [want EXCEPT ![c] = @ \ {u}],
               file' = [file EXCEPT ![c] = Json({g \ {u} : g \in G} \ {{}})]
        PROVE  \E f, w : Edit(f, w)
    <3>1. PICK f, w : f = Json({g \ {u} : g \in G} \ {{}}) /\ w = want[c] \ {u}
      OBVIOUS
    <3>2. f.groups = {g \ {u} : g \in G} \ {{}} /\ f.is = "json" /\ f \in Contents
      <4>1. f.groups = {g \ {u} : g \in G} \ {{}} /\ f.is = "json"
        BY <3>1 DEF Json
      <4>2. {g \ {u} : g \in G} \ {{}} \in SUBSET SUBSET Items
        BY <2>0
      <4> QED BY <3>1, <4>1, <4>2 DEF Json, Contents
    <3>3. w \in SUBSET Users
      BY <2>0, <3>1
    <3>4. \A k \in Own : (\E g \in f.groups : k \in g) => \E g \in G : k \in g
      BY <2>0, <3>2
    <3>5. \A v \in w : (\E g \in f.groups : v \in g) \/ (v \in want[c] /\ ~\E g \in G : v \in g)
      <4>1. ASSUME NEW v \in w, NEW g \in G, v \in g PROVE \E j \in f.groups : v \in j
        <5>1. v \in g \ {u} /\ g \ {u} \in f.groups
          BY <3>1, <3>2, <4>1
        <5> QED BY <5>1
      <4> QED BY <3>1, <4>1
    <3>6. file' = [file EXCEPT ![c] = f] /\ want' = [want EXCEPT ![c] = w]
      BY <2>3, <3>1
    <3>7. Edit(f, w)
      BY <3>2, <3>3, <3>4, <3>5, <3>6
    <3> HIDE DEF Edit
    <3> QED BY <3>7
  <2>4. ASSUME NEW is \in {"broken", "json"}, file[c].is \in {"broken", "json"}, want' = want,
               file' = [file EXCEPT ![c].is = is]
        PROVE  \E f, w : Edit(f, w)
    <3>1. PICK f, w : f = [file[c] EXCEPT !.is = is] /\ w = want[c]
      OBVIOUS
    <3>2. f.groups = G /\ f.is = is /\ f \in Contents
      BY <1>2, <2>4, <3>1 DEF Contents
    <3>6. file' = [file EXCEPT ![c] = f] /\ want' = [want EXCEPT ![c] = w]
      BY <1>2, <2>4, <3>1
    <3>7. Edit(f, w)
      BY <2>0, <2>4, <3>1, <3>2, <3>6
    <3> HIDE DEF Edit
    <3> QED BY <3>7
  <2> HIDE DEF Edit
  <2> QED BY <2>1, <2>2, <2>3, <2>4 DEF EditFile
<1>5. PICK f, w : Edit(f, w)
  BY <1>4
<1>6. /\ file'[c] = f /\ want'[c] = w
      /\ \A d \in Clients \ {c} : file'[d] = file[d] /\ want'[d] = want[d]
  BY <1>2, <1>5
<1>7. \A d \in Clients, k \in Own : Has(d, k)' => Has(d, k)
  BY <1>5, <1>6 DEF Has
<1>8. TypeOK'
  <2>1. file' \in [Clients -> Contents] /\ want' \in [Clients -> SUBSET Users]
    BY <1>2, <1>5
  <2> QED BY <1>1, <1>2, <2>1 DEF IInv, TypeOK, ours, InFile, Now
<1>9. WriteInv'
  <2>1. \A d \in Clients : file[d].is # "partial" => file'[d].is # "partial"
    BY <1>5, <1>6
  <2> QED BY <1>1, <1>2, <2>1 DEF IInv, WriteInv, Writes, Now
<1>10. HeldInv'
  <2> SUFFICES ASSUME mishaps' \cap {"overtaken", "shared"} = {}, NEW q \in Procs, InFile(q)',
                      NEW s, s = Now(q)'
               PROVE  proc'[q].held = Rewritten(s)'
    BY DEF HeldInv
  <2>1. InFile(q) /\ s = Now(q) /\ mishaps \cap {"overtaken", "shared"} = {} /\ "overtaken" \notin mishaps'
    BY <1>2 DEF InFile, Now
  <2>2. proc[q].held = Rewritten(s) /\ s.c \in Clients /\ s.c # c
    BY <1>3, <2>1, Filing DEF IInv, HeldInv
  <2> QED BY <1>2, <1>6, <2>2, SameRewritten
<1>11. KeptInv'
  <2> SUFFICES ASSUME mishaps' \cap {"overtaken", "shared", "mixed"} = {},
                      NEW d \in Clients, NEW v \in want'[d]
               PROVE  /\ Has(d, v)'
                      /\ \A q \in Procs : InFile(q)' /\ Now(q)'.c = d => \E g \in proc'[q].held : v \in g
    BY DEF KeptInv
  <2>1. mishaps \cap {"overtaken", "shared", "mixed"} = {} /\ "overtaken" \notin mishaps'
    BY <1>2
  <2>2. \A u \in want[d] : Has(d, u) /\ \A q \in Procs : InFile(q) /\ Now(q).c = d => \E g \in proc[q].held : u \in g
    BY <2>1 DEF IInv, KeptInv
  <2>3. CASE d = c
    <3>1. \A q \in Procs : InFile(q)' => Now(q)'.c # d
      BY <1>2, <1>3, <2>1, <2>3 DEF InFile, Now
    <3>2. \E g \in f.groups : v \in g
      BY <1>5, <1>6, <2>2, <2>3 DEF Has
    <3> QED BY <1>6, <2>3, <3>1, <3>2 DEF Has
  <2>4. CASE d # c
    BY <1>2, <1>6, <2>2, <2>4 DEF Has, InFile, Now
  <2> QED BY <2>3, <2>4
<1>12. PlacesInv'
  <2>1. mishaps' \cap {"overtaken", "shared"} = {} => mishaps \cap {"overtaken", "shared"} = {}
    BY <1>2
  <2> QED BY <1>1, <1>7, <2>1 DEF IInv, PlacesInv, ours
<1>13. GoneInv'
  BY <1>2 DEF IInv, GoneInv, GoneLast
<1>14. CleanInv'
  <2>1. \A d \in Clients : Fewer(d)
    BY <1>1, <1>7 DEF Fewer, ours
  <2> QED BY <1>1, <1>2, <2>1, CleanFewer
<1> QED BY <1>8, <1>9, <1>10, <1>11, <1>12, <1>13, <1>14 DEF IInv

LEMMA StillKeeps ==
    ASSUME IInv, UNCHANGED <<present, ours, file, tmp, proc, want, removed, mishaps>>,
           cliUp' \in [Clients -> BOOLEAN]
    PROVE  IInv'
<1>1. TypeOK'
  BY DEF IInv, TypeOK, ours, InFile, Now
<1>2. WriteInv'
  BY DEF IInv, WriteInv, Writes, Now
<1>3. HeldInv' /\ KeptInv'
  BY HeldSame DEF Now, InFile
<1>4. PlacesInv'
  BY SameFile DEF IInv, PlacesInv, ours
<1>5. GoneInv'
  BY DEF IInv, GoneInv, GoneLast
<1>6. CleanInv'
  <2>1. \A c \in Clients : Fewer(c)
    BY SameFile DEF Fewer, ours
  <2> QED BY <2>1, CleanFewer
<1> QED BY <1>1, <1>2, <1>3, <1>4, <1>5, <1>6 DEF IInv

LEMMA InitHolds == Init => IInv
<1> SUFFICES ASSUME Init PROVE IInv
  OBVIOUS
<1>1. /\ Missing \in Contents /\ Missing.groups = {} /\ Missing.is = "missing"
      /\ Idle \in Tasks /\ Idle.todo = << >> /\ Idle.at = "next"
  BY DEF Missing, Contents, Idle, Tasks, Ops
<1>2. /\ present \subseteq Clients
      /\ cliUp = [c \in Clients |-> TRUE] /\ cli = [c \in Clients |-> FALSE]
      /\ skill = [c \in Clients |-> FALSE] /\ plugin = "none"
      /\ file = [c \in Clients |-> Missing] /\ tmp = file
      /\ proc = [p \in Procs |-> Idle]
      /\ want = [c \in Clients |-> {}] /\ removed = {} /\ mishaps = {}
  BY IntegrationsAssumption DEF Init
<1>3. TypeOK
  BY <1>1, <1>2 DEF TypeOK, InFile
<1>4. WriteInv /\ HeldInv /\ KeptInv
  BY <1>1, <1>2 DEF WriteInv, Writes, HeldInv, KeptInv, InFile
<1>5. PlacesInv
  BY <1>1, <1>2 DEF PlacesInv, Has
<1>6. \A p \in Procs : NoGone(proc[p].todo)
  BY <1>1, <1>2 DEF NoGone
<1> QED BY <1>2, <1>3, <1>4, <1>5, <1>6, NoGoneFine DEF IInv, GoneInv, CleanInv

(* The invariant holds in every state the commands, the clients and the     *)
(* user can reach.                                                          *)
THEOREM InvariantHolds == Spec => []IInv
<1>1. ASSUME IInv, [Next]_vars PROVE IInv'
  <2>1. ASSUME NEW p \in Procs,
               \/ Command(p) \/ CliRemove(p) \/ CliAdd(p) \/ Directory(p) \/ ReadFile(p) \/ OpenTmp(p)
               \/ FillTmp(p) \/ Rename(p) \/ Ask(p) \/ Decide(p) \/ Gone(p) \/ Kill(p)
        PROVE  IInv'
    BY <1>1, <2>1, CommandKeeps, CliRemoveKeeps, CliAddKeeps, DirectoryKeeps, ReadFileKeeps, OpenTmpKeeps,
       FillTmpKeeps, RenameKeeps, AskKeeps, DecideKeeps, GoneKeeps, KillKeeps
  <2>2. ASSUME NEW c \in Clients, CliChanges(c) PROVE IInv'
    BY <1>1, <2>2, StillKeeps DEF CliChanges, Edits, IInv, TypeOK
  <2>3. ASSUME UNCHANGED vars PROVE IInv'
    BY <1>1, <2>3, StillKeeps DEF vars, foreign, IInv, TypeOK
  <2> QED BY <1>1, <2>1, <2>2, <2>3, EditFileKeeps DEF Next
<1> QED BY <1>1, InitHolds, PTL DEF Spec

(* What the user keeps in a client's file survives every command of ours,   *)
(* however commands, clients and the user interleave (updateJsonConfig,     *)
(* withoutHook).                                                            *)
THEOREM UsersKeptHolds == Spec => []UsersKept
<1>1. IInv => UsersKept
  BY DEF IInv, KeptInv, UsersKept
<1> QED BY <1>1, InvariantHolds, PTL

(* No client reads a half-written file (writeJsonAtomic).                   *)
THEOREM WholeHolds == Spec => []Whole
<1>1. IInv => Whole
  BY DEF IInv, WriteInv, Whole
<1> QED BY <1>1, InvariantHolds, PTL

(* Nothing of ours is left where an uninstall went through.                 *)
THEOREM CleanHolds == Spec => []Clean
<1>1. IInv => Clean
  BY DEF IInv, CleanInv, Clean, Undisturbed
<1> QED BY <1>1, InvariantHolds, PTL

=============================================================================
