-------------------------------- MODULE Setup --------------------------------
(***************************************************************************)
(* How stormpulse.toml comes about: `stormpulse init` and its feature      *)
(* steps, `garage init`, `caddy init`, `rclone init`, `logging init` and   *)
(* `investigate deploy init`, one after the other, each ended at any       *)
(* prompt (declined, end of input, InitError, killed) and cut in the       *)
(* middle of a write; and what load_config makes of the file they leave.   *)
(*                                                                         *)
(* The file is a bag of blocks: a table, a [[log_groups]] entry with its   *)
(* source and name, or a deploy subject.  Values are abstracted to whether *)
(* the loader, or the integration the table is for, accepts them; but all  *)
(* commands save `investigate deploy init` put them between quotes as they *)
(* are, and one with a quote or a backslash spoils the file: TOML refuses  *)
(* the text, and with it every block.                                      *)
(***************************************************************************)
EXTENDS Naturals

CONSTANTS
    Names,       \* group names, container names and unit stems
    Loadable,    \* those that match _LOG_NAME_PATTERN; a bare TOML key has the same letters
    Odd,         \* stems no bare TOML key can hold ("app@blue")
    Containers,  \* what `docker ps` may list
    Units,       \* operator-installed units, of .service and .timer, and any typed in
    Spoiling,    \* those with a backslash or a quote in their name ("app\x2dblue")
    StemOf,      \* a unit's name without its suffix
    GroupOf,     \* group_name_for_unit: the stem with every other letter replaced
    MaxSetups    \* bound: commands run

ASSUME SetupAssumption ==
    /\ Loadable \subseteq Names /\ Odd \subseteq Names \ Loadable
    /\ {"caddy", "caddy-events"} \subseteq Loadable
    /\ Containers \subseteq Names /\ Spoiling \subseteq Units
    /\ StemOf \in [Units -> Names] /\ GroupOf \in [Units -> Loadable]
    /\ MaxSetups \in Nat

Features == {"garage", "caddy", "rclone"}
Tables == Features \cup {"core", "commands"}

Table(t) == <<"table", t>>
Group(s, n) == <<s, n>>
Subject(n) == <<"deploy", n>>

\* Text no TOML has: a line that was cut, or a string its value spoils.
Torn == <<"torn", "torn">>

TableBlocks == {Table(t) : t \in Tables}
GroupBlocks ==
    {Group("docker", n) : n \in Containers} \cup {Group("file", n) : n \in {"caddy", "caddy-events"}}
        \cup {Group("journald", GroupOf[u]) : u \in Units}
SubjectBlocks == {Subject(StemOf[u]) : u \in Units}
Blocks == TableBlocks \cup GroupBlocks \cup SubjectBlocks \cup {Torn}

VARIABLES
    onDisk,     \* stormpulse.toml exists
    toml,       \* how often each block is in it: 0, 1, or 2 for more than once
    bad,        \* blocks whose values are not accepted
    paths,      \* the files the core tables name exist
    unitFile,   \* the systemd unit exists
    shut,       \* the seal flag exists
    doing,      \* the command that runs
    at,         \* where it is
    forced,     \* --force, or the overwrite was confirmed
    fits,       \* the answers given are ones the integration accepts
    wrote,      \* logging init has appended something
    serves,     \* history: the blocks the agent runs with since its last restart
    claimed,    \* history: blocks a command said it wrote, and nothing replaced since
    kept,       \* history: no rewrite was cut
    whole,      \* history: nor an append, and no header or value was written that TOML refuses
    ready,      \* history: init has said "Setup complete!"
    setups      \* commands run

tomlVars == <<onDisk, toml, bad, paths>>
doneVars == <<unitFile, shut, serves, ready, kept>>
setupVars == <<tomlVars, doneVars, doing, at, forced, fits, wrote, claimed, whole, setups>>

SetupInit ==
    /\ onDisk = FALSE /\ toml = [b \in Blocks |-> 0] /\ bad = {} /\ paths = TRUE
    /\ unitFile = FALSE /\ shut = FALSE /\ serves = {} /\ ready = FALSE
    /\ doing = "none" /\ at = "idle" /\ forced = FALSE /\ fits = FALSE /\ wrote = FALSE
    /\ claimed = {} /\ kept = TRUE /\ whole = TRUE /\ setups = 0

----------------------------------------------------------------------------
\* The loader.
Has(b) == toml[b] > 0

\* tomllib.load: no table twice, nothing cut or spoilt, every key one that TOML allows.
Parses ==
    /\ ~ Has(Torn)
    /\ \A b \in TableBlocks \cup SubjectBlocks : toml[b] =< 1
    /\ \A u \in Units : StemOf[u] \in Odd => ~ Has(Subject(StemOf[u]))

\* The seven core tables, each with its keys, types and ranges: any fault is fatal.
\* init writes them together, and rightly.
CoreParsed == Has(Table("core")) /\ Table("core") \notin bad

\* [commands.*]: absent, or every one of them valid; a fault is fatal.
CommandsParsed == Has(Table("commands")) => Table("commands") \notin bad

\* Every other table is kept raw; the integration it is for reads it at bootstrap,
\* and refuses it alone.
IntegrationsParsed == {Table(t) : t \in {u \in Features : Has(Table(u)) /\ Table(u) \notin bad}}

\* A subject that is not valid is skipped; so is one under a dotted name, a table
\* of tables to the parser.
DeployProbes == {b \in SubjectBlocks : Has(b) /\ b \notin bad}

\* An entry that is not valid is skipped, and so is the second of a name.
LogGroups ==
    {b \in GroupBlocks : /\ Has(b) /\ b \notin bad
                         /\ \A c \in GroupBlocks : Has(c) /\ c \notin bad /\ c[2] = b[2] => c = b /\ toml[c] = 1}

LoadConfig == onDisk /\ Parses /\ CoreParsed /\ CommandsParsed

\* Config.validate_paths: the core's files, never an integration's.
ValidatePaths == paths

----------------------------------------------------------------------------
\* What the commands read of the file: nothing, when it does not parse.
HasSection(t) == onDisk /\ Parses /\ Has(Table(t))
ExistingGroupNames == {n \in Names : onDisk /\ Parses /\ \E b \in GroupBlocks : b[2] = n /\ Has(b)}
ExistingSubjects == {n \in Loadable : onDisk /\ Parses /\ \E b \in SubjectBlocks : b[2] = n /\ Has(b)}

More(b) == IF toml[b] = 0 THEN 1 ELSE 2

\* Blocks appended to the file, some of them with values the loader refuses; spoils:
\* one of the values is no TOML between quotes.
Written(new, wrong, spoils) ==
    /\ toml' = [b \in Blocks |-> CASE b \in new -> More(b)
                                   [] b = Torn /\ spoils -> 1
                                   [] OTHER -> toml[b]]
    /\ bad' = (bad \ new) \cup wrong
    /\ claimed' = claimed \cup new
    /\ whole' = (whole /\ ~spoils)

Idle == doing' = "none" /\ at' = "idle"

BeginSetup(c, place, f) ==
    /\ at = "idle" /\ setups < MaxSetups
    /\ setups' = setups + 1
    /\ doing' = c /\ at' = place /\ forced' = f /\ fits' = FALSE /\ wrote' = FALSE
    /\ UNCHANGED <<tomlVars, doneVars, claimed, whole>>

\* A command ends where it asks: a no, the end of the input, an InitError, a kill.
Quit ==
    /\ at # "idle"
    /\ Idle
    /\ UNCHANGED <<tomlVars, doneVars, forced, fits, wrote, claimed, whole, setups>>

\* Killed, or the disk full, between write_text's truncation of the file and its write.
CutRewrite ==
    /\ at = "rewrite"
    /\ toml' = [b \in Blocks |-> 0]
    /\ kept' = FALSE /\ whole' = FALSE
    /\ Idle
    /\ UNCHANGED <<onDisk, bad, paths, unitFile, shut, serves, ready, forced, fits, wrote, claimed, setups>>

\* The disk full in the middle of an append: "Cannot append to ...".
CutAppend ==
    /\ at \in {"append", "garage", "docker", "access", "events", "journald"} /\ onDisk
    /\ toml' = [toml EXCEPT ![Torn] = 1]
    /\ whole' = FALSE
    /\ Idle
    /\ UNCHANGED <<onDisk, bad, paths, doneVars, forced, fits, wrote, claimed, setups>>

----------------------------------------------------------------------------
\* stormpulse init.  The credentials are there; the questions follow.
RunInit(f) == BeginSetup("init", "prompts", f)

\* The overwrite is confirmed; the new file replaces the old whole.  An env file
\* that is not there is written down anyway; the answers (a URL, paths, a service) go
\* into the template as they are.
WriteConfig(found, spoils) ==
    /\ doing = "init" /\ at = "prompts"
    /\ onDisk' = TRUE
    /\ toml' = [b \in Blocks |-> IF b = Table("core") \/ (b = Torn /\ spoils) THEN 1 ELSE 0]
    /\ bad' = {} /\ paths' = found
    /\ claimed' = {Table("core")} /\ kept' = TRUE /\ whole' = ~spoils
    /\ ready' = FALSE
    /\ forced' = (forced \/ onDisk)
    /\ at' = "unit"
    /\ UNCHANGED <<unitFile, shut, serves, doing, fits, wrote, setups>>

\* A unit left by an earlier install stops an init that is not forced.
WriteUnit ==
    /\ at = "unit" /\ (unitFile => forced)
    /\ unitFile' = TRUE
    /\ at' = "garage"
    /\ UNCHANGED <<tomlVars, shut, serves, ready, kept, doing, forced, fits, wrote, claimed, whole, setups>>

\* No Garage on the box or a no: skipped; else the table is appended.
GarageInitStep(add, ok, spoils) ==
    /\ at = "garage"
    /\ \/ /\ add /\ onDisk /\ ~ HasSection("garage")
          /\ Written({Table("garage")}, IF ok THEN {} ELSE {Table("garage")}, spoils)
       \/ ~ add /\ UNCHANGED <<toml, bad, claimed, whole>>
    /\ at' = "docker"
    /\ UNCHANGED <<onDisk, paths, doneVars, doing, forced, fits, wrote, setups>>

\* prompt_logging_setup: running containers that have no group yet.
Offered == Containers \ ExistingGroupNames

\* A container's name is taken as it is, and so is the docker binary.
RefusedGroups(new, binaryOk) == {b \in new : b[2] \notin Loadable \/ ~ binaryOk}

\* The chosen containers' groups, in one append; the binary is asked for if any is chosen.
LoggingInitStep(chosen, binaryOk, spoils) ==
    /\ at = "docker" /\ chosen \subseteq Offered /\ onDisk
    /\ spoils => chosen # {}
    /\ LET new == {Group("docker", n) : n \in chosen} IN Written(new, RefusedGroups(new, binaryOk), spoils)
    /\ wrote' = (wrote \/ chosen # {})
    /\ at' = IF doing = "init" THEN "seal" ELSE "access"
    /\ UNCHANGED <<onDisk, paths, doneVars, doing, forced, fits, setups>>

\* The agent ships sealed; the state directory is found through load_config.
SignoffInitStep ==
    /\ at = "seal" /\ LoadConfig
    /\ shut' = TRUE
    /\ at' = "host"
    /\ UNCHANGED <<tomlVars, unitFile, serves, ready, kept, doing, forced, fits, wrote, claimed, whole, setups>>

\* daemon-reload, and the closing words.
SetupHost ==
    /\ at = "host"
    /\ ready' = TRUE
    /\ Idle
    /\ UNCHANGED <<tomlVars, unitFile, shut, serves, kept, forced, fits, wrote, claimed, whole, setups>>

----------------------------------------------------------------------------
\* garage init, caddy init, rclone init: found on the box, not yet in the file or forced.
RunFeatureInit(t, f) ==
    /\ HasSection(t) => f
    /\ BeginSetup(t, "ask", f)

RunGarageInit(f) == RunFeatureInit("garage", f)
RunCaddyInit(f) == RunFeatureInit("caddy", f)
RunRcloneInit(f) == RunFeatureInit("rclone", f)

\* A yes after the last answer: append_*_section looks once more.
Confirmed(t, ok) ==
    /\ doing = t /\ at = "ask" /\ onDisk
    /\ HasSection(t) => forced
    /\ fits' = ok
    /\ at' = IF HasSection(t) THEN "rewrite" ELSE "append"
    /\ UNCHANGED <<tomlVars, doneVars, doing, forced, wrote, claimed, whole, setups>>

\* Container, binaries and admin API, as found or as typed in.
PromptGarageValues(ok) == Confirmed("garage", ok)

\* ok: the main Caddyfile imports the drop-in; without it the operator is asked again.
PromptCaddyValues(ok) == Confirmed("caddy", ok)

\* The path is absolute; ok: rclone runs there.
PromptRcloneValues(ok) == Confirmed("rclone", ok)

\* Mutant: everything from the header to the end of the file goes.
RemoveToEnd(t) == [b \in Blocks |-> IF b = Table("core") THEN toml[b] ELSE 0]

\* remove_*_section: the table's own lines, up to the next header.
RemoveSection(t) == [toml EXCEPT ![Table(t)] = 0]

\* The section that is replaced: read, and written back without its lines.
RewriteSection ==
    /\ at = "rewrite"
    /\ toml' = RemoveSection(doing)
    /\ claimed' = claimed \ {Table(doing)}
    /\ at' = "append"
    /\ UNCHANGED <<onDisk, bad, paths, doneVars, doing, forced, fits, wrote, whole, setups>>

\* The new table, its values as they were found or typed in, and where the command goes next.
AppendTable(t, next, spoils) ==
    /\ doing = t /\ at = "append"
    /\ Written({Table(t)}, IF fits THEN {} ELSE {Table(t)}, spoils)
    /\ at' = next
    /\ UNCHANGED <<onDisk, paths, doneVars, doing, forced, fits, wrote, setups>>

AppendGarageSection(spoils) == AppendTable("garage", "restart", spoils)
AppendCaddySection(spoils) == AppendTable("caddy", "access", spoils)
AppendRcloneSection(spoils) == AppendTable("rclone", "restart", spoils)

----------------------------------------------------------------------------
\* logging init: the containers, then the host's own logs.
RunLoggingInit == onDisk /\ BeginSetup("logging", "docker", FALSE)

\* Where the offers lead: logging init goes on to the journal and offers a restart
\* when it wrote something, caddy init when the import is there.
After(here) ==
    CASE here = "access" -> "events"
      [] here = "events" /\ doing = "logging" -> "journald"
      [] OTHER -> IF wrote \/ (doing = "caddy" /\ fits) THEN "restart" ELSE "idle"

GoOn(here) == at = here /\ at' = After(here) /\ doing' = IF at' = "idle" THEN "none" ELSE doing

\* Asked when the log is there or [caddy] is, and no group has the name.
CaddySignal(logThere) == logThere \/ HasSection("caddy")

OfferFileGroup(here, name, logThere) ==
    /\ GoOn(here) /\ onDisk
    /\ name \notin ExistingGroupNames /\ CaddySignal(logThere)
    /\ Written({Group("file", name)}, {}, FALSE)
    /\ wrote' = (doing = "logging")
    /\ UNCHANGED <<onDisk, paths, doneVars, forced, fits, setups>>

OfferCaddyLogGroup(logThere) == OfferFileGroup("access", "caddy", logThere)
OfferCaddyEventsLogGroup(logThere) == OfferFileGroup("events", "caddy-events", logThere)

\* Nothing to offer here, or a no.
Pass(here) ==
    /\ GoOn(here)
    /\ UNCHANGED <<tomlVars, doneVars, forced, fits, wrote, claimed, whole, setups>>

\* _has_log_group: two units may have one group name, and a unit may have a container's.
NameFree(u) == GroupOf[u] \notin ExistingGroupNames

\* _add_unit, for a unit picked or typed in: only white space is refused, and the name
\* goes between quotes as it is.
AddUnit(u) ==
    /\ at = "journald" /\ onDisk /\ NameFree(u)
    /\ Written({Group("journald", GroupOf[u])}, {}, u \in Spoiling)
    /\ wrote' = TRUE
    /\ UNCHANGED <<onDisk, paths, doneVars, doing, at, forced, fits, setups>>

----------------------------------------------------------------------------
\* investigate deploy init: a unit with no subject yet, one atomic write, which
\* also makes a file that was not there.  render_scalar escapes the values; the stem is
\* not quoted in the header.
RunDeployInit == BeginSetup("deploy", "subject", FALSE)

\* The loader's verdict on the table: a dotted stem makes a table of tables.
SubjectRefused(n) == n \notin Loadable

\* claim_section: the section replaced or added, the rest kept, in one rename.
ClaimSection(b) == toml' = [toml EXCEPT ![b] = 1] /\ onDisk' = TRUE

ClaimSubject(u) ==
    /\ at = "subject" /\ StemOf[u] \notin ExistingSubjects
    /\ LET table == Subject(StemOf[u])
       IN  /\ ClaimSection(table)
           /\ bad' = (bad \ {table}) \cup (IF SubjectRefused(StemOf[u]) THEN {table} ELSE {})
           /\ claimed' = claimed \cup {table}
    /\ whole' = (whole /\ StemOf[u] \notin Odd)
    /\ Idle
    /\ UNCHANGED <<paths, doneVars, forced, fits, wrote, setups>>

\* The operator edits the core tables, or [commands.*], by hand: rightly or wrongly.
HandEdit(t, ok) ==
    /\ at = "idle" /\ onDisk /\ setups < MaxSetups
    /\ t = "core" => Has(Table("core"))
    /\ setups' = setups + 1
    /\ toml' = [toml EXCEPT ![Table(t)] = 1]
    /\ bad' = (bad \ {Table(t)}) \cup (IF ok THEN {} ELSE {Table(t)})
    /\ UNCHANGED <<onDisk, paths, doneVars, doing, at, forced, fits, wrote, claimed, whole>>

\* offer_restart, accepted: the agent loads the file, or does not come up.
OfferRestart ==
    /\ at = "restart"
    /\ serves' = IF LoadConfig /\ ValidatePaths
                 THEN IntegrationsParsed \cup LogGroups \cup DeployProbes \cup {Table("core")}
                 ELSE {}
    /\ at' = "restarted"
    /\ UNCHANGED <<tomlVars, unitFile, shut, ready, kept, doing, forced, fits, wrote, claimed, whole, setups>>

FeatureStep ==
    \/ \E f \in BOOLEAN : RunGarageInit(f) \/ RunCaddyInit(f) \/ RunRcloneInit(f)
    \/ \E ok \in BOOLEAN : PromptGarageValues(ok) \/ PromptCaddyValues(ok) \/ PromptRcloneValues(ok)
    \/ RewriteSection
    \/ \E spoils \in BOOLEAN :
          AppendGarageSection(spoils) \/ AppendCaddySection(spoils) \/ AppendRcloneSection(spoils)

SetupNext ==
    \/ \E f \in BOOLEAN : RunInit(f)
    \/ \E found, spoils \in BOOLEAN : WriteConfig(found, spoils)
    \/ WriteUnit \/ SignoffInitStep \/ SetupHost
    \/ \E add, ok, spoils \in BOOLEAN : GarageInitStep(add, ok, spoils)
    \/ \E chosen \in SUBSET Containers, ok, spoils \in BOOLEAN : LoggingInitStep(chosen, ok, spoils)
    \/ FeatureStep
    \/ RunLoggingInit \/ RunDeployInit
    \/ \E logThere \in BOOLEAN : OfferCaddyLogGroup(logThere) \/ OfferCaddyEventsLogGroup(logThere)
    \/ \E here \in {"access", "events", "journald"} : Pass(here)
    \/ \E u \in Units : AddUnit(u) \/ ClaimSubject(u)
    \/ \E t \in {"core", "commands"}, ok \in BOOLEAN : HandEdit(t, ok)
    \/ OfferRestart
    \/ Quit \/ CutRewrite \/ CutAppend

SetupSpec == SetupInit /\ [][SetupNext]_setupVars

----------------------------------------------------------------------------
Places == {"idle", "prompts", "unit", "garage", "docker", "seal", "host", "ask", "rewrite",
           "append", "access", "events", "journald", "subject", "restart", "restarted"}

SetupTypeOK ==
    /\ onDisk \in BOOLEAN /\ paths \in BOOLEAN /\ unitFile \in BOOLEAN /\ shut \in BOOLEAN
    /\ forced \in BOOLEAN /\ fits \in BOOLEAN /\ wrote \in BOOLEAN
    /\ ready \in BOOLEAN /\ kept \in BOOLEAN /\ whole \in BOOLEAN
    /\ toml \in [Blocks -> 0..2]
    /\ bad \subseteq Blocks /\ serves \subseteq Blocks /\ claimed \subseteq Blocks
    /\ doing \in Features \cup {"none", "init", "logging", "deploy"} /\ at \in Places
    /\ setups \in Nat

\* However the commands follow each other and wherever they end, the file load_config
\* reads has no table twice and all of init's: a restart does not meet a ConfigError,
\* unless a write was cut or a value or header spoilt the text.
Bootable == whole /\ CoreParsed /\ CommandsParsed => LoadConfig

\* What one command wrote no other drops, in a spoilt file neither: replacing a section
\* keeps the rest, and a section that cannot be seen is not replaced.
NothingLost == kept => \A b \in claimed : Has(b)

\* A log group that a command says it added is one the loader takes: no two commands
\* add one name, whatever the source.
AddedIsLoaded == whole => (claimed \cap GroupBlocks) \ bad \subseteq LogGroups

\* The restart a command offers brings the agent up with all that was configured.
RestartTakes ==
    at = "restarted" /\ whole /\ paths /\ CoreParsed /\ CommandsParsed => claimed \ bad \subseteq serves

\* An installation that was said to be complete is sealed.
ReadySealed == ready => shut /\ unitFile

\* What generate_toml says of its text, "a valid TOML config string": not of one with an
\* answer that is no TOML between quotes.  No run keeps this.
GeneratedParses == at = "unit" => Parses

\* A setup command, however it ends, leaves a file with every section it and its
\* predecessors reported, unless a rewrite was cut in the middle; and the agent starts
\* from it, unless any write was cut or wrote what TOML refuses.
SetupSound == Bootable /\ NothingLost /\ AddedIsLoaded /\ RestartTakes /\ ReadySealed
=============================================================================
