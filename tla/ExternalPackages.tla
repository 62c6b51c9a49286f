-------------------------- MODULE ExternalPackages --------------------------
(***************************************************************************)
(* The on-host store of external integration packages                      *)
(* (stormpulse/integrations/external) and its two users: the operator's    *)
(* `stormpulse integration` commands (cli/integration.py), each a process  *)
(* of its own that may die between any two file operations, and the agent, *)
(* which reads the store without the lock when it boots and before every   *)
(* command an adapter contributes (agent/external_adapters.py).            *)
(*                                                                         *)
(* One integration id, several packages (digests) of it.  A file written   *)
(* by atomic_write is replaced in one step; a tree appears by one rename.  *)
(* A digest stands for its content: a tree whose bytes changed is          *)
(* "corrupt", and a re-hash tells.                                         *)
(***************************************************************************)
EXTENDS Naturals, FiniteSets

CONSTANTS
    Pkgs,         \* package digests of the integration
    Publishers,
    PublisherOf,  \* Pkgs -> Publishers, as the manifest and signature name it
    Requested,    \* Pkgs -> SUBSET Caps, the manifest's requests
    Ops,          \* processes of the command line
    NoPkg, NoOp,
    MaxOps,       \* bound: commands the operator starts
    MaxDeaths,    \* bound: commands that die midway
    MaxRot        \* bound: files damaged on disk

Caps == {"integration_load", "command_contributor"}

ASSUME PackagesAssumption ==
    /\ PublisherOf \in [Pkgs -> Publishers]
    /\ Requested \in [Pkgs -> SUBSET Caps]
    /\ NoPkg \notin Pkgs /\ NoOp \notin Ops

VARIABLES
    trust,     \* Publishers -> "unknown" | "active" | "revoked"
    tree,      \* Pkgs -> "absent" | "sealed" | "writable" | "corrupt"
    receipt,   \* Pkgs -> "absent" | "ok" | "corrupt"
    grant,     \* Pkgs -> [file : "absent" | "ok" | "corrupt", revoked : SUBSET Caps]
    active,    \* the active pointer: a package or NoPkg
    staging,   \* an install's staging directory is left in tmp/
    holder,      \* the state lock: a process of Ops or NoOp
    op,        \* Ops -> the command a process is in
    agent,     \* [at, pkg, commands]
    fenced,    \* history: Pkgs -> capabilities revoked and not sealed anew since
    ops, opDeaths, rot

packageVars == <<trust, tree, receipt, grant, active, staging, holder, op, agent,
                 fenced, ops, opDeaths, rot>>
store == <<trust, tree, receipt, grant, active, staging>>

NoCommand == [cmd |-> "none"]
NoGrant == [file |-> "absent", revoked |-> {}]

\* What a source directory offered to install turns out to be: a tree with a special
\* file, a bad name or too much in it; a manifest or signature file that will not parse;
\* a signature by another publisher, or one that does not verify; or none of these.
Sources == {"sound", "tree", "manifest", "signature", "mismatch", "forged"}

-----------------------------------------------------------------------------
(***************************************************************************)
(* Reading the store                                                       *)
(***************************************************************************)
\* scan_and_hash agrees with the digest.
Hashes(d) == tree[d] \in {"sealed", "writable"}

\* trust.lookup and is_active.
Lookup(p) == trust[p] # "unknown"
IsActive(p) == trust[p] = "active"

ReadReceipt(d) == receipt[d] = "ok"
ReadGrant(d) == grant[d].file = "ok"

\* effective_capabilities: granted (all that was requested) minus revoked.
EffectiveCapabilities(d) == Requested[d] \ grant[d].revoked

\* current_capabilities: an unreadable or missing grant holds nothing.
CurrentCapabilities(d) == IF ReadGrant(d) THEN EffectiveCapabilities(d) ELSE {}

\* The adapter's fence, re-read at every call.
Fence(d, needed) == needed \subseteq CurrentCapabilities(d)

-----------------------------------------------------------------------------
(***************************************************************************)
(* The command line.  state_lock: one process at a time; a contender polls *)
(* and gives up, which changes nothing.  A process that dies releases it.  *)
(***************************************************************************)
\* Mutant: the lock is not taken.
LockIgnored == TRUE

StoreLockFree == holder = NoOp

Starts(o, cmd, d, s) ==
    /\ op[o] = NoCommand /\ ops < MaxOps /\ StoreLockFree
    /\ ops' = ops + 1 /\ holder' = o
    /\ op' = [op EXCEPT ![o] = [cmd |-> cmd, pkg |-> d, step |-> s,
                                read |-> grant[d].revoked]]
InOp(o, cmd, s) == op[o].cmd = cmd /\ op[o].step = s
StepTo(o, s) == op' = [op EXCEPT ![o].step = s] /\ UNCHANGED holder
Done(o) == op' = [op EXCEPT ![o] = NoCommand] /\ holder' = NoOp

\* add_publisher and revoke_publisher: one record, one write, under the lock.
AddPublisher(p) ==
    /\ StoreLockFree /\ ops < MaxOps /\ ops' = ops + 1
    /\ trust[p] = "unknown"
    /\ trust' = [trust EXCEPT ![p] = "active"]
    /\ UNCHANGED <<tree, receipt, grant, active, staging, holder, op, agent, fenced, opDeaths, rot>>

RevokePublisher(p) ==
    /\ StoreLockFree /\ ops < MaxOps /\ ops' = ops + 1
    /\ trust[p] = "active"
    /\ trust' = [trust EXCEPT ![p] = "revoked"]
    /\ UNCHANGED <<tree, receipt, grant, active, staging, holder, op, agent, fenced, opDeaths, rot>>

\* copy_tree, parse_manifest, parse_signature and verify_signature of a source.
CopyTree(src) == src # "tree"
ParseManifest(src) == src # "manifest"
ParseSignature(src) == src # "signature"
VerifySignature(src) == src # "forged"

\* _authorize: one publisher, approved, not revoked, whose key the signature verifies by.
Authorize(d, src) ==
    /\ src # "mismatch" /\ Lookup(PublisherOf[d]) /\ IsActive(PublisherOf[d])
    /\ VerifySignature(src)

\* inspect_package: structural problems raise, trust problems are reported.
InspectPackage(d, src) ==
    IF ~(CopyTree(src) /\ ParseManifest(src) /\ ParseSignature(src)) THEN "raised"
    ELSE IF Lookup(PublisherOf[d]) /\ IsActive(PublisherOf[d])
            /\ src # "mismatch" /\ VerifySignature(src) THEN "trusted" ELSE "untrusted"

\* commit_install: the source is copied to a staging directory...
InstallStage(o, d, src) ==
    /\ Starts(o, "install", d, IF CopyTree(src) THEN src ELSE "refused")
    /\ staging' = TRUE
    /\ UNCHANGED <<trust, tree, receipt, grant, active, agent, fenced, opDeaths, rot>>

\* ... where the copy is hashed, parsed and authorized; a refusal keeps nothing.
InstallInspect(o) ==
    /\ op[o].cmd = "install" /\ op[o].step \in Sources \cup {"refused"}
    /\ LET src == op[o].step IN
       IF src # "refused" /\ ParseManifest(src) /\ ParseSignature(src) /\ Authorize(op[o].pkg, src)
       THEN StepTo(o, "target") /\ UNCHANGED staging
       ELSE Done(o) /\ staging' = FALSE
    /\ UNCHANGED <<trust, tree, receipt, grant, active, agent, fenced, ops, opDeaths, rot>>

\* seal_contents and the root's mode.
SealContents(t) == IF t = "writable" THEN "sealed" ELSE t

\* The digest path: an existing tree must still hash and is sealed again, a new
\* one is renamed into place, still writable at its root.
InstallTarget(o) ==
    /\ InOp(o, "install", "target")
    /\ LET d == op[o].pkg IN
       \/ /\ tree[d] = "absent"
          /\ tree' = [tree EXCEPT ![d] = "writable"]
          /\ StepTo(o, "mode") /\ UNCHANGED staging
       \/ /\ Hashes(d)
          /\ tree' = [tree EXCEPT ![d] = SealContents(@)]
          /\ StepTo(o, "receipt") /\ UNCHANGED staging
       \/ /\ tree[d] = "corrupt"
          /\ Done(o) /\ staging' = FALSE /\ UNCHANGED tree
    /\ UNCHANGED <<trust, receipt, grant, active, agent, fenced, ops, opDeaths, rot>>

InstallMode(o) ==
    /\ InOp(o, "install", "mode")
    /\ tree' = [tree EXCEPT ![op[o].pkg] = SealContents(@)]
    /\ StepTo(o, "receipt")
    /\ UNCHANGED <<trust, receipt, grant, active, staging, agent, fenced, ops, opDeaths, rot>>

WriteReceipt(o) ==
    /\ InOp(o, "install", "receipt")
    /\ receipt' = [receipt EXCEPT ![op[o].pkg] = "ok"]
    /\ staging' = FALSE /\ Done(o)
    /\ UNCHANGED <<trust, tree, grant, active, agent, fenced, ops, opDeaths, rot>>

\* seal: a readable receipt, a tree that still hashes, an active publisher.
SealCheck(o, d) ==
    /\ ReadReceipt(d) /\ Hashes(d) /\ IsActive(PublisherOf[d])
    /\ Starts(o, "seal", d, "first")
    /\ UNCHANGED <<store, agent, fenced, opDeaths, rot>>

\* Mutant: seal points active at the digest before the grant is written.
SealPointerFirst == <<"active", "grant">>

\* seal's two writes, in this order.
SealOrder == <<"grant", "active">>

SealWrite(o) ==
    /\ op[o].cmd = "seal" /\ op[o].step \in {"first", "second"}
    /\ LET d == op[o].pkg
           what == SealOrder[IF op[o].step = "first" THEN 1 ELSE 2]
       IN  /\ IF what = "grant"
              THEN /\ grant' = [grant EXCEPT ![d] = [file |-> "ok", revoked |-> {}]]
                   /\ fenced' = [fenced EXCEPT ![d] = {}]
                   /\ UNCHANGED active
              ELSE active' = d /\ UNCHANGED <<grant, fenced>>
           /\ IF op[o].step = "first" THEN StepTo(o, "second") ELSE Done(o)
    /\ UNCHANGED <<trust, tree, receipt, staging, agent, ops, opDeaths, rot>>

\* revoke: the grant is read, the capability must be granted, and the grant is
\* written back with one capability more in its overlay.
Overlay(revoked, c) == revoked \cup {c}

RevokeRead(o, d) ==
    /\ ReadGrant(d)
    /\ Starts(o, "revoke", d, "write")
    /\ UNCHANGED <<store, agent, fenced, opDeaths, rot>>

RevokeWrite(o, c) ==
    /\ InOp(o, "revoke", "write")
    /\ LET d == op[o].pkg IN
       /\ c \in Requested[d]
       /\ grant' = [grant EXCEPT ![d] = [file |-> "ok", revoked |-> Overlay(op[o].read, c)]]
       /\ fenced' = [fenced EXCEPT ![d] = @ \cup {c}]
    /\ Done(o)
    /\ UNCHANGED <<trust, tree, receipt, active, staging, agent, ops, opDeaths, rot>>

\* rollback: an existing grant that still may load becomes the active one.
RollbackGrant(d) ==
    /\ StoreLockFree /\ ops < MaxOps /\ ops' = ops + 1
    /\ ReadGrant(d) /\ "integration_load" \notin grant[d].revoked
    /\ active' = d
    /\ UNCHANGED <<trust, tree, receipt, grant, staging, holder, op, agent, fenced, opDeaths, rot>>

\* The process dies: the lock goes with it, its files stay as they are.
OpDies(o) ==
    /\ op[o] # NoCommand /\ opDeaths < MaxDeaths
    /\ opDeaths' = opDeaths + 1
    /\ op' = [op EXCEPT ![o] = NoCommand]
    /\ holder' = IF holder = o THEN NoOp ELSE holder
    /\ UNCHANGED <<store, agent, fenced, ops, rot>>

\* A file or a tree is damaged on disk, while no command is at work on it.
Rot(d) ==
    /\ rot < MaxRot /\ rot' = rot + 1 /\ holder = NoOp
    /\ \/ tree[d] # "absent" /\ tree' = [tree EXCEPT ![d] = "corrupt"]
          /\ UNCHANGED <<receipt, grant>>
       \/ receipt[d] = "ok" /\ receipt' = [receipt EXCEPT ![d] = "corrupt"]
          /\ UNCHANGED <<tree, grant>>
       \/ grant[d].file = "ok" /\ grant' = [grant EXCEPT ![d].file = "corrupt"]
          /\ UNCHANGED <<tree, receipt>>
    /\ UNCHANGED <<trust, active, staging, holder, op, agent, fenced, ops, opDeaths>>

-----------------------------------------------------------------------------
(***************************************************************************)
(* The agent.  load_sealed_adapters reads the active pointer, then the     *)
(* grant it names, then the tree, while the operator may be at work.       *)
(***************************************************************************)
Off == [at |-> "off", pkg |-> NoPkg, commands |-> FALSE]

\* _read_active: the pointer as it is now.
ReadActive == active

BootActive ==
    /\ agent.at = "off"
    /\ agent' = IF ReadActive = NoPkg THEN [Off EXCEPT !.at = "up"]
                ELSE [Off EXCEPT !.at = "grant", !.pkg = ReadActive]
    /\ UNCHANGED <<store, holder, op, fenced, ops, opDeaths, rot>>

\* active_grant: a grant that is not there is no adapter, one that cannot be
\* read raises before the loader's own try.  _load_one then asks for the load
\* capability of the grant it was given.
BootGrant ==
    /\ agent.at = "grant"
    /\ LET d == agent.pkg IN
       agent' = CASE grant[d].file = "corrupt" -> [Off EXCEPT !.at = "crashed"]
                  [] grant[d].file = "ok" /\ "integration_load" \in EffectiveCapabilities(d)
                       -> [agent EXCEPT !.at = "tree"]
                  [] OTHER -> [Off EXCEPT !.at = "up"]
    /\ UNCHANGED <<store, holder, op, fenced, ops, opDeaths, rot>>

\* _load_one: the tree must be there and hash to the sealed digest; the import
\* or the entry object may still fail.
LoadOne ==
    /\ agent.at = "tree"
    /\ \/ agent' = [Off EXCEPT !.at = "up"]
       \/ Hashes(agent.pkg) /\ agent' = [agent EXCEPT !.at = "register"]
    /\ UNCHANGED <<store, holder, op, fenced, ops, opDeaths, rot>>

\* load_and_register_external: a built-in's id or a declaration that does not translate
\* leaves the adapter out.
LoadAndRegister ==
    /\ agent.at = "register"
    /\ agent' \in {[Off EXCEPT !.at = "up"], [agent EXCEPT !.at = "config"]}
    /\ UNCHANGED <<store, holder, op, fenced, ops, opDeaths, rot>>

\* parse_config and enabled, fenced like every callback of the adapter.
Fenced(d) == ~Fence(d, {"integration_load"})

\* The specs: nothing is registered unless the command gate passes now.
CommandGate(d) == Fence(d, Caps)

ResolveAdapter ==
    /\ agent.at = "config"
    /\ \/ agent' = [Off EXCEPT !.at = "up"]        \* fenced, or its config refused
       \/ /\ ~Fenced(agent.pkg)
          /\ agent' = [agent EXCEPT !.at = "up", !.commands = CommandGate(agent.pkg)]
    /\ UNCHANGED <<store, holder, op, fenced, ops, opDeaths, rot>>

\* A command of the adapter is admitted and later attempted; both ask the fence.
Admit ==
    /\ agent.at = "up" /\ agent.commands
    /\ Fence(agent.pkg, Caps)
    /\ agent' = [agent EXCEPT !.at = "queued"]
    /\ UNCHANGED <<store, holder, op, fenced, ops, opDeaths, rot>>

Attempt ==
    /\ agent.at = "queued"
    /\ agent' = [agent EXCEPT !.at = IF Fence(agent.pkg, Caps) THEN "running" ELSE "up"]
    /\ UNCHANGED <<store, holder, op, fenced, ops, opDeaths, rot>>

JobEnds ==
    /\ agent.at = "running"
    /\ agent' = [agent EXCEPT !.at = "up"]
    /\ UNCHANGED <<store, holder, op, fenced, ops, opDeaths, rot>>

AgentStops ==
    /\ agent.at \in {"up", "crashed"}
    /\ agent' = Off
    /\ UNCHANGED <<store, holder, op, fenced, ops, opDeaths, rot>>

-----------------------------------------------------------------------------
PackagesInit ==
    /\ trust = [p \in Publishers |-> "unknown"]
    /\ tree = [d \in Pkgs |-> "absent"] /\ receipt = [d \in Pkgs |-> "absent"]
    /\ grant = [d \in Pkgs |-> NoGrant] /\ active = NoPkg /\ staging = FALSE
    /\ holder = NoOp /\ op = [o \in Ops |-> NoCommand] /\ agent = Off
    /\ fenced = [d \in Pkgs |-> {}] /\ ops = 0 /\ opDeaths = 0 /\ rot = 0

PackagesNext ==
    \/ \E p \in Publishers : AddPublisher(p) \/ RevokePublisher(p)
    \/ \E o \in Ops, d \in Pkgs : (\E src \in Sources : InstallStage(o, d, src)) \/ SealCheck(o, d) \/ RevokeRead(o, d)
    \/ \E o \in Ops : \/ InstallInspect(o) \/ InstallTarget(o) \/ InstallMode(o) \/ WriteReceipt(o)
                      \/ SealWrite(o) \/ OpDies(o)
                      \/ \E c \in Caps : RevokeWrite(o, c)
    \/ \E d \in Pkgs : RollbackGrant(d) \/ Rot(d)
    \/ BootActive \/ BootGrant \/ LoadOne \/ LoadAndRegister \/ ResolveAdapter \/ Admit \/ Attempt \/ JobEnds \/ AgentStops

PackagesSpec == PackagesInit /\ [][PackagesNext]_packageVars

-----------------------------------------------------------------------------
(***************************************************************************)
(* doctor.py: what it reports of one package, under the lock.              *)
(***************************************************************************)
\* _check_orphans: a tree no receipt names.
Orphan(d) == receipt[d] = "absent" /\ tree[d] # "absent"

Finding(d) ==
    IF receipt[d] = "corrupt" THEN "error"
    ELSE IF Orphan(d) THEN "warning"
    ELSE IF receipt[d] = "absent" THEN "none"
    ELSE IF tree[d] \in {"absent", "corrupt"} THEN "error"
    ELSE IF tree[d] = "writable" \/ ~IsActive(PublisherOf[d]) THEN "warning" ELSE "none"

\* A package the active pointer has moved past is demoted.
Overtaken(d) == active \notin {NoPkg, d} /\ grant[active].file = "ok"

DoctorPackages(d) ==
    IF Finding(d) = "error" /\ Overtaken(d) THEN "warning" ELSE Finding(d)

-----------------------------------------------------------------------------
(***************************************************************************)
(* Properties                                                              *)
(***************************************************************************)
\* Whatever command died where, the store never points at nothing: the active
\* pointer names a grant, a grant stands on a receipt, a receipt on a tree.
NeverDangling ==
    /\ active # NoPkg => grant[active].file # "absent"
    /\ \A d \in Pkgs : /\ grant[d].file # "absent" => receipt[d] # "absent"
                       /\ receipt[d] # "absent" => tree[d] # "absent"

\* A capability the operator was told is revoked stays revoked through every
\* other command, death and restart until the digest is sealed anew, and work
\* it fences does not start.
RevocationKept ==
    \A d \in Pkgs : fenced[d] \cap CurrentCapabilities(d) = {}

\* Authority is only ever written for a package that may have it at that very
\* moment: its receipt is there and its publisher has not been revoked, even
\* by a command running beside the seal.
AuthorityEarned ==
    [][\A d \in Pkgs : CurrentCapabilities(d)' \ CurrentCapabilities(d) # {}
         => receipt[d] # "absent" /\ IsActive(PublisherOf[d])]_packageVars

\* doctor and the loader agree: an active adapter with a readable, load-granted
\* record that boot would refuse for its files is an error in doctor's report.
DoctorSees ==
    LET d == active IN
    (/\ d # NoPkg /\ StoreLockFree
     /\ grant[d].file = "ok" /\ "integration_load" \in EffectiveCapabilities(d)
     /\ ~Hashes(d)) => DoctorPackages(d) = "error"

\* The loader's docstring: "one bad package soft-disables itself and never
\* blocks the others or the agent".  Violated by the code (README, Known divergences).
OneBadPackageIsolated == agent.at # "crashed"

\* What inspect calls trusted is exactly what an install running now would accept.
InspectAgrees ==
    \A d \in Pkgs, src \in Sources :
        InspectPackage(d, src) = "trusted" <=>
            CopyTree(src) /\ ParseManifest(src) /\ ParseSignature(src) /\ Authorize(d, src)

\* The store on disk is sound for whoever reads it next: nothing dangles, what was
\* revoked is revoked, what boot would refuse doctor reports, and inspect and install
\* judge a source alike.
StoreSound == NeverDangling /\ RevocationKept /\ DoctorSees /\ InspectAgrees
=============================================================================
