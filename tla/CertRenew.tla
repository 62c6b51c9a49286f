----------------------------- MODULE CertRenew -----------------------------
(***************************************************************************)
(* The agent's client certificate on disk: enrolment (enroll.py,           *)
(* cli/enroll.py), the daily renewal of the running agent                  *)
(* (agent/cert_renew.py), `stormpulse renew` beside it (cli/renew.py) and  *)
(* the load of the pair at start (agent/ssl_context.py, cli/run.py).       *)
(* Every file operation is a step, so that a crash, a failing write or the *)
(* other process may come between any two.  The control plane is external: *)
(* it renews for the certificate it holds as current, and answers again a  *)
(* request of the one before that carries the key it last certified.       *)
(* A certificate is its serial, a key its number, 0 is a missing file.     *)
(***************************************************************************)
EXTENDS Naturals, Sequences

CONSTANTS
    MaxSerial,   \* bound: certificates ever issued
    MaxKey,      \* bound: keys ever generated
    MaxCertFaults    \* bound: crashes, failed reads, writes and requests

ASSUME CertAssumption == MaxSerial \in Nat \ {0} /\ MaxKey \in Nat \ {0} /\ MaxCertFaults \in Nat

Renewers == {"agent", "cli"}

VARIABLES
    creds,    \* files: cert, key (live), pcert, pkey (.prev), ncert, nkey (.new)
    certKey,  \* serial -> the key it certifies
    server,   \* control plane: its current serial, the one before, 0 when revoked
    keys,     \* keys generated so far
    step,     \* Renewers -> where each process is
    mem,      \* Renewers -> what each holds: key, cert, ctx (presented), path, then,
              \* and what the daily loop had loaded when its check began
    loaded,   \* the daily loop's LoadedTls: serial, onPrev; NotLoaded before the first
    due,      \* serials whose remaining life is inside RENEW_WINDOW
    enroll,   \* the enrolment under way: at, key, cert, force
    torn,     \* history: an enrolment took the old certificate's place and is not on disk
    raced,    \* history: a file of a renewal was replaced by another process's
    replaced, \* history: the pending key the current certificate is for was replaced
    certFaults

fileVars == <<creds, torn, raced, replaced>>
serverVars == <<certKey, server, keys>>
certVars == <<fileVars, serverVars, step, mem, loaded, due, enroll, certFaults>>

CredFiles == {"cert", "key", "pcert", "pkey", "ncert", "nkey"}
NoFiles == [f \in CredFiles |-> 0]
NotLoaded == [serial |-> 0, onPrev |-> FALSE]
NoMem == [key |-> 0, cert |-> 0, ctx |-> 0, path |-> "cert", then |-> "stop", was |-> NotLoaded]
NotEnrolling == [at |-> "off", key |-> 0, cert |-> 0, force |-> FALSE]

CertInit ==
    /\ creds = [NoFiles EXCEPT !["cert"] = 1, !["key"] = 1]
    /\ certKey = <<1>> /\ server = [current |-> 1, before |-> 0] /\ keys = 1
    /\ step = [p \in Renewers |-> "off"] /\ mem = [p \in Renewers |-> NoMem]
    /\ loaded = NotLoaded /\ due = {}
    /\ enroll = NotEnrolling
    /\ torn = FALSE /\ raced = FALSE /\ replaced = FALSE /\ certFaults = 0

\* _is_whole_pair(): both files read, and the certificate certifies the key.
IsWholePair(cert, key) == cert # 0 /\ key # 0 /\ certKey[cert] = key

Goes(p, s) == step' = [step EXCEPT ![p] = s]

\* A process that ended holds nothing; an agent between two checks only its context.
Holding(m, s) == IF s = "off" THEN NoMem
                 ELSE IF s = "idle" THEN [NoMem EXCEPT !.ctx = m.ctx] ELSE m
GoesWith(p, s, m) == Goes(p, s) /\ mem' = [mem EXCEPT ![p] = Holding(m, s)]
Keeping == UNCHANGED <<loaded, due, enroll, certFaults>>

\* Whether a credential file cannot be read, or read as PEM, this time: no permission
\* after a renewal as root, a device error, a file that a power loss left empty.
Misread(bad) ==
    /\ bad => certFaults < MaxCertFaults
    /\ certFaults' = IF bad THEN certFaults + 1 ELSE certFaults

(***************************************************************************)
(* load_tls_context(): finish a cut swap, load live or else .prev, and     *)
(* read the serial from the file it loaded.                                *)
(***************************************************************************)

\* A pair that will not load ends a command and a start; _reload() keeps what the agent
\* had, and after a renewal the exception ends the check.
LoadFails(p) == CASE mem[p].then = "decide" -> "decide"
                  [] mem[p].then = "renewed" -> "idle"
                  [] OTHER -> "off"

\* complete_pending_swap(): the live certificate certifies the pending key, as far as
\* both can be read.
SwapCheck(p) ==
    \E bad \in BOOLEAN :
        /\ step[p] = "swap" /\ Misread(bad)
        /\ Goes(p, IF ~bad /\ IsWholePair(creds["cert"], creds["nkey"]) THEN "swapmove" ELSE "load")
        /\ UNCHANGED <<fileVars, serverVars, mem, loaded, due, enroll>>

\* The rename of the pending key; a rename that fails is logged and passed over.
SwapMove(p) ==
    /\ step[p] = "swapmove"
    /\ Goes(p, "load")
    /\ creds' = IF creds["nkey"] = 0 THEN creds
                ELSE [creds EXCEPT !["key"] = creds["nkey"], !["nkey"] = 0]
    /\ raced' = (raced \/ enroll.at # "off" \/ ~IsWholePair(creds["cert"], creds["nkey"]))
    /\ UNCHANGED <<torn, replaced, serverVars, mem>> /\ Keeping

\* load_cert_chain() on the live pair, else on .prev.  A check that the exception ends
\* leaves the loop with what it had loaded before.
LoadPair(p) ==
    /\ step[p] = "load"
    /\ \E bad \in BOOLEAN :
         LET path == IF ~bad /\ IsWholePair(creds["cert"], creds["key"]) THEN "cert" ELSE "pcert"
         IN  /\ Misread(bad)
             /\ IF path = "pcert" /\ ~IsWholePair(creds["pcert"], creds["pkey"])
                THEN /\ GoesWith(p, LoadFails(p), mem[p])
                     /\ loaded' = IF mem[p].then = "renewed" THEN mem[p].was ELSE loaded
                ELSE /\ GoesWith(p, "serial", [mem[p] EXCEPT !.ctx = creds[path], !.path = path])
                     /\ UNCHANGED loaded
    /\ UNCHANGED <<fileVars, serverVars, due, enroll>>

\* read_cert_serial() and read_cert_not_after() of the path that was loaded; cmd_run()
\* and cmd_renew() drop what they say, the daily loop keeps it.
ReadSerial(p) ==
    /\ step[p] = "serial"
    /\ loaded' = IF mem[p].then \in {"decide", "renewed"}
                 THEN [serial |-> creds[mem[p].path], onPrev |-> mem[p].path = "pcert"]
                 ELSE loaded
    /\ GoesWith(p, IF mem[p].then = "renewed" THEN "idle" ELSE mem[p].then, mem[p])
    /\ UNCHANGED <<fileVars, serverVars, due, enroll, certFaults>>

(***************************************************************************)
(* The running agent and the command line.                                 *)
(***************************************************************************)

\* cmd_run(): the context is built before the agent starts, and not kept as loaded.
BootAgent ==
    /\ step["agent"] = "off"
    /\ Goes("agent", "swap") /\ mem' = [mem EXCEPT !["agent"] = [NoMem EXCEPT !.then = "idle"]]
    /\ loaded' = NotLoaded
    /\ UNCHANGED <<fileVars, serverVars, due, enroll, certFaults>>

\* cmd_renew(): a context from disk, then one renewal, whatever the certificate's age.
CmdRenew ==
    /\ step["cli"] = "off"
    /\ Goes("cli", "swap") /\ mem' = [mem EXCEPT !["cli"] = [NoMem EXCEPT !.then = "pending"]]
    /\ UNCHANGED <<fileVars, serverVars>> /\ Keeping

\* _is_stale()
IsStale == loaded = NotLoaded \/ loaded.onPrev \/ creds["cert"] # loaded.serial

\* cert_renew_loop() wakes and check_cert() first brings the context up to date.
CheckCert ==
    /\ step["agent"] = "idle"
    /\ Goes("agent", IF IsStale THEN "swap" ELSE "decide")
    /\ mem' = [mem EXCEPT !["agent"].then = "decide", !["agent"].was = loaded]
    /\ UNCHANGED <<fileVars, serverVars>> /\ Keeping

\* The rest of check_cert(): renew off .prev or inside the window.
Decide ==
    /\ step["agent"] = "decide"
    /\ GoesWith("agent", IF loaded.serial # 0 /\ (loaded.onPrev \/ loaded.serial \in due)
                         THEN "pending" ELSE "idle", mem["agent"])
    /\ UNCHANGED <<fileVars, serverVars>> /\ Keeping

(***************************************************************************)
(* renew_certificate() and install_renewed_pair()                          *)
(***************************************************************************)

\* Where a renewal that raised, or that ended, leaves the process.
AfterFailure(p) == IF p = "agent" THEN "idle" ELSE "off"

\* _load_or_create_pending_key(): a stored key is used again, unless it cannot be read,
\* is no key or is no EC key.
LoadPendingKey(p) ==
    \E bad \in BOOLEAN :
        /\ step[p] = "pending" /\ Misread(bad) /\ (bad => creds["nkey"] # 0)
        /\ Goes(p, IF creds["nkey"] # 0 /\ ~bad THEN "post" ELSE "newkey")
        /\ mem' = [mem EXCEPT ![p].key = creds["nkey"]]
        /\ UNCHANGED <<fileVars, serverVars, loaded, due, enroll>>

\* ... else a fresh one is written over whatever is there: over a key that another
\* process wrote since or is asking a certificate for (raced), or over the one the
\* control plane has certified since (replaced).
CreatePendingKey(p) ==
    /\ step[p] = "newkey" /\ keys < MaxKey
    /\ keys' = keys + 1
    /\ creds' = [creds EXCEPT !["nkey"] = keys + 1]
    /\ raced' = (raced \/ creds["nkey"] # mem[p].key
                 \/ \E q \in Renewers : step[q] = "post" /\ mem[q].key = creds["nkey"])
    /\ replaced' = (replaced \/ creds["nkey"] = certKey[server.current])
    /\ mem' = [mem EXCEPT ![p].key = keys + 1]
    /\ Goes(p, "post")
    /\ UNCHANGED <<torn, certKey, server>> /\ Keeping

\* The renewal endpoint: the serial it signs for this request, 0 for a refusal.
Signs(presented, key) ==
    IF presented = server.current /\ Len(certKey) < MaxSerial THEN Len(certKey) + 1
    ELSE IF server.current # 0 /\ presented = server.before /\ certKey[server.current] = key
         THEN server.current ELSE 0

\* _post_csr() and _issued_cert(): the answer comes back, or is lost on the way and
\* counts as a failure; a refusal and an answer for another key are failures too.
PostCsr(p) ==
    /\ step[p] = "post"
    /\ LET s == Signs(mem[p].ctx, mem[p].key)
       IN  /\ IF s = Len(certKey) + 1
              THEN /\ certKey' = Append(certKey, mem[p].key)
                   /\ server' = [current |-> s, before |-> server.current]
              ELSE UNCHANGED <<certKey, server>>
           /\ \E lost \in BOOLEAN :
                 /\ lost => certFaults < MaxCertFaults
                 /\ certFaults' = IF lost THEN certFaults + 1 ELSE certFaults
                 /\ GoesWith(p, IF lost \/ s = 0 THEN AfterFailure(p) ELSE "write",
                             [mem[p] EXCEPT !.cert = s])
    /\ UNCHANGED <<fileVars, keys, loaded, due, enroll>>

\* The issued certificate is written beside the live one.
WriteNewCert(p) ==
    /\ step[p] = "write"
    /\ creds' = [creds EXCEPT !["ncert"] = mem[p].cert]
    /\ Goes(p, "snapshot")
    /\ UNCHANGED <<torn, raced, replaced, serverVars, mem>> /\ Keeping

\* Only a live pair that reads and matches is kept as .prev.
SnapshotCheck(p) ==
    \E bad \in BOOLEAN :
        /\ step[p] = "snapshot" /\ Misread(bad)
        /\ Goes(p, IF ~bad /\ IsWholePair(creds["cert"], creds["key"]) THEN "linkcert" ELSE "movecert")
        /\ UNCHANGED <<fileVars, serverVars, mem, loaded, due, enroll>>

\* A hard link of a live file, renamed to its .prev.
LinkPrev(p) ==
    \E f \in {[at |-> "linkcert", live |-> "cert", prev |-> "pcert", to |-> "linkkey"],
              [at |-> "linkkey", live |-> "key", prev |-> "pkey", to |-> "movecert"]} :
        /\ step[p] = f.at
        /\ creds' = [creds EXCEPT ![f.prev] = creds[f.live]]
        /\ Goes(p, f.to)
        /\ UNCHANGED <<torn, raced, replaced, serverVars, mem>> /\ Keeping

\* Mutant: the key goes live before the certificate.
KeyFirst == <<[at |-> "movecert", new |-> "nkey", live |-> "key", to |-> "movekey"],
              [at |-> "movekey", new |-> "ncert", live |-> "cert", to |-> "done"]>>

\* The two renames of a swap, in order.
SwapOrder == <<[at |-> "movecert", new |-> "ncert", live |-> "cert", to |-> "movekey"],
               [at |-> "movekey", new |-> "nkey", live |-> "key", to |-> "done"]>>

\* One rename of install_renewed_pair(); a file that is gone fails the attempt.
MoveLive(p) ==
    \E i \in 1 .. 2 : LET f == SwapOrder[i] IN
        /\ step[p] = f.at
        /\ IF creds[f.new] = 0
           THEN GoesWith(p, AfterFailure(p), mem[p]) /\ UNCHANGED creds
           ELSE GoesWith(p, f.to, mem[p]) /\ creds' = [creds EXCEPT ![f.live] = creds[f.new], ![f.new] = 0]
        /\ raced' = (raced \/ creds[f.new] \notin {0, mem[p][f.live]} \/ mem[p].cert # server.current)
        /\ UNCHANGED <<torn, replaced, serverVars>> /\ Keeping

\* renew_and_reload() builds the context again; cmd_renew() writes files only.
Installed(p) ==
    /\ step[p] = "done"
    /\ GoesWith(p, IF p = "agent" THEN "swap" ELSE "off",
                [NoMem EXCEPT !.ctx = mem[p].ctx, !.then = "renewed", !.was = mem[p].was])
    /\ UNCHANGED <<fileVars, serverVars>> /\ Keeping

(***************************************************************************)
(* Enrolment: a token is used up by the answer, the files are written      *)
(* afterwards, key, hmac, certificate and CA.                              *)
(***************************************************************************)

Renewing == \E p \in Renewers : step[p] \notin {"off", "idle"}

CmdEnroll(force) ==
    /\ enroll.at = "off"
    /\ enroll' = [NotEnrolling EXCEPT !.at = "preflight", !.force = force]
    /\ UNCHANGED <<fileVars, certKey, server, keys, step, mem, loaded, due, certFaults>>

\* The directory takes a marker file or the command ends, its token unused; what is in
\* the directory is not looked at yet.  The key is made in memory.
PreflightCredsDir ==
    /\ enroll.at = "preflight"
    /\ \/ enroll' = NotEnrolling /\ UNCHANGED keys
       \/ /\ keys < MaxKey /\ keys' = keys + 1
          /\ enroll' = [enroll EXCEPT !.at = "request", !.key = keys + 1]
    /\ UNCHANGED <<fileVars, certKey, server, step, mem, loaded, due, certFaults>>

\* request_certificate(): the operator has revoked the old enrolment, and the endpoint
\* uses up the token as it signs; a request that fails ends the command.
RequestCertificate ==
    /\ enroll.at = "request"
    /\ \/ /\ Len(certKey) < MaxSerial
          /\ certKey' = Append(certKey, enroll.key)
          /\ server' = [current |-> Len(certKey) + 1, before |-> 0]
          /\ enroll' = [enroll EXCEPT !.at = "key", !.cert = Len(certKey) + 1]
          /\ torn' = TRUE /\ raced' = (raced \/ Renewing)
       \/ enroll' = NotEnrolling /\ UNCHANGED <<certKey, server, torn, raced>>
    /\ UNCHANGED <<creds, replaced, keys, step, mem, loaded, due, certFaults>>

\* write_credentials(): refused over existing files unless forced, else key then
\* certificate (the HMAC secret and the CA lie between and after, and are not read here).
WriteCredentials ==
    /\ \/ /\ enroll.at = "key" /\ ~enroll.force /\ (creds["cert"] # 0 \/ creds["key"] # 0)
          /\ enroll' = NotEnrolling /\ UNCHANGED <<creds, torn>>
       \/ /\ enroll.at = "key" /\ (enroll.force \/ (creds["cert"] = 0 /\ creds["key"] = 0))
          /\ creds' = [creds EXCEPT !["key"] = enroll.key]
          /\ enroll' = [enroll EXCEPT !.at = "cert"] /\ UNCHANGED torn
       \/ /\ enroll.at = "cert"
          /\ creds' = [creds EXCEPT !["cert"] = enroll.cert]
          /\ enroll' = NotEnrolling /\ torn' = FALSE
    /\ raced' = (raced \/ Renewing)
    /\ UNCHANGED <<replaced, serverVars, step, mem, loaded, due, certFaults>>

(***************************************************************************)
(* Time and faults                                                         *)
(***************************************************************************)

\* A certificate comes within RENEW_WINDOW of its end, days after any attempt at work.
Age(s) ==
    /\ ~Renewing /\ s = loaded.serial /\ s \notin due \cup {0}
    /\ due' = due \cup {s}
    /\ UNCHANGED <<fileVars, serverVars, step, mem, loaded, enroll, certFaults>>

\* The process dies where it is.
Die(p) ==
    /\ step[p] # "off" /\ certFaults < MaxCertFaults
    /\ certFaults' = certFaults + 1
    /\ GoesWith(p, "off", NoMem)
    /\ loaded' = IF p = "agent" THEN NotLoaded ELSE loaded
    /\ UNCHANGED <<fileVars, serverVars, due, enroll>>

\* The enrolment dies, or one of its writes fails.
EnrollDies ==
    /\ enroll.at # "off" /\ certFaults < MaxCertFaults
    /\ certFaults' = certFaults + 1 /\ enroll' = NotEnrolling
    /\ UNCHANGED <<fileVars, serverVars, step, mem, loaded, due>>

\* A file operation of a renewal raises OSError: creds_not_writable, attempt over.
WriteFails(p) ==
    /\ step[p] \in {"pending", "newkey", "write", "linkcert", "linkkey", "movecert", "movekey"}
    /\ certFaults < MaxCertFaults
    /\ certFaults' = certFaults + 1
    /\ GoesWith(p, AfterFailure(p), mem[p])
    /\ UNCHANGED <<fileVars, serverVars, loaded, due, enroll>>

ProcessStep(p) ==
    \/ SwapCheck(p) \/ SwapMove(p) \/ LoadPair(p) \/ ReadSerial(p)
    \/ LoadPendingKey(p) \/ CreatePendingKey(p) \/ PostCsr(p)
    \/ WriteNewCert(p) \/ SnapshotCheck(p) \/ LinkPrev(p) \/ MoveLive(p) \/ Installed(p)

CertNext ==
    \/ \E p \in Renewers : ProcessStep(p) \/ Die(p) \/ WriteFails(p)
    \/ BootAgent \/ CheckCert \/ Decide \/ CmdRenew
    \/ \E force \in BOOLEAN : CmdEnroll(force)
    \/ PreflightCredsDir \/ RequestCertificate \/ WriteCredentials \/ EnrollDies
    \/ \E s \in 1 .. MaxSerial : Age(s)

CertSpec == CertInit /\ [][CertNext]_certVars

\* The pair a start would load: live, live once the swap is finished, or .prev.
BootCert ==
    IF IsWholePair(creds["cert"], creds["key"]) \/ IsWholePair(creds["cert"], creds["nkey"])
    THEN creds["cert"]
    ELSE IF IsWholePair(creds["pcert"], creds["pkey"]) THEN creds["pcert"] ELSE 0

\* Whatever step of a renewal a process died or failed at, with the agent and `stormpulse
\* renew` at work together, and whichever reads of the credentials failed, the next start
\* loads a pair that the control plane still renews: its current certificate, or the one
\* before with the key it certified last.  The exceptions are an enrolment cut off
\* (torn), two processes that replace each other's files (raced), and what the code does
\* to a stored pending key it cannot read although the control plane has certified it:
\* it replaces it, and with it the only key the control plane would answer for (replaced;
\* README, Known divergences).  An unreadable pending key that was never certified is
\* replaced without harm.
NeverStranded ==
    torn \/ raced \/ replaced
    \/ /\ BootCert # 0
       /\ \/ BootCert = server.current
          \/ BootCert = server.before /\ creds["nkey"] = certKey[server.current]
=============================================================================
