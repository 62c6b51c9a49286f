---------------------------- MODULE SpoolFeeder ----------------------------
(***************************************************************************)
(* An integration's spool of event segments (agent/event_spool.py): the    *)
(* emitter, another process, renames segments in under names it may reuse; *)
(* the feeder reads a segment into the events buffer while there is room   *)
(* and deletes it once none of its events is buffered or in flight.        *)
(* Every system call of the feeder is a step, so the emitter may replace   *)
(* or delete the file a name holds between any two of them, and the agent  *)
(* may crash there.  A file's identity, (inode, mtime_ns), is its number.  *)
(*                                                                         *)
(* A tick runs in a worker thread (asyncio.to_thread) that goes on when    *)
(* the session that awaits it is cancelled: Ticks has one element for the  *)
(* ordinary case, two when the next session's tick overlaps the last.      *)
(***************************************************************************)
EXTENDS Naturals, FiniteSets, FiniteSetsExt

CONSTANTS
    Names,       \* segment names, numbers: they are read in sorted order
    Kinds,       \* what the emitter may rename in: a subset of AllKinds
    Ticks,       \* worker threads that may be running tick()
    Room,        \* segments the events buffer has room for
    MaxFiles,    \* bound: files the emitter ever writes
    MaxReads,    \* bound: segments ever buffered
    MaxFaults,   \* bound: links, renames and unlinks that fail with an OSError
    MaxRestarts  \* bound: crashes of the agent

\* "events": admitted events; "refused": opened and refused whole; "symlink": never
\* opened; "dir": a directory under a segment's name.
AllKinds == {"events", "refused", "symlink", "dir"}

ASSUME SpoolAssumption ==
    /\ Names \subseteq Nat \ {0} /\ IsFiniteSet(Names)
    /\ Kinds \subseteq AllKinds
    /\ IsFiniteSet(Ticks)
    /\ {Room, MaxFiles, MaxReads, MaxFaults, MaxRestarts} \subseteq Nat

Files == 1 .. MaxFiles
NoFile == 0

VARIABLES
    slot,      \* name -> the file it holds, or NoFile
    aside,     \* name -> the file under its ".settling." name, or NoFile
    made,      \* files written so far
    kindOf,    \* file -> its kind
    nameOf,    \* file -> the name it was written under
    pending,   \* _pending: name -> [file, read], NoRead when absent
    stuck,     \* _stuck: name -> the file parked, or NoFile
    held,      \* reads with an event buffered or in flight
    reads,     \* segments buffered by this process so far
    tick,      \* per thread: where tick() is, with its locals
    faults, restarts,
    readOf,    \* history: read -> the file it came from
    gone,      \* history: files the emitter deleted or renamed over
    settled    \* history: files refused whole, or whose events were all released

NoRead == [file |-> NoFile, read |-> 0]

\* The locals of a thread.  pc: where it stands; loop: which loop it is in; todo: the
\* names that loop has left; name and file: the segment at hand and the identity read;
\* seen: the _pending items the settle loop copied; then: where _put_back returns to.
Idle == [pc |-> "idle", loop |-> "none", todo |-> {}, name |-> 0, file |-> NoFile,
         seen |-> [n \in Names |-> NoRead], then |-> "none"]

diskVars == <<slot, aside>>
emitterVars == <<made, kindOf, nameOf, gone>>
feederVars == <<pending, stuck>>
heldVars == <<held, reads, readOf, settled>>
spoolVars == <<diskVars, emitterVars, feederVars, heldVars, tick, faults, restarts>>

SpoolInit ==
    /\ slot = [n \in Names |-> NoFile] /\ aside = [n \in Names |-> NoFile]
    /\ made = 0 /\ kindOf = [f \in {} |-> "events"] /\ nameOf = [f \in {} |-> 0]
    /\ gone = {} /\ settled = {}
    /\ pending = [n \in Names |-> NoRead] /\ stuck = [n \in Names |-> NoFile]
    /\ held = {} /\ reads = 0 /\ readOf = [r \in {} |-> NoFile]
    /\ tick = [t \in Ticks |-> Idle]
    /\ faults = 0 /\ restarts = 0

Directories == {f \in 1 .. made : kindOf[f] = "dir"}

----------------------------------------------------------------------------
(* The emitter.                                                            *)

\* It renames a new file in, over what the name held.  A rename never replaces a
\* file by a directory or a directory by a file.
Write(n, k) ==
    LET f == made + 1
    IN  /\ made < MaxFiles
        /\ slot[n] # NoFile => k # "dir" /\ slot[n] \notin Directories
        /\ made' = f /\ slot' = [slot EXCEPT ![n] = f]
        /\ kindOf' = [g \in 1 .. f |-> IF g = f THEN k ELSE kindOf[g]]
        /\ nameOf' = [g \in 1 .. f |-> IF g = f THEN n ELSE nameOf[g]]
        /\ gone' = gone \cup ({slot[n]} \ {NoFile})
        /\ UNCHANGED <<aside, feederVars, heldVars, tick, faults, restarts>>

\* It deletes a segment past its own bound.
Delete(n) ==
    /\ slot[n] # NoFile
    /\ slot' = [slot EXCEPT ![n] = NoFile]
    /\ gone' = gone \cup {slot[n]}
    /\ UNCHANGED <<aside, made, kindOf, nameOf, feederVars, heldVars, tick, faults, restarts>>

----------------------------------------------------------------------------
(* The events buffer, as the feeder uses it.                               *)

ReadsOf(f) == {r \in 1 .. reads : readOf[r] = f}

\* The last event of a read is acked, nacked or dropped.
Release(r) ==
    /\ r \in held
    /\ held' = held \ {r}
    /\ settled' = IF ReadsOf(readOf[r]) \cap held = {r} THEN settled \cup {readOf[r]} ELSE settled
    /\ UNCHANGED <<diskVars, emitterVars, feederVars, reads, readOf, tick, faults, restarts>>

----------------------------------------------------------------------------
(* The feeder.                                                             *)

At(t, pc) == tick[t].pc = pc
Goto(t, pc) == tick' = [tick EXCEPT ![t].pc = pc]

\* tick(): list(self._pending.items()).
Start(t) ==
    /\ At(t, "idle")
    /\ \A u \in Ticks : tick[u].loop # "recover"
    /\ tick' = [tick EXCEPT ![t] =
          [Idle EXCEPT !.pc = "settling", !.loop = "settling", !.seen = pending,
                       !.todo = {n \in Names : pending[n] # NoRead}]]
    /\ UNCHANGED <<diskVars, emitterVars, feederVars, heldVars, faults, restarts>>

\* holds_any() of the read's events.
StillHeld(r) == r \in held

\* One item of the copied list: skipped while the buffer holds any of its events;
\* else taken out of _pending (a KeyError that ends the tick, if another thread
\* took it out) and settled.
SettlePending(t, n) ==
    LET item == tick[t].seen[n]
        left == [tick[t] EXCEPT !.todo = @ \ {n}]
        mine == pending[n] # NoRead
        settle == [left EXCEPT !.name = n, !.file = item.file, !.pc = "link", !.then = "stat"]
    IN  /\ At(t, "settling") /\ n \in tick[t].todo
        /\ IF StillHeld(item.read)
           THEN tick' = [tick EXCEPT ![t] = left] /\ UNCHANGED pending
           ELSE /\ tick' = [tick EXCEPT ![t] = IF mine THEN settle ELSE Idle]
                /\ pending' = [pending EXCEPT ![n] = NoRead]
        /\ UNCHANGED <<diskVars, emitterVars, stuck, heldVars, faults, restarts>>

\* A parked name that holds another file, or none, is read afresh.
Unstuck == [n \in Names |-> IF slot[n] = stuck[n] THEN stuck[n] ELSE NoFile]

\* Mutant: a segment whose events are buffered is listed again.
FreshAny(n) == slot[n] # NoFile /\ Unstuck[n] = NoFile

\* A name on disk that is neither pending nor stuck.
Fresh(n) == slot[n] # NoFile /\ pending[n] = NoRead /\ Unstuck[n] = NoFile

\* _segments().
List(t) ==
    /\ At(t, "settling") /\ tick[t].todo = {}
    /\ stuck' = Unstuck
    /\ tick' = [tick EXCEPT ![t].pc = "reading", ![t].loop = "reading",
                            ![t].todo = {n \in Names : Fresh(n)}]
    /\ UNCHANGED <<diskVars, emitterVars, pending, heldVars, faults, restarts>>

\* The read loop is through with the listing.
Finish(t) ==
    /\ At(t, "reading") /\ tick[t].todo = {}
    /\ tick' = [tick EXCEPT ![t] = Idle]
    /\ UNCHANGED <<diskVars, emitterVars, feederVars, heldVars, faults, restarts>>

\* room() is short before a segment: other producers share the buffer, so that may
\* happen whatever the spool's own segments take of it.
OutOfRoom(t) ==
    /\ At(t, "reading") /\ tick[t].todo # {}
    /\ tick' = [tick EXCEPT ![t] = Idle]
    /\ UNCHANGED <<diskVars, emitterVars, feederVars, heldVars, faults, restarts>>

\* The next name, in sorted order, with room for a whole segment; _read() takes
\* the identity the name has before it opens the file.
Lstat(t) ==
    /\ At(t, "reading") /\ tick[t].todo # {} /\ Cardinality(held) < Room
    /\ LET n == Min(tick[t].todo)
       IN  tick' = [tick EXCEPT ![t].todo = @ \ {n}, ![t].name = n, ![t].file = slot[n],
                                ![t].pc = "open"]
    /\ UNCHANGED <<diskVars, emitterVars, feederVars, heldVars, faults, restarts>>

\* The identity read: the opened file's fstat, or the earlier lstat for a symlink.
ReadId(f, before) == IF kindOf[f] = "symlink" THEN before ELSE f

\* read_bounded() and _parse(): None leaves a name that holds nothing now; a refused
\* segment counts one refusal and is settled at once, which cannot wait for events.
Read(t) ==
    LET f == slot[tick[t].name]
        id == ReadId(f, tick[t].file)
    IN  /\ At(t, "open")
        /\ \/ /\ f = NoFile
              /\ Goto(t, "reading") /\ UNCHANGED settled
           \/ /\ f # NoFile /\ kindOf[f] = "events"
              /\ tick' = [tick EXCEPT ![t].file = id, ![t].pc = "extend"]
              /\ UNCHANGED settled
           \/ /\ f # NoFile /\ kindOf[f] # "events"
              /\ settled' = settled \cup {f}
              /\ tick' = [tick EXCEPT ![t].file = id, ![t].pc = "link", ![t].then = "stat"]
        /\ UNCHANGED <<diskVars, emitterVars, feederVars, held, reads, readOf, faults, restarts>>

\* buf.extend(): the events are buffered under new sequence numbers.
ExtendBuffer(t) ==
    /\ At(t, "extend") /\ reads < MaxReads
    /\ reads' = reads + 1 /\ held' = held \cup {reads + 1}
    /\ readOf' = [r \in 1 .. reads + 1 |-> IF r = reads + 1 THEN tick[t].file ELSE readOf[r]]
    /\ settled' = settled \ {tick[t].file}
    /\ tick' = [tick EXCEPT ![t].pc = "note", ![t].seen =
          [@ EXCEPT ![tick[t].name] = [file |-> tick[t].file, read |-> reads + 1]]]
    /\ UNCHANGED <<diskVars, emitterVars, feederVars, faults, restarts>>

\* self._pending[name] = (read_id, seqs).
Note(t) ==
    /\ At(t, "note")
    /\ pending' = [pending EXCEPT ![tick[t].name] = tick[t].seen[tick[t].name]]
    /\ Goto(t, "reading")
    /\ UNCHANGED <<diskVars, emitterVars, stuck, heldVars, faults, restarts>>

\* A system call does what it is asked, or fails: for what it finds, or for a fault.
Works == UNCHANGED faults
Fails(found) ==
    IF found THEN UNCHANGED faults ELSE faults < MaxFaults /\ faults' = faults + 1

\* _put_back() and _settle() end: back to the loop they were called from.
Resume(t) == Goto(t, tick[t].loop)

\* _park(): only a segment whose identity was read.
Park(t) ==
    stuck' = IF tick[t].file # NoFile THEN [stuck EXCEPT ![tick[t].name] = tick[t].file] ELSE stuck

\* _put_back() gives up with something left aside: settling parks the segment when
\* it has not renamed yet.
PutBackFails(t) ==
    /\ IF tick[t].then = "stat" THEN Park(t) ELSE UNCHANGED stuck
    /\ Resume(t)

\* _put_back() found or left nothing aside.
PutBackDone(t) == Goto(t, IF tick[t].then = "stat" THEN "stat" ELSE tick[t].loop)

\* _put_back(): os.link(aside, path), which a directory refuses; nothing aside is
\* done, and a file that took the name since stays.
Link(t) ==
    LET n == tick[t].name
    IN  /\ At(t, "link")
        /\ \/ aside[n] = NoFile /\ Works /\ PutBackDone(t) /\ UNCHANGED <<slot, stuck>>
           \/ /\ aside[n] # NoFile /\ aside[n] \notin Directories /\ Works
              /\ slot' = IF slot[n] = NoFile THEN [slot EXCEPT ![n] = aside[n]] ELSE slot
              /\ Goto(t, "unlink") /\ UNCHANGED stuck
           \/ /\ aside[n] # NoFile /\ Fails(aside[n] \in Directories)
              /\ PutBackFails(t) /\ UNCHANGED slot
        /\ UNCHANGED <<aside, emitterVars, pending, heldVars, restarts>>

\* _put_back(): aside.unlink().  Another thread may have unlinked it.
Unlink(t) ==
    LET n == tick[t].name
    IN  /\ At(t, "unlink")
        /\ \/ /\ aside[n] # NoFile /\ Works
              /\ aside' = [aside EXCEPT ![n] = NoFile]
              /\ PutBackDone(t) /\ UNCHANGED stuck
           \/ /\ Fails(aside[n] = NoFile)
              /\ PutBackFails(t) /\ UNCHANGED aside
        /\ UNCHANGED <<slot, emitterVars, pending, heldVars, restarts>>

\* _settle(): a directory is parked where it is; a name that holds nothing goes on
\* to the rename, which finds it so.
Stat(t) ==
    LET f == slot[tick[t].name]
    IN  /\ At(t, "stat")
        /\ \/ f # NoFile /\ kindOf[f] = "dir" /\ Park(t) /\ Resume(t)
           \/ f \notin Directories /\ Goto(t, "rename") /\ UNCHANGED stuck
        /\ UNCHANGED <<diskVars, emitterVars, pending, heldVars, faults, restarts>>

\* _settle(): os.rename(path, aside), which leaves two names of one file as they are.
Rename(t) ==
    LET n == tick[t].name
    IN  /\ At(t, "rename")
        /\ \/ slot[n] = NoFile /\ Works /\ Resume(t) /\ UNCHANGED <<diskVars, stuck>>
           \/ /\ slot[n] # NoFile /\ Works
              /\ aside' = [aside EXCEPT ![n] = slot[n]]
              /\ slot' = IF aside[n] = slot[n] THEN slot ELSE [slot EXCEPT ![n] = NoFile]
              /\ Goto(t, "check") /\ UNCHANGED stuck
           \/ slot[n] # NoFile /\ Fails(FALSE) /\ Park(t) /\ Resume(t) /\ UNCHANGED diskVars
        /\ UNCHANGED <<emitterVars, pending, heldVars, restarts>>

\* Mutant: what was renamed aside is taken to be the file read.
IsAnyFile(t) == TRUE

\* _identity(aside) == read_id, for a file that was read.
IsFileRead(t) == tick[t].file # NoFile /\ aside[tick[t].name] = tick[t].file

\* _settle(): the file read goes; another is put back.
Check(t) ==
    /\ At(t, "check")
    /\ tick' = [tick EXCEPT ![t].pc = IF IsFileRead(t) THEN "remove" ELSE "link", ![t].then = "loop"]
    /\ UNCHANGED <<diskVars, emitterVars, feederVars, heldVars, faults, restarts>>

\* _settle(): aside.unlink(); a segment that cannot go is parked and put back.
Remove(t) ==
    LET n == tick[t].name
    IN  /\ At(t, "remove")
        /\ \/ /\ aside[n] # NoFile /\ Works
              /\ aside' = [aside EXCEPT ![n] = NoFile] /\ Resume(t) /\ UNCHANGED stuck
           \/ Fails(aside[n] = NoFile) /\ Park(t) /\ Goto(t, "link") /\ UNCHANGED aside
        /\ UNCHANGED <<slot, emitterVars, pending, heldVars, restarts>>

----------------------------------------------------------------------------
(* Restart.                                                                *)

\* The threads when the new process builds its feeder, in one of them.
Restarted(t) ==
    [u \in Ticks |-> IF u # t THEN Idle ELSE
        [Idle EXCEPT !.pc = "recover", !.loop = "recover",
                     !.todo = {n \in Names : aside[n] # NoFile}]]

\* The agent dies between any two system calls and starts again: the buffer and the
\* feeder's memory are lost, and the new feeder lists the asides to put back.
Crash ==
    /\ restarts < MaxRestarts /\ restarts' = restarts + 1
    /\ held' = {} /\ reads' = 0 /\ readOf' = [r \in {} |-> NoFile]
    /\ pending' = [n \in Names |-> NoRead] /\ stuck' = [n \in Names |-> NoFile]
    /\ \E t \in Ticks : tick' = Restarted(t)
    /\ UNCHANGED <<diskVars, emitterVars, settled, faults>>

\* Mutant: the asides a crash left are not put back.
RecoverNothing(t) ==
    /\ At(t, "recover")
    /\ tick' = [tick EXCEPT ![t] = Idle]
    /\ UNCHANGED <<diskVars, emitterVars, feederVars, heldVars, faults, restarts>>

\* _recover_asides(): one aside is put back, or all are.
Recover(t) ==
    /\ At(t, "recover")
    /\ \/ tick[t].todo = {} /\ tick' = [tick EXCEPT ![t] = Idle]
       \/ \E n \in tick[t].todo :
             tick' = [tick EXCEPT ![t].todo = @ \ {n}, ![t].name = n, ![t].file = NoFile,
                                  ![t].pc = "link", ![t].then = "loop"]
    /\ UNCHANGED <<diskVars, emitterVars, feederVars, heldVars, faults, restarts>>

Step(t) ==
    \/ Start(t)
    \/ \E n \in tick[t].todo : SettlePending(t, n)
    \/ List(t) \/ Finish(t)
    \/ Lstat(t) \/ Read(t) \/ ExtendBuffer(t) \/ Note(t)
    \/ Link(t) \/ Unlink(t) \/ Stat(t) \/ Rename(t) \/ Check(t) \/ Remove(t)
    \/ Recover(t)

SpoolNext ==
    \/ \E n \in Names : (\E k \in Kinds : Write(n, k)) \/ Delete(n)
    \/ \E r \in held : Release(r)
    \/ \E t \in Ticks : Step(t) \/ OutOfRoom(t)
    \/ Crash

SpoolSpec == SpoolInit /\ [][SpoolNext]_spoolVars

\* The tick recurs and its thread goes on; acks keep coming; the buffer is not short
\* of room for ever.
SpoolFairSpec ==
    /\ SpoolSpec
    /\ \A t \in Ticks : WF_spoolVars(Step(t)) /\ SF_spoolVars(Lstat(t))
    /\ \A r \in 1 .. MaxReads : WF_spoolVars(Release(r))

----------------------------------------------------------------------------
SpoolTypeOK ==
    /\ made \in 0 .. MaxFiles /\ faults \in 0 .. MaxFaults /\ restarts \in 0 .. MaxRestarts
    /\ slot \in [Names -> 0 .. made] /\ aside \in [Names -> 0 .. made]
    /\ kindOf \in [1 .. made -> Kinds] /\ nameOf \in [1 .. made -> Names]
    /\ gone \subseteq 1 .. made /\ settled \subseteq 1 .. made
    /\ reads \in 0 .. MaxReads /\ held \subseteq 1 .. reads /\ readOf \in [1 .. reads -> 1 .. made]
    /\ pending \in [Names -> [file : 0 .. made, read : 0 .. reads]]
    /\ stuck \in [Names -> 0 .. made]
    /\ tick \in [Ticks -> [
          pc : {"idle", "settling", "reading", "recover", "open", "extend", "note",
                "link", "unlink", "stat", "rename", "check", "remove"},
          loop : {"none", "settling", "reading", "recover"},
          todo : SUBSET Names, name : Names \cup {0}, file : 0 .. made,
          seen : [Names -> [file : 0 .. made, read : 0 .. reads]],
          then : {"none", "stat", "loop"}]]

OnDisk(f) == \E n \in Names : f \in {slot[n], aside[n]}

\* What the emitter made of a file: deleted or renamed over, or a newer one has been
\* written under its name.
Superseded(f) == f \in gone \/ \E g \in f + 1 .. made : nameOf[g] = nameOf[f]

\* The feeder deletes a file only when it was refused whole or every event read from
\* it was acked, nacked or dropped, or the emitter has since put another under its
\* name: whatever is renamed in, between any two system calls of settling, and
\* wherever a crash falls (_settle, _put_back, _recover_asides).
NoUnsettledLoss ==
    [][\A f \in 1 .. made : OnDisk(f) /\ ~OnDisk(f)' => f \in settled \/ Superseded(f)']_spoolVars

\* While the process lives, a file is buffered once (class docstring: "a reconnect
\* never re-reads a segment it already buffered"), one that cannot be deleted included
\* (_stuck: "so a stuck segment never ships twice").  One failing system call cannot
\* undo that; two can, see the README: the deletion and the put-back that follows it.
ShippedOnce ==
    faults < 2 => \A q, r \in 1 .. reads : readOf[q] = readOf[r] => q = r

\* Every segment leaves the spool, a crash while it was aside included, as acks keep
\* coming, unless a system call fails or a directory is caught aside: those park it.
SpoolDrains ==
    \A f \in 1 .. MaxFiles : f =< made /\ kindOf[f] # "dir" ~>
        ~OnDisk(f) \/ faults > 0 \/ \E n \in Names : aside[n] \in Directories
=============================================================================
