------------------------------- MODULE EnvFile ------------------------------
(***************************************************************************)
(* One directory's `.env` file and everything that reads, rewrites, creates *)
(* or removes it: requests that resolve a directory policy or load an       *)
(* application's configuration (both migrate a plain password), that create *)
(* a share and that delete one, the administrator, and the end of the       *)
(* process.  Requests run concurrently and share no lock: one action is one *)
(* file system call of one request with the local work up to the next.      *)
(***************************************************************************)
EXTENDS EnvDoc

CONSTANT MaxEdits   \* saves and removals by the administrator (a bound)

\* Only the size of a file and the work that is left to a request need these.
ASSUME EnvFileAssumption ==
    /\ MaxEdits \in Nat
    /\ IsFiniteSet(Requests)
    /\ IsFiniteSet(Seeds)

VARIABLES
    file,       \* what the path `.env` names, and who is writing to it
    req,        \* the local state of every request
    salts,      \* salts drawn so far
    edits,      \* saves and removals by the administrator so far
    \* The rest is history: no action reads it.
    saved,      \* the number of the save the file should still hold
    gone,       \* shares removed by an answered rewrite or the administrator
    hardened,   \* the password was migrated after the last save that set it
    races       \* the ways in which two writers of the file have met

vars == <<file, req, salts, edits, saved, gone, hardened, races>>

Ops == {"read", "load", "create", "delete"}

Phases == {"policy", "safe", "load", "append", "remove"}

Steps == {"new", "stat", "read", "compare", "recheck", "rename", "verify",
          "create", "write", "sync", "unlink", "done"}

Answers == {"none", "ok", "refused", "lost"}

RaceKinds == {"overwrite", "orphan", "unlink"}

Request == [op : Ops, id : Ids \cup {None}, phase : Phases, pc : Steps,
            raw : Doc, updated : Doc, current : Doc, tries : {0, 1},
            answer : Answers]

File == [live : BOOLEAN, doc : Doc, by : Requests \cup {None}]

NoFile == [live |-> FALSE, doc |-> EmptyDoc, by |-> None]

FileOf(d) == [live |-> TRUE, doc |-> d, by |-> None]

Idle == [op |-> "read", id |-> None, phase |-> "policy", pc |-> "new",
         raw |-> EmptyDoc, updated |-> EmptyDoc, current |-> EmptyDoc,
         tries |-> 0, answer |-> "none"]

\* Files an administrator may have left before the first request.
InitialDocs ==
    {d \in [password : [secret : Secrets \cup {None}, salt : {0, 1}],
            shares : {{}, Seeds}, broken : {{}}, garbled : BOOLEAN,
            switch : {"unset", "true", "false"}, note : {0}] :
        /\ ~d.garbled
        /\ ~HasPassword(d) => d.password.salt = 0
        /\ d.shares # {} => d.switch # "unset"}

Init ==
    /\ file \in {NoFile} \cup {FileOf(d) : d \in InitialDocs}
    /\ req = [r \in Requests |-> Idle]
    /\ salts = 1
    /\ edits = 0
    /\ saved = 0
    /\ gone = {}
    /\ hardened = FALSE
    /\ races = {}

-----------------------------------------------------------------------------
(* The local state of a request.                                           *)

At(r, step) == req[r].pc = step

In(r, phases) == req[r].phase \in phases

Become(r, new) == req' = [req EXCEPT ![r] = new]

Goto(r, step) == Become(r, [req[r] EXCEPT !.pc = step])

Enter(r, phase) ==
    Become(r, [req[r] EXCEPT !.phase = phase, !.pc = "stat", !.tries = 0])

\* A request that ended keeps its operation and its answer only.
Ended(r, a) ==
    [req[r] EXCEPT !.pc = "done", !.answer = a,
        !.raw = EmptyDoc, !.updated = EmptyDoc, !.current = EmptyDoc]

Finish(r, a) == Become(r, Ended(r, a))

\* Mutant: the attempts are counted and never limited.
RetryUnlimited(r) ==
    Become(r, [req[r] EXCEPT !.tries = @ + 1, !.pc = "stat"])

\* The second attempt of the two-attempt loops; there is no third.
Retry(r) ==
    IF req[r].tries = 0
    THEN Become(r, [req[r] EXCEPT !.tries = 1, !.pc = "stat"])
    ELSE Finish(r, "refused")

\* The configuration was read and holds no plain password.
Resolved(r) ==
    \/ /\ req[r].op \in {"read", "load"}
       /\ Finish(r, "ok")
    \/ /\ req[r].op \in {"create", "delete"}    \* no session, bad request
       /\ Finish(r, "refused")
    \/ /\ req[r].op = "create"
       /\ In(r, {"policy"})                     \* a directory is shared
       /\ Enter(r, "safe")
    \/ /\ req[r].op = "create"
       /\ Enter(r, "append")
    \/ /\ req[r].op = "delete"
       /\ Enter(r, "remove")

Rewrite(r, d, new) ==
    Become(r, [req[r] EXCEPT !.pc = "compare", !.raw = d, !.updated = new])

-----------------------------------------------------------------------------
(* The steps of a request.                                                 *)

Start(r) ==
    /\ At(r, "new")
    /\ \E op \in Ops, id \in Ids \cup {None} :
        /\ (id = None) <=> (op # "delete")
        /\ Become(r, [req[r] EXCEPT !.op = op, !.id = id, !.pc = "stat",
                          !.phase = IF op = "load" THEN "load" ELSE "policy"])
    /\ UNCHANGED <<file, salts, edits, saved, gone, hardened, races>>

Stat(r) ==
    /\ At(r, "stat")
    /\ \/ file.live /\ Goto(r, "read")
       \/ ~file.live /\ In(r, {"policy", "safe", "load"}) /\ Resolved(r)
       \/ ~file.live /\ In(r, {"append"}) /\ Goto(r, "create")
       \/ ~file.live /\ In(r, {"remove"}) /\ Finish(r, "refused")
    /\ UNCHANGED <<file, salts, edits, saved, gone, hardened, races>>

\* Mutant: a share is added whatever the file's size becomes.
UnusableUnmeasured(r) ==
    \/ ~file.live
    \/ ~Parses(file.doc)
    \/ In(r, {"load"}) /\ ~HasPassword(file.doc)
    \/ In(r, {"append"}) /\ file.doc.switch = "false"
    \/ In(r, {"remove"}) /\ req[r].id \notin file.doc.shares \cup file.doc.broken

\* ReadFile fails, or parseEnv or the caller refuses what it read.
Unusable(r) ==
    \/ ~file.live
    \/ ~Parses(file.doc)
    \/ In(r, {"load"}) /\ ~HasPassword(file.doc)
    \/ /\ In(r, {"append"})
       /\ \/ file.doc.switch = "false"
          \/ Size(AddShare(file.doc, r)) > MaxSize
    \/ In(r, {"remove"}) /\ req[r].id \notin file.doc.shares \cup file.doc.broken

\* Mutant: a file that cannot be used is read again until it can.
ReadUntilUsable(r) ==
    /\ At(r, "read")
    /\ \/ Unusable(r) /\ Goto(r, "stat") /\ UNCHANGED salts
       \/ /\ ~Unusable(r)
          /\ In(r, {"policy", "safe", "load"})
          /\ \/ /\ IsPlain(file.doc)
                /\ salts' = salts + 1
                /\ Rewrite(r, file.doc, HashPassword(file.doc, salts'))
             \/ ~IsPlain(file.doc) /\ Resolved(r) /\ UNCHANGED salts
       \/ /\ ~Unusable(r)
          /\ \/ /\ In(r, {"append"})
                /\ Rewrite(r, file.doc, AddShare(file.doc, r))
             \/ /\ In(r, {"remove"})
                /\ Rewrite(r, file.doc, DropShare(file.doc, req[r].id))
          /\ UNCHANGED salts
    /\ UNCHANGED <<file, edits, saved, gone, hardened, races>>

Read(r) ==
    /\ At(r, "read")
    /\ \/ Unusable(r) /\ Finish(r, "refused") /\ UNCHANGED salts
       \/ /\ ~Unusable(r)
          /\ In(r, {"policy", "safe", "load"})
          /\ \/ /\ IsPlain(file.doc)
                /\ salts' = salts + 1
                /\ Rewrite(r, file.doc, HashPassword(file.doc, salts'))
             \/ ~IsPlain(file.doc) /\ Resolved(r) /\ UNCHANGED salts
       \/ /\ ~Unusable(r)
          /\ \/ /\ In(r, {"append"})
                /\ Rewrite(r, file.doc, AddShare(file.doc, r))
             \/ /\ In(r, {"remove"})
                /\ Rewrite(r, file.doc, DropShare(file.doc, req[r].id))
          /\ UNCHANGED salts
    /\ UNCHANGED <<file, edits, saved, gone, hardened, races>>

\* replaceFileIfUnchanged read a file that is not the one it was given; only
\* a deletion tries again, and only if there still is a file.
Unequal(r) ==
    \/ ~file.live /\ Finish(r, "refused")
    \/ /\ file.live
       /\ IF In(r, {"remove"}) THEN Retry(r) ELSE Finish(r, "refused")

Compare(r) ==
    /\ At(r, "compare")
    /\ IF file.live /\ file.doc = req[r].raw
       THEN Goto(r, "recheck")
       ELSE Unequal(r)
    /\ UNCHANGED <<file, salts, edits, saved, gone, hardened, races>>

\* Mutant: the file is not compared again before the rename.
RecheckNothing(r) ==
    /\ At(r, "recheck")
    /\ Become(r, [req[r] EXCEPT !.pc = "rename", !.current = file.doc])
    /\ UNCHANGED <<file, salts, edits, saved, gone, hardened, races>>

Recheck(r) ==
    /\ At(r, "recheck")
    /\ IF file.live /\ file.doc = req[r].raw
       THEN Become(r, [req[r] EXCEPT !.pc = "rename", !.current = file.doc])
       ELSE Unequal(r)
    /\ UNCHANGED <<file, salts, edits, saved, gone, hardened, races>>

Rename(r) ==
    /\ At(r, "rename")
    /\ file' = FileOf(req[r].updated)
    /\ \/ In(r, {"policy", "safe"}) /\ Goto(r, "stat")
       \/ In(r, {"load"}) /\ Goto(r, "verify")
       \/ In(r, {"append", "remove"}) /\ Finish(r, "ok")
    /\ races' = IF file.live /\ file.doc = req[r].current THEN races
                ELSE races \cup {"overwrite"}
    /\ gone' = IF In(r, {"remove"}) THEN gone \cup {req[r].id} ELSE gone
    /\ hardened' = (hardened \/ In(r, {"policy", "safe", "load"}))
    /\ UNCHANGED <<salts, edits, saved>>

\* loadAppConfig reads back the hash it wrote; readDirectoryEnv starts again.
Verify(r) ==
    /\ At(r, "verify")
    /\ Finish(r, IF /\ file.live
                    /\ Parses(file.doc)
                    /\ file.doc.password = req[r].updated.password
                 THEN "ok" ELSE "refused")
    /\ UNCHANGED <<file, salts, edits, saved, gone, hardened, races>>

\* Mutant: the file is opened without O_EXCL and truncated.
CreateTruncated(r) ==
    /\ At(r, "create")
    /\ file' = [live |-> TRUE, doc |-> EmptyDoc, by |-> r]
    /\ Goto(r, "write")
    /\ UNCHANGED <<salts, edits, saved, gone, hardened, races>>

\* A call that has not changed the file yet fails: stat, read, the temporary
\* file's creation, write and sync (after the comparison), rename or open.
Fail(r) ==
    /\ req[r].pc \in {"stat", "read", "compare", "recheck", "rename", "verify", "create"}
    /\ Finish(r, "refused")
    /\ UNCHANGED <<file, salts, edits, saved, gone, hardened, races>>

CreateFile(r) ==
    /\ At(r, "create")
    /\ \/ file.live /\ Retry(r) /\ UNCHANGED file
       \/ /\ ~file.live
          /\ file' = [live |-> TRUE, doc |-> EmptyDoc, by |-> r]
          /\ Goto(r, "write")
    /\ UNCHANGED <<salts, edits, saved, gone, hardened, races>>

\* The descriptor still writes to the file it made, whatever `.env` names now.
WriteOwn(r, d) ==
    IF file.by = r
    THEN file' = [file EXCEPT !.doc = d] /\ UNCHANGED races
    ELSE races' = races \cup {"orphan"} /\ UNCHANGED file

\* Mutant: a failed write is answered and the file stays.
WriteAbandoned(r) ==
    /\ At(r, "write")
    /\ \/ WriteOwn(r, FirstShare(r)) /\ Goto(r, "sync")
       \/ \E d \in Prefixes(r) : WriteOwn(r, d) /\ Finish(r, "refused")
    /\ UNCHANGED <<salts, edits, saved, gone, hardened>>

Write(r) ==
    /\ At(r, "write")
    /\ \/ WriteOwn(r, FirstShare(r)) /\ Goto(r, "sync")
       \/ \E d \in Prefixes(r) : WriteOwn(r, d) /\ Goto(r, "unlink")
    /\ UNCHANGED <<salts, edits, saved, gone, hardened>>

Sync(r) ==
    /\ At(r, "sync")
    /\ Finish(r, "ok") \/ Goto(r, "unlink")
    /\ UNCHANGED <<file, salts, edits, saved, gone, hardened, races>>

\* Mutant: a file that cannot be synced is not removed.
UnlinkNothing(r) ==
    /\ At(r, "unlink")
    /\ Finish(r, "refused")
    /\ UNCHANGED <<file, salts, edits, saved, gone, hardened, races>>

Unlink(r) ==
    /\ At(r, "unlink")
    /\ file' = NoFile
    /\ races' = IF file.live /\ file.by # r THEN races \cup {"unlink"} ELSE races
    /\ Finish(r, "refused")
    /\ UNCHANGED <<salts, edits, saved, gone, hardened>>

-----------------------------------------------------------------------------
(* The administrator and the process.                                      *)

AdminSave(d) ==
    /\ edits < MaxEdits
    /\ file' = FileOf([d EXCEPT !.note = edits + 1])
    /\ edits' = edits + 1
    /\ saved' = edits + 1
    /\ gone' = IF file.live THEN gone \cup (file.doc.shares \ d.shares) ELSE gone
    /\ hardened' = (hardened /\ d.password = file.doc.password)
    /\ UNCHANGED <<req, salts, races>>

\* A save replaces the file at once.  It sets a password, sets the switch, or
\* drops a share, and keeps the other lines; it mends what was cut short.
AdminDocs ==
    LET mended == [file.doc EXCEPT !.broken = {}, !.garbled = FALSE]
    IN  {[mended EXCEPT !.password = [secret |-> s, salt |-> 0]] : s \in Secrets}
        \cup {[mended EXCEPT !.switch = b] : b \in {"true", "false"}}
        \cup {DropShare(mended, i) : i \in file.doc.shares}

AdminRemove ==
    /\ edits < MaxEdits
    /\ file.live
    /\ file' = NoFile
    /\ edits' = edits + 1
    /\ saved' = 0
    /\ gone' = gone \cup file.doc.shares
    /\ hardened' = FALSE
    /\ UNCHANGED <<req, salts, races>>

Admin == AdminRemove \/ \E d \in AdminDocs : AdminSave(d)

Running(r) == req[r].pc \notin {"new", "done"}

\* The process ends between two steps; the requests in flight are never answered.
Stop ==
    /\ \E r \in Requests : Running(r)
    /\ req' = [r \in Requests |-> IF Running(r) THEN Ended(r, "lost") ELSE req[r]]
    /\ UNCHANGED <<file, salts, edits, saved, gone, hardened, races>>

Serve(r) ==
    \/ Stat(r) \/ Read(r) \/ Compare(r) \/ Recheck(r) \/ Rename(r) \/ Verify(r)
    \/ Fail(r) \/ CreateFile(r) \/ Write(r) \/ Sync(r) \/ Unlink(r)

Next == Admin \/ Stop \/ \E r \in Requests : Start(r) \/ Serve(r)

Spec == Init /\ [][Next]_vars

\* Every file system call returns, and the scheduler runs every goroutine.
FairSpec == Spec /\ \A r \in Requests : WF_vars(Serve(r))

-----------------------------------------------------------------------------
(* Properties.                                                             *)

\* Every variable has a value of its type; the history counts the saves.
TypeOK ==
    /\ file \in File
    /\ req \in [Requests -> Request]
    /\ salts \in Nat \ {0}
    /\ edits \in Nat
    /\ saved \in 0..edits
    /\ gone \subseteq Ids
    /\ hardened \in BOOLEAN
    /\ races \subseteq RaceKinds

Answered(r, op) == req[r].op = op /\ req[r].answer = "ok"

\* A share whose creation was answered 201 is in the file unless it was removed.
CreatedKept ==
    \A r \in Requests : Answered(r, "create") => r \in file.doc.shares \cup gone

\* A share whose deletion was answered 204 has not come back.
DeletedGone ==
    \A r \in Requests :
        Answered(r, "delete") => req[r].id \notin file.doc.shares \cup file.doc.broken

\* The administrator's last save is still there.
SaveKept == file.doc.note = saved

\* A migrated password has not turned into plain text again.
HardenedKept == hardened => ~IsPlain(file.doc)

\* No change of the configuration is lost (share_create.go: a concurrent
\* configuration change cannot be silently lost).  The code does not keep it.
NoUpdateLost == CreatedKept /\ DeletedGone /\ SaveKept /\ HardenedKept

\* What the code does keep: an update is lost only after one of three meetings
\* of two writers: a file changed between the second comparison and the rename
\* (config.go replaceFileIfUnchanged), a file replaced between its creation and
\* its first write, or removed by name after that write failed
\* (share_create.go appendShareDefinition).
LostOnlyByRace == races = {} => NoUpdateLost

\* A refused creation, a failed write or sync included, leaves neither the share
\* nor a part of it in the file, short of such a meeting.
RefusedLeavesNothing ==
    races = {} =>
        \A r \in Requests :
            req[r].op = "create" /\ req[r].answer = "refused"
                => r \notin file.doc.shares \cup file.doc.broken

\* A reader finds half a share only while its creator is about to remove it, or
\* when the process ended in between (share_create.go appendShareDefinition):
\* no rename publishes an incomplete document of another request.
HalfWrittenOnlyBriefly ==
    races = {} =>
        \A r \in file.doc.broken :
            r \in Requests /\ (At(r, "unlink") \/ req[r].answer = "lost")

\* The server makes a file that can be read unreadable in two ways only, however
\* old what it writes is: a migration's hash is longer than the plain text and its
\* result is not measured (policy.go readDirectoryEnv, config.go loadAppConfig),
\* and a first write may be cut short (share_create.go appendShareDefinition,
\* which measures before it adds a share).
ReadableKept ==
    [][Parses(file.doc) /\ ~Parses(file'.doc) =>
        \E r \in Requests :
            \/ /\ Rename(r)
               /\ IsPlain(req[r].raw)
               /\ file'.doc = HashPassword(req[r].raw, req[r].updated.password.salt)
            \/ Write(r) /\ file'.doc \in Prefixes(r)]_vars

\* The server has one update of the configuration per write, applied to the
\* configuration as it stands, until two writers meet.
Store == INSTANCE EnvStore WITH
            conf <- [live |-> file.live, doc |-> file.doc],
            intact <- races = {}

StoreSpec == Store!Spec

-----------------------------------------------------------------------------
(* The inductive invariant.                                                *)

\* Where request r is agrees with what it does, and what it is about to rename
\* is one update of what it read.
Consistent(r, q) ==
    /\ q.pc # "done" => q.answer = "none"
    /\ q.phase = "load" => q.op = "load"
    /\ q.phase = "append" => q.op = "create"
    /\ q.phase = "remove" => q.op = "delete"
    /\ q.op = "delete" => q.id \in Ids
    /\ q.pc \in {"create", "write", "sync", "unlink"} => q.phase = "append"
    /\ q.pc = "verify" => q.phase = "load"
    /\ q.pc = "rename" => q.current = q.raw
    /\ q.pc \in {"compare", "recheck", "rename"} =>
        \/ /\ q.phase \in {"policy", "safe", "load"}
           /\ IsPlain(q.raw)
           /\ q.updated.password.salt # 0
           /\ q.updated = HashPassword(q.raw, q.updated.password.salt)
        \/ /\ q.phase = "append"
           /\ q.raw.switch # "false"
           /\ q.updated = AddShare(q.raw, r)
        \/ /\ q.phase = "remove"
           /\ q.id \in q.raw.shares \cup q.raw.broken
           /\ q.updated = DropShare(q.raw, q.id)

LocalInv == \A r \in Requests : Consistent(r, req[r])

\* What a request is about to replace was readable, and what it adds a share to
\* has room for it.
MeasuredInv ==
    /\ edits <= MaxEdits
    /\ \A r \in Requests : req[r].pc \in {"compare", "recheck", "rename"} =>
        /\ Parses(req[r].raw)
        /\ In(r, {"append"}) => Size(req[r].updated) <= MaxSize

\* The file a request made and nobody replaced holds what that request wrote.
OwnInv ==
    /\ ~file.live => file = NoFile
    /\ \A r \in Requests : file.by = r =>
        /\ At(r, "write") => file.doc = EmptyDoc
        /\ At(r, "sync") => file.doc = FirstShare(r)
        /\ At(r, "unlink") => file.doc \in Prefixes(r) \cup {FirstShare(r)}

\* A share that is or was in the file has been written by its request, is not
\* both in the file and removed, and is not lost before it is acknowledged.
PlacedInv ==
    /\ gone \cap (file.doc.shares \cup file.doc.broken) = {}
    /\ \A r \in Requests :
        /\ r \in file.doc.shares \cup file.doc.broken \cup gone
             => req[r].op = "create" /\ req[r].pc \in {"sync", "unlink", "done"}
        /\ At(r, "sync") => r \in file.doc.shares \cup gone
        /\ Answered(r, "delete") => req[r].id \in gone

IInv ==
    /\ TypeOK
    /\ LocalInv
    /\ MeasuredInv
    /\ OwnInv
    /\ races = {} => PlacedInv
    /\ LostOnlyByRace
    /\ RefusedLeavesNothing
    /\ HalfWrittenOnlyBriefly

-----------------------------------------------------------------------------
(* Liveness.                                                               *)

\* Calls that are left until the request ends or starts to read again.
CallsLeft(q) ==
    CASE q.pc = "stat" -> 9
      [] q.pc = "read" -> 8
      [] q.pc \in {"compare", "create"} -> 7
      [] q.pc = "recheck" -> 6
      [] q.pc = "rename" -> 5
      [] q.pc \in {"verify", "write"} -> 4
      [] q.pc = "sync" -> 3
      [] q.pc = "unlink" -> 2
      [] OTHER -> 0

\* Phases and second attempts that are left, this one included.
PhasesLeft(q) ==
    CASE q.phase = "policy" -> 4
      [] q.phase = "safe" -> 3
      [] q.phase \in {"append", "remove"} /\ q.tries = 0 -> 2
      [] OTHER -> 1

Migrates(q) ==
    /\ q.phase \in {"policy", "safe", "load"}
    /\ q.pc \in {"compare", "recheck", "rename"}

\* How often the password may turn up in plain text again: by every save, and by
\* every request that is not done, which may put back what it read.
Reversions == (MaxEdits - edits) + Cardinality({q \in Requests : ~At(q, "done")})

PlainLeft(q) ==
    Reversions + (IF IsPlain(file.doc) \/ Migrates(q) THEN 1 ELSE 0)

WorkLeft(r) ==
    IF Running(r)
    THEN 10 * (PhasesLeft(req[r]) + PlainLeft(req[r])) + CallsLeft(req[r])
    ELSE 0

\* Every call brings its request nearer to its end, and nothing anybody else does
\* takes it further away: neither a reader that starts again after its migration
\* (policy.go readDirectoryEnv) nor a second attempt (share_create.go
\* appendShareDefinition, removeShareDefinition) can be kept busy for ever.
WorkShrinks ==
    [][\A r \in Requests : Running(r) =>
        /\ WorkLeft(r)' <= WorkLeft(r)
        /\ Serve(r) => WorkLeft(r)' < WorkLeft(r)]_vars

\* Every request in flight is answered or ends with the process: the migration's
\* fresh start and the second attempts do not go round for ever.
EveryRequestEnds == \A r \in Requests : Running(r) ~> ~Running(r)

=============================================================================
