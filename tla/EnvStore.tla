------------------------------ MODULE EnvStore ------------------------------
(***************************************************************************)
(* What the comments of share_create.go and the configuration contract      *)
(* promise of one directory's configuration: every write by the server is   *)
(* one update of the configuration as it stands, never of an older one, and *)
(* leaves what the administrator saved alone.  `intact` becomes FALSE when  *)
(* two writers of the file met in a way that breaks the promise; from then  *)
(* on nothing is promised.                                                  *)
(***************************************************************************)
EXTENDS EnvDoc

VARIABLES
    conf,       \* the configuration on disk
    edits,      \* saves and removals by the administrator so far
    intact      \* no two writers have met yet

storeVars == <<conf, edits, intact>>

Absent == [live |-> FALSE, doc |-> EmptyDoc]

Stored(d) == [live |-> TRUE, doc |-> d]

StoreInit ==
    /\ \/ conf = Absent
       \/ conf.doc \in Doc /\ conf.doc.note = 0 /\ conf = Stored(conf.doc)
    /\ edits = 0
    /\ intact = TRUE

\* A share is published into a configuration that does not forbid sharing.
Share(i) ==
    /\ conf.live
    /\ conf.doc.switch # "false"
    /\ conf' = Stored(AddShare(conf.doc, i))
    /\ UNCHANGED edits

Revoke(i) ==
    /\ conf.live
    /\ conf' = Stored(DropShare(conf.doc, i))
    /\ UNCHANGED edits

\* Only plain text is replaced, and by a salted hash of the same secret.
Protect ==
    /\ conf.live
    /\ IsPlain(conf.doc)
    /\ conf'.doc.password.salt \in Nat \ {0}
    /\ conf' = Stored(HashPassword(conf.doc, conf'.doc.password.salt))
    /\ UNCHANGED edits

\* The first share of a directory makes its file, in three visible steps.
Reserve ==
    /\ ~conf.live
    /\ conf' = Stored(EmptyDoc)
    /\ UNCHANGED edits

Tear(i) ==
    /\ conf = Stored(EmptyDoc)
    /\ \E d \in Prefixes(i) : conf' = Stored(d)
    /\ UNCHANGED edits

Withdraw(i) ==
    /\ \E d \in Prefixes(i) \cup {FirstShare(i)} : conf = Stored(d)
    /\ conf' = Absent
    /\ UNCHANGED edits

\* The administrator may save anything, under a number never used before.
Save ==
    /\ edits' = edits + 1
    /\ \/ conf' = Absent
       \/ conf'.doc \in Doc /\ conf'.doc.note = edits' /\ conf' = Stored(conf'.doc)

StoreNext ==
    \/ /\ intact
       /\ \/ \E i \in Requests : Share(i) \/ Tear(i) \/ Withdraw(i)
          \/ \E i \in Ids : Revoke(i)
          \/ Protect \/ Reserve \/ Save
       /\ UNCHANGED intact
    \/ intact' = FALSE

Spec == StoreInit /\ [][StoreNext]_storeVars

=============================================================================
