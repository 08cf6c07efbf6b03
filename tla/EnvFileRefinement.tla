------------------------- MODULE EnvFileRefinement --------------------------
(***************************************************************************)
(* EnvFile implements EnvStore: proof, from the invariants of EnvFileProofs.*)
(***************************************************************************)
EXTENDS EnvFileProofs

\* The configuration of the store, and a step of the store or a stutter.
Conf == [live |-> file.live, doc |-> file.doc]

StoreMove == Store!StoreNext \/ UNCHANGED Store!storeVars

\* A step that leaves the file and the saves alone is a stutter of the store.
LEMMA Stutter ==
    ASSUME UNCHANGED <<file, edits, races>>
    PROVE  StoreMove
BY DEF StoreMove, Store!storeVars

\* Once two writers have met the store promises nothing.
LEMMA Broken ==
    ASSUME races' # {}
    PROVE  StoreMove
BY DEF StoreMove, Store!StoreNext

\* A rename that meets nobody is one update of the configuration as it stands.
LEMMA RenameRefines ==
    ASSUME TypeOK, LocalInv, NEW r \in Requests, Rename(r), races' = {}
    PROVE  StoreMove
<1>1. req[r] \in Request /\ Consistent(r, req[r]) /\ At(r, "rename")
  BY DEF TypeOK, LocalInv, Rename
<1>2. /\ file.doc = req[r].raw
      /\ file.live
      /\ file' = FileOf(req[r].updated)
      /\ UNCHANGED <<edits, races>>
      /\ req[r].updated \in Doc
  BY <1>1 DEF Rename, Consistent, At, Request
<1>3. Conf' = Store!Stored(req[r].updated) /\ Conf.live /\ Conf.doc = req[r].raw
  BY <1>2 DEF Conf, FileOf, Store!Stored
<1>4. CASE In(r, {"policy", "safe", "load"})
  <2>1. /\ IsPlain(req[r].raw)
        /\ req[r].updated.password.salt \in Nat \ {0}
        /\ req[r].updated = HashPassword(req[r].raw, req[r].updated.password.salt)
    BY <1>1, <1>2, <1>4 DEF Consistent, At, In, Doc, Password
  <2>2. Store!Protect
    BY <1>2, <1>3, <2>1 DEF Store!Protect, Store!HashPassword, HashPassword, Conf,
       Store!IsPlain, IsPlain, Store!HasPassword, HasPassword, Store!Stored
  <2> QED
    BY <1>2, <2>2 DEF StoreMove, Store!StoreNext
<1>5. CASE In(r, {"append"})
  <2>1. Store!Share(r)
    BY <1>1, <1>2, <1>3, <1>5 DEF Consistent, At, In, Store!Share, AddShare,
       Store!AddShare, Conf
  <2> QED
    BY <1>2, <2>1 DEF StoreMove, Store!StoreNext
<1>6. CASE In(r, {"remove"})
  <2>1. req[r].id \in Ids /\ Store!Revoke(req[r].id)
    BY <1>1, <1>2, <1>3, <1>6 DEF Consistent, At, In, Store!Revoke, DropShare,
       Store!DropShare, Conf
  <2> QED
    BY <1>2, <2>1 DEF StoreMove, Store!StoreNext, Store!Ids, Ids
<1> QED
  BY <1>1, <1>4, <1>5, <1>6 DEF Request, Phases, In

\* The steps of the first share's creation.
LEMMA CreateRefines ==
    ASSUME TypeOK, LocalInv, OwnInv, NEW r \in Requests, races' = {},
           \/ CreateFile(r) /\ ~file.live
           \/ Write(r)
           \/ Unlink(r)
    PROVE  StoreMove
<1> USE EnvDocAssumption
<1>1. CASE CreateFile(r) /\ ~file.live
  <2>1. /\ ~Conf.live
        /\ Conf' = Store!Stored(EmptyDoc)
        /\ UNCHANGED edits
    <3>1. file' = [live |-> TRUE, doc |-> EmptyDoc, by |-> r]
      BY <1>1 DEF CreateFile
    <3>2. Conf' = [live |-> TRUE, doc |-> EmptyDoc]
      BY <3>1 DEF Conf
    <3> QED
      BY <1>1, <3>2 DEF CreateFile, Conf, Store!Stored
  <2>2. Store!EmptyDoc = EmptyDoc
    BY DEF Store!EmptyDoc, Store!NoPassword, EmptyDoc, NoPassword
  <2>3. Store!Reserve
    BY <2>1, <2>2 DEF Store!Reserve, Conf
  <2> QED
    BY <1>1, <2>3 DEF CreateFile, StoreMove, Store!StoreNext
<1>2. CASE Write(r)
  <2>1. PICK d \in Prefixes(r) \cup {FirstShare(r)} : WriteOwn(r, d)
    BY <1>2 DEF Write
  <2>2. /\ file.live /\ file.by = r /\ file.doc = EmptyDoc
        /\ file'.live /\ file'.doc = d
        /\ UNCHANGED <<edits, races>>
    BY <1>2, <2>1 DEF Write, WriteOwn, OwnInv, At, NoFile, TypeOK, File
  <2>3. Conf = Store!Stored(EmptyDoc) /\ Conf' = Store!Stored(d)
    BY <2>2 DEF Conf, Store!Stored
  <2>4. Store!EmptyDoc = EmptyDoc
    BY DEF Store!EmptyDoc, Store!NoPassword, EmptyDoc, NoPassword
  <2>5. CASE d = FirstShare(r)
    <3>1. EmptyDoc.switch # "false"
      BY DEF EmptyDoc
    <3>2. Store!Share(r)
      BY <2>2, <2>3, <2>5, <3>1 DEF Store!Share, Store!AddShare, AddShare,
         FirstShare, Conf
    <3> QED
      BY <2>2, <3>2 DEF StoreMove, Store!StoreNext
  <2>6. CASE d \in Prefixes(r)
    <3>1. Store!Tear(r)
      BY <2>2, <2>3, <2>4, <2>6 DEF Store!Tear, Store!Prefixes, Prefixes, Conf
    <3> QED
      BY <2>2, <3>1 DEF StoreMove, Store!StoreNext
  <2> QED
    BY <2>5, <2>6
<1>3. CASE Unlink(r)
  <2>1. UNCHANGED <<edits, races>> /\ file' = NoFile
    BY <1>3 DEF Unlink
  <2>2. CASE ~file.live
    BY <2>1, <2>2, Stutter DEF OwnInv
  <2>3. CASE file.live /\ file.by = r
    <3>1. file.doc \in Prefixes(r) \cup {FirstShare(r)}
      BY <1>3, <2>3 DEF Unlink, OwnInv
    <3>2. /\ Store!Prefixes(r) = Prefixes(r)
          /\ Store!FirstShare(r) = FirstShare(r)
      BY DEF Store!Prefixes, Prefixes, Store!FirstShare, FirstShare, Store!AddShare,
         AddShare, Store!EmptyDoc, EmptyDoc, Store!NoPassword, NoPassword
    <3>3. Conf = Store!Stored(file.doc) /\ Conf' = Store!Absent
      BY <2>1, <2>3 DEF Conf, NoFile, Store!Stored, Store!Absent, Store!EmptyDoc,
         EmptyDoc, Store!NoPassword, NoPassword
    <3>4. Store!Withdraw(r)
      BY <2>1, <3>1, <3>2, <3>3 DEF Store!Withdraw, Conf
    <3> QED
      BY <2>1, <3>4 DEF StoreMove, Store!StoreNext
  <2> QED
    BY <1>3, <2>2, <2>3 DEF Unlink
<1> QED
  BY <1>1, <1>2, <1>3

\* A save of the administrator.
LEMMA AdminRefines ==
    ASSUME TypeOK, TypeOK', Admin, races' = {}
    PROVE  StoreMove
<1>1. Store!Doc = Doc
  BY DEF Store!Doc, Doc, Store!Password, Password, Store!Ids, Ids
<1>2. ASSUME NEW d \in AdminDocs, AdminSave(d) PROVE Store!Save /\ UNCHANGED races
  <2>1. d \in Doc
    BY SavedDocs
  <2>2. file'.live /\ file'.doc.note = edits' /\ edits' = edits + 1 /\ file'.doc \in Doc
    BY <1>2, <2>1 DEF AdminSave, FileOf, Doc, TypeOK, File
  <2> QED
    BY <1>1, <1>2, <2>2 DEF Store!Save, Store!Stored, AdminSave
<1>3. CASE AdminRemove
  <2>1. Store!Save
    BY <1>3 DEF AdminRemove, NoFile, Store!Save, Store!Absent, Store!EmptyDoc,
       EmptyDoc, Store!NoPassword, NoPassword
  <2> QED
    BY <1>3, <2>1 DEF AdminRemove, StoreMove, Store!StoreNext
<1> QED
  BY <1>2, <1>3 DEF Admin, StoreMove, Store!StoreNext

\* Every step of EnvFile is a step of the store or a stutter.
LEMMA StoreStep ==
    TypeOK /\ LocalInv /\ OwnInv /\ [Next]_vars => [Store!StoreNext]_(Store!storeVars)
<1> SUFFICES ASSUME TypeOK, LocalInv, OwnInv, [Next]_vars, races' = {}
             PROVE  StoreMove
  BY Broken DEF StoreMove
<1>1. ASSUME NEW r \in Requests,
             \/ Start(r) \/ Stat(r) \/ Read(r) \/ Compare(r) \/ Recheck(r) \/ Verify(r)
             \/ Sync(r) \/ Fail(r)
             \/ CreateFile(r) /\ file.live
      PROVE  StoreMove
  BY <1>1, Stutter DEF Start, Stat, Read, Compare, Recheck, Verify, Sync, Fail,
     CreateFile
<1>2. CASE Stop \/ UNCHANGED vars
  BY <1>2, Stutter DEF Stop, vars
<1>3. CASE Admin
  BY <1>3, TypeStep, AdminRefines
<1>4. ASSUME NEW r \in Requests, Start(r) \/ Serve(r)
      PROVE  StoreMove
  <2>1. CASE Start(r) \/ Stat(r) \/ Read(r) \/ Compare(r) \/ Recheck(r) \/ Verify(r)
            \/ Sync(r) \/ Fail(r)
    BY <1>1, <2>1
  <2>2. CASE Rename(r)
    BY <2>2, RenameRefines
  <2>3. CASE CreateFile(r)
    <3>1. CASE file.live
      BY <1>1, <2>3, <3>1
    <3>2. CASE ~file.live
      BY <2>3, <3>2, CreateRefines
    <3> QED
      BY <3>1, <3>2
  <2>4. CASE Write(r)
    BY <2>4, CreateRefines
  <2>5. CASE Unlink(r)
    BY <2>5, CreateRefines
  <2> QED
    BY <1>4, <2>1, <2>2, <2>3, <2>4, <2>5 DEF Serve
<1> QED
  BY <1>2, <1>3, <1>4 DEF Next

\* EnvFile starts where the store may start.
LEMMA StoreStart == Init => Store!StoreInit
<1> SUFFICES ASSUME Init PROVE Store!StoreInit
  OBVIOUS
<1>1. file.doc \in Doc
  BY TypeInit DEF TypeOK, File
<1>2. Store!Doc = Doc
  BY DEF Store!Doc, Doc, Store!Password, Password, Store!Ids, Ids
<1>3. CASE file = NoFile
  <2>1. Conf = Store!Absent
    BY <1>3 DEF Conf, NoFile, Store!Absent, Store!EmptyDoc, EmptyDoc,
       Store!NoPassword, NoPassword
  <2> QED
    BY <2>1 DEF Init, Store!StoreInit, Conf
<1>4. CASE \E d \in InitialDocs : file = FileOf(d)
  <2>1. file.live /\ file.doc.note = 0
    BY <1>4 DEF FileOf, InitialDocs
  <2> QED
    BY <1>1, <1>2, <2>1 DEF Init, Store!StoreInit, Store!Stored
<1> QED
  BY <1>3, <1>4 DEF Init

\* Until two writers of the file meet, every change the server makes to a
\* directory's configuration is one promised update of the configuration as it
\* stands (EnvStore), for any number of requests, seeds and saves.
THEOREM Refinement == Spec => StoreSpec
<1> DEFINE Inv == TypeOK /\ LocalInv /\ OwnInv
<1>1. Init => Inv
  BY TypeInit, LocalInit, KeptInit
<1>2. Inv /\ [Next]_vars => Inv'
  BY TypeStep, LocalStep, OwnStep
<1> QED
  BY <1>1, <1>2, StoreStart, StoreStep, PTL DEF Spec, StoreSpec, Store!Spec

=============================================================================
