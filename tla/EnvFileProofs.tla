--------------------------- MODULE EnvFileProofs ----------------------------
(***************************************************************************)
(* Proofs about EnvFile, for any set of requests, seeds and secrets.        *)
(***************************************************************************)
EXTENDS EnvFile, FiniteSetTheorems, TLAPS

-----------------------------------------------------------------------------
(* Documents.                                                              *)

\* The empty document, the content of a first share's file and every prefix of
\* it are documents.
LEMMA FreshDocs ==
    /\ EmptyDoc \in Doc
    /\ \A i \in Ids : FirstShare(i) \in Doc /\ Prefixes(i) \subseteq Doc
<1>1. EmptyDoc \in Doc
  BY DEF EmptyDoc, Doc, Password, NoPassword
<1>2. ASSUME NEW i \in Ids PROVE FirstShare(i) \in Doc
  BY <1>1, <1>2 DEF FirstShare, AddShare, Doc
<1>3. ASSUME NEW i \in Ids, NEW d \in Prefixes(i) PROVE d \in Doc
  <2>1. [EmptyDoc EXCEPT !.switch = "true"] \in Doc
    BY <1>1 DEF Doc
  <2>2. [EmptyDoc EXCEPT !.switch = "true", !.broken = {i}] \in Doc
    BY <1>1 DEF Doc
  <2>3. [EmptyDoc EXCEPT !.garbled = TRUE] \in Doc
    BY <1>1 DEF Doc
  <2> QED
    BY <1>1, <1>3, <2>1, <2>2, <2>3 DEF Prefixes
<1> QED
  BY <1>1, <1>2, <1>3

\* What a first share's file says.
LEMMA FirstShareFields ==
    ASSUME NEW i
    PROVE  /\ FirstShare(i).note = 0
           /\ FirstShare(i).password = NoPassword
           /\ FirstShare(i).shares = {i}
           /\ FirstShare(i).broken = {}
BY DEF FirstShare, AddShare, EmptyDoc

\* A part of a first share's file holds no complete share, and at most one of its
\* own incomplete.
LEMMA PrefixFields ==
    ASSUME NEW i, NEW e \in Prefixes(i)
    PROVE  /\ e.note = 0
           /\ e.password = NoPassword
           /\ e.shares = {}
           /\ e.broken \subseteq {i}
<1>1. CASE e = EmptyDoc
  BY <1>1 DEF EmptyDoc
<1>2. CASE e = [EmptyDoc EXCEPT !.switch = "true"]
  BY <1>2 DEF EmptyDoc
<1>3. CASE e = [EmptyDoc EXCEPT !.switch = "true", !.broken = {i}]
  BY <1>3 DEF EmptyDoc
<1>4. CASE e = [EmptyDoc EXCEPT !.garbled = TRUE]
  BY <1>4 DEF EmptyDoc
<1> QED
  BY <1>1, <1>2, <1>3, <1>4 DEF Prefixes

\* The three rewrites of the server make documents of documents.
LEMMA RewrittenDocs ==
    ASSUME NEW d \in Doc, NEW i \in Ids, NEW n \in Nat
    PROVE  /\ AddShare(d, i) \in Doc
           /\ DropShare(d, i) \in Doc
           /\ HashPassword(d, n) \in Doc
BY DEF AddShare, DropShare, HashPassword, Doc, Password

\* A save of the administrator makes a document of a document, too.
LEMMA SavedDocs ==
    ASSUME TypeOK, NEW d \in AdminDocs
    PROVE  d \in Doc
<1> DEFINE mended == [file.doc EXCEPT !.broken = {}, !.garbled = FALSE]
<1>1. mended \in Doc
  BY DEF TypeOK, File, Doc
<1>2. \A i \in file.doc.shares : DropShare(mended, i) \in Doc
  BY <1>1, RewrittenDocs DEF TypeOK, File, Doc
<1> HIDE DEF mended
<1>3. \A s \in Secrets :
        [mended EXCEPT !.password = [secret |-> s, salt |-> 0]] \in Doc
  BY <1>1 DEF Doc, Password
<1>4. \A b \in {"true", "false"} : [mended EXCEPT !.switch = b] \in Doc
  BY <1>1 DEF Doc
<1> QED
  BY <1>2, <1>3, <1>4 DEF AdminDocs, mended

-----------------------------------------------------------------------------
(* Types.                                                                  *)

\* The moves of a request's local state keep its type.
LEMMA LocalTypes ==
    ASSUME TypeOK, NEW r \in Requests
    PROVE  /\ \A new \in Request : Become(r, new) => req' \in [Requests -> Request]
           /\ \A step \in Steps : Goto(r, step) => req' \in [Requests -> Request]
           /\ \A p \in Phases : Enter(r, p) => req' \in [Requests -> Request]
           /\ \A a \in Answers :
                /\ Ended(r, a) \in Request
                /\ Finish(r, a) => req' \in [Requests -> Request]
           /\ \A d \in Doc, new \in Doc :
                Rewrite(r, d, new) => req' \in [Requests -> Request]
<1>1. req \in [Requests -> Request] /\ req[r] \in Request
  BY DEF TypeOK
<1>2. \A new \in Request : Become(r, new) => req' \in [Requests -> Request]
  BY <1>1 DEF Become
<1>3. \A step \in Steps : [req[r] EXCEPT !.pc = step] \in Request
  BY <1>1 DEF Request
<1>4. \A p \in Phases :
        [req[r] EXCEPT !.phase = p, !.pc = "stat", !.tries = 0] \in Request
  BY <1>1 DEF Request, Steps
<1>5. \A a \in Answers : Ended(r, a) \in Request
  BY <1>1, FreshDocs DEF Ended, Request, Steps
<1>6. \A d \in Doc, new \in Doc :
        [req[r] EXCEPT !.pc = "compare", !.raw = d, !.updated = new] \in Request
  BY <1>1 DEF Request, Steps
<1> QED
  BY <1>2, <1>3, <1>4, <1>5, <1>6 DEF Goto, Enter, Finish, Rewrite

\* So do ending, retrying, entering a phase and the moves after a policy read.
LEMMA OutcomeTypes ==
    ASSUME TypeOK, NEW r \in Requests
    PROVE  /\ Retry(r) => req' \in [Requests -> Request]
           /\ Resolved(r) => req' \in [Requests -> Request]
           /\ Unequal(r) => req' \in [Requests -> Request]
<1>1. Retry(r) => req' \in [Requests -> Request]
  <2>1. [req[r] EXCEPT !.tries = 1, !.pc = "stat"] \in Request
    BY DEF TypeOK, Request, Steps
  <2> QED
    BY <2>1, LocalTypes DEF Retry, Answers
<1> QED
  BY <1>1, LocalTypes DEF Resolved, Unequal, Phases, Answers

\* EnvFile's variables keep their types, step by step.
LEMMA TypeStep == TypeOK /\ LocalInv /\ [Next]_vars => TypeOK'
<1> SUFFICES ASSUME TypeOK, LocalInv, [Next]_vars PROVE TypeOK'
  OBVIOUS
<1> USE EnvDocAssumption
<1>1. ASSUME NEW r \in Requests, Start(r) PROVE TypeOK'
  <2>1. \A op \in Ops, id \in Ids \cup {None}, p \in Phases :
          [req[r] EXCEPT !.op = op, !.id = id, !.pc = "stat", !.phase = p] \in Request
    <3>1. req[r] \in Request
      BY DEF TypeOK
    <3> QED
      BY <3>1 DEF Request, Steps
  <2>2. req' \in [Requests -> Request]
    BY <1>1, <2>1, LocalTypes DEF Start, Phases
  <2> QED
    BY <1>1, <2>2 DEF TypeOK, Start
<1>2. ASSUME NEW r \in Requests, Stat(r) PROVE TypeOK'
  <2>1. req' \in [Requests -> Request]
    BY <1>2, LocalTypes, OutcomeTypes DEF Stat, Steps, Answers
  <2> QED
    BY <1>2, <2>1 DEF TypeOK, Stat
<1>3. ASSUME NEW r \in Requests, Read(r) PROVE TypeOK'
  <2>1. file.doc \in Doc /\ salts + 1 \in Nat /\ salts + 1 # 0
    BY DEF TypeOK, File
  <2>2. salts' \in Nat \ {0}
    BY <1>3 DEF Read, TypeOK
  <2>3. req' \in [Requests -> Request]
    <3>1. HashPassword(file.doc, salts') \in Doc
      BY <2>1, <2>2, RewrittenDocs, FreshDocs DEF HashPassword, Doc, Password
    <3>2. r \in Ids /\ AddShare(file.doc, r) \in Doc
      BY <2>1, RewrittenDocs DEF Ids
    <3>3. ~Unusable(r) /\ In(r, {"remove"})
            => DropShare(file.doc, req[r].id) \in Doc
      BY <2>1, RewrittenDocs DEF Unusable, Doc
    <3> QED
      BY <1>3, <2>1, <3>1, <3>2, <3>3, LocalTypes, OutcomeTypes DEF Read, Answers
  <2> QED
    BY <1>3, <2>2, <2>3 DEF TypeOK, Read
<1>4. ASSUME NEW r \in Requests, Compare(r) PROVE TypeOK'
  <2>1. req' \in [Requests -> Request]
    BY <1>4, LocalTypes, OutcomeTypes DEF Compare, Steps, Answers
  <2> QED
    BY <1>4, <2>1 DEF TypeOK, Compare
<1>5. ASSUME NEW r \in Requests, Recheck(r) PROVE TypeOK'
  <2>1. req' \in [Requests -> Request]
    <3>1. [req[r] EXCEPT !.pc = "rename", !.current = file.doc] \in Request
      <4>1. req[r] \in Request /\ file.doc \in Doc
        BY DEF TypeOK, File
      <4> QED
        BY <4>1 DEF Request, Steps
    <3> QED
      BY <1>5, <3>1, LocalTypes, OutcomeTypes DEF Recheck
  <2> QED
    BY <1>5, <2>1 DEF TypeOK, Recheck
<1>6. ASSUME NEW r \in Requests, Rename(r) PROVE TypeOK'
  <2>1. req' \in [Requests -> Request]
    BY <1>6, LocalTypes DEF Rename, Steps, Answers
  <2>2. req[r] \in Request
    BY DEF TypeOK
  <2>3. file' \in File
    BY <1>6, <2>2 DEF Rename, FileOf, File, Request
  <2>4. gone' \subseteq Ids
    BY <1>6, <2>2 DEF Rename, TypeOK, LocalInv, Consistent, In
  <2> QED
    BY <1>6, <2>1, <2>3, <2>4 DEF TypeOK, Rename, RaceKinds
<1>7. ASSUME NEW r \in Requests, Verify(r) PROVE TypeOK'
  <2>1. req' \in [Requests -> Request]
    BY <1>7, LocalTypes DEF Verify, Answers
  <2> QED
    BY <1>7, <2>1 DEF TypeOK, Verify
<1>16. ASSUME NEW r \in Requests, Fail(r) PROVE TypeOK'
  <2>1. req' \in [Requests -> Request]
    BY <1>16, LocalTypes DEF Fail, Answers
  <2> QED
    BY <1>16, <2>1 DEF TypeOK, Fail
<1>8. ASSUME NEW r \in Requests, CreateFile(r) PROVE TypeOK'
  <2>1. req' \in [Requests -> Request]
    BY <1>8, LocalTypes, OutcomeTypes DEF CreateFile, Steps
  <2>2. file' \in File
    <3>1. [live |-> TRUE, doc |-> EmptyDoc, by |-> r] \in File
      BY FreshDocs DEF File
    <3> QED
      BY <1>8, <3>1 DEF CreateFile, TypeOK
  <2> QED
    BY <1>8, <2>1, <2>2 DEF TypeOK, CreateFile
<1>9. ASSUME NEW r \in Requests, Write(r) PROVE TypeOK'
  <2>1. req' \in [Requests -> Request]
    BY <1>9, LocalTypes DEF Write, Steps
  <2>2. \A d \in Doc : WriteOwn(r, d) => file' \in File /\ races' \subseteq RaceKinds
    BY DEF WriteOwn, TypeOK, File, RaceKinds
  <2>3. FirstShare(r) \in Doc /\ Prefixes(r) \subseteq Doc
    BY FreshDocs DEF Ids
  <2> QED
    BY <1>9, <2>1, <2>2, <2>3 DEF TypeOK, Write
<1>10. ASSUME NEW r \in Requests, Sync(r) PROVE TypeOK'
  <2>1. req' \in [Requests -> Request]
    BY <1>10, LocalTypes DEF Sync, Steps, Answers
  <2> QED
    BY <1>10, <2>1 DEF TypeOK, Sync
<1>11. ASSUME NEW r \in Requests, Unlink(r) PROVE TypeOK'
  <2>1. req' \in [Requests -> Request]
    BY <1>11, LocalTypes DEF Unlink, Answers
  <2>2. file' \in File
    BY <1>11, FreshDocs DEF Unlink, NoFile, File
  <2> QED
    BY <1>11, <2>1, <2>2 DEF TypeOK, Unlink, RaceKinds
<1>12. ASSUME NEW d \in AdminDocs, AdminSave(d) PROVE TypeOK'
  <2>1. d \in Doc /\ edits + 1 \in Nat
    BY SavedDocs DEF TypeOK
  <2>2. file' \in File
    BY <1>12, <2>1 DEF AdminSave, FileOf, File, Doc
  <2>3. gone' \subseteq Ids /\ hardened' \in BOOLEAN
    BY <1>12 DEF AdminSave, TypeOK, File, Doc
  <2> QED
    BY <1>12, <2>1, <2>2, <2>3 DEF TypeOK, AdminSave
<1>13. CASE AdminRemove
  <2>1. file' \in File
    BY <1>13, FreshDocs DEF AdminRemove, NoFile, File
  <2>2. gone' \subseteq Ids
    BY <1>13 DEF AdminRemove, TypeOK, File, Doc
  <2>3. edits' \in Nat /\ saved' \in 0..edits'
    BY <1>13 DEF AdminRemove, TypeOK
  <2> QED
    BY <1>13, <2>1, <2>2, <2>3 DEF TypeOK, AdminRemove
<1>14. CASE Stop
  <2>1. req' \in [Requests -> Request]
    BY <1>14, LocalTypes DEF Stop, TypeOK, Answers
  <2> QED
    BY <1>14, <2>1 DEF TypeOK, Stop
<1>15. CASE UNCHANGED vars
  BY <1>15 DEF TypeOK, vars
<1> QED
  BY <1>1, <1>2, <1>3, <1>4, <1>5, <1>6, <1>7, <1>8, <1>9, <1>10, <1>11, <1>12,
     <1>13, <1>14, <1>15, <1>16 DEF Next, Serve, Admin

\* EnvFile's variables start well typed.
LEMMA TypeInit == Init => TypeOK
<1> SUFFICES ASSUME Init PROVE TypeOK
  OBVIOUS
<1>1. file \in File
  <2>1. ASSUME NEW d \in InitialDocs PROVE FileOf(d) \in File
    <3>1. d \in [password : [secret : Secrets \cup {None}, salt : {0, 1}],
                 shares : {{}, Seeds}, broken : {{}}, garbled : BOOLEAN,
                 switch : {"unset", "true", "false"}, note : {0}]
      BY DEF InitialDocs
    <3>2. d.password \in Password
      BY <3>1 DEF Password
    <3>3. d.shares \in SUBSET Ids /\ d.broken \in SUBSET Ids
      BY <3>1 DEF Ids
    <3>4. d \in Doc
      BY <3>1, <3>2, <3>3 DEF Doc
    <3> QED
      BY <3>4 DEF FileOf, File
  <2>2. NoFile \in File
    BY FreshDocs DEF NoFile, File
  <2> QED
    BY <2>1, <2>2 DEF Init
<1>2. Idle \in Request
  BY FreshDocs DEF Idle, Request, Ops, Phases, Steps, Answers
<1>3. req \in [Requests -> Request]
  BY <1>2 DEF Init
<1>4. salts \in Nat \ {0} /\ edits \in Nat /\ saved \in 0..edits
  BY DEF Init
<1> QED
  BY <1>1, <1>3, <1>4 DEF Init, TypeOK

-----------------------------------------------------------------------------
(* Where a request is.                                                     *)

\* A request may move to any consistent state of its own.
LEMMA LocalMove ==
    ASSUME TypeOK, LocalInv, NEW r \in Requests, NEW new,
           Become(r, new), Consistent(r, new)
    PROVE  LocalInv'
BY DEF TypeOK, LocalInv, Become

\* It may end, start over, or go on to a phase of its operation.
LEMMA LocalOutcomes ==
    ASSUME TypeOK, LocalInv, NEW r \in Requests, ~At(r, "done")
    PROVE  /\ \A a \in Answers : Finish(r, a) => LocalInv'
           /\ Retry(r) => LocalInv'
           /\ Resolved(r) => LocalInv'
           /\ Unequal(r) => LocalInv'
<1>1. req[r] \in Request /\ Consistent(r, req[r])
  BY DEF TypeOK, LocalInv
<1>2. ASSUME NEW a \in Answers, Finish(r, a) PROVE LocalInv'
  <2>1. Consistent(r, Ended(r, a))
    BY <1>1 DEF Consistent, Ended, Request
  <2> QED
    BY <1>2, <2>1, LocalMove DEF Finish
<1>3. ASSUME Retry(r) PROVE LocalInv'
  <2>1. Consistent(r, [req[r] EXCEPT !.tries = 1, !.pc = "stat"])
    BY <1>1 DEF Consistent, Request, At
  <2> QED
    BY <1>2, <1>3, <2>1, LocalMove DEF Retry, Answers
<1>4. ASSUME NEW p \in {"safe", "append", "remove"}, Enter(r, p),
             p \in {"safe", "append"} => req[r].op = "create",
             p = "remove" => req[r].op = "delete"
      PROVE  LocalInv'
  <2>1. Consistent(r, [req[r] EXCEPT !.phase = p, !.pc = "stat", !.tries = 0])
    BY <1>1, <1>4 DEF Consistent, Request, At
  <2> QED
    BY <1>4, <2>1, LocalMove DEF Enter
<1>5. Resolved(r) => LocalInv'
  BY <1>2, <1>4 DEF Resolved, Answers
<1> QED
  BY <1>2, <1>3, <1>5 DEF Unequal, Answers

\* Every step keeps every request consistent; a step of r leaves the others alone.
LEMMA LocalStep == TypeOK /\ LocalInv /\ [Next]_vars => LocalInv'
<1> SUFFICES ASSUME TypeOK, LocalInv, [Next]_vars PROVE LocalInv'
  OBVIOUS
<1> USE LocalMove, LocalOutcomes
<1>0. \A r \in Requests : req[r] \in Request /\ Consistent(r, req[r])
  BY DEF TypeOK, LocalInv
<1>1. ASSUME NEW r \in Requests, Start(r) PROVE LocalInv'
  <2>1. PICK op \in Ops, id \in Ids \cup {None} :
          /\ (id = None) <=> (op # "delete")
          /\ Become(r, [req[r] EXCEPT !.op = op, !.id = id, !.pc = "stat",
                          !.phase = IF op = "load" THEN "load" ELSE "policy"])
    BY <1>1 DEF Start
  <2>2. Consistent(r, [req[r] EXCEPT !.op = op, !.id = id, !.pc = "stat",
                          !.phase = IF op = "load" THEN "load" ELSE "policy"])
    BY <1>0, <1>1, <2>1 DEF Start, At, Consistent, Request
  <2> QED
    BY <2>1, <2>2
<1>2. ASSUME NEW r \in Requests, Stat(r) PROVE LocalInv'
  <2>1. Consistent(r, [req[r] EXCEPT !.pc = "read"])
    BY <1>0, <1>2 DEF Stat, At, Consistent, Request
  <2>2. In(r, {"append"}) => Consistent(r, [req[r] EXCEPT !.pc = "create"])
    BY <1>0, <1>2 DEF Stat, At, In, Consistent, Request
  <2> QED
    BY <1>2, <2>1, <2>2 DEF Stat, At, Goto, Answers
<1>3. ASSUME NEW r \in Requests, Read(r) PROVE LocalInv'
  <2>1. /\ ~At(r, "done")
        /\ At(r, "read")
    BY <1>3 DEF Read, At
  <2>2. CASE In(r, {"policy", "safe", "load"}) /\ IsPlain(file.doc)
               /\ salts' = salts + 1
               /\ Rewrite(r, file.doc, HashPassword(file.doc, salts'))
    <3> DEFINE hashed == HashPassword(file.doc, salts')
    <3>1. salts' \in Nat /\ salts' # 0 /\ file.doc \in Doc
      BY <2>2 DEF TypeOK, File
    <3>2. hashed.password.salt = salts'
      BY <3>1 DEF HashPassword, Doc, Password
    <3>3. hashed = HashPassword(file.doc, hashed.password.salt)
      BY <3>2
    <3> HIDE DEF hashed
    <3>4. Consistent(r, [req[r] EXCEPT !.pc = "compare", !.raw = file.doc,
                                       !.updated = hashed])
      BY <1>0, <2>1, <2>2, <3>1, <3>2, <3>3 DEF At, In, Consistent, Request
    <3> QED
      BY <2>2, <3>4 DEF Rewrite, hashed
  <2>3. CASE /\ In(r, {"append"}) /\ file.doc.switch # "false"
             /\ Rewrite(r, file.doc, AddShare(file.doc, r))
    <3>1. Consistent(r, [req[r] EXCEPT !.pc = "compare", !.raw = file.doc,
                                       !.updated = AddShare(file.doc, r)])
      BY <1>0, <2>1, <2>3 DEF At, In, Consistent, Request
    <3> QED
      BY <2>3, <3>1 DEF Rewrite
  <2>4. CASE /\ In(r, {"remove"})
             /\ req[r].id \in file.doc.shares \cup file.doc.broken
             /\ Rewrite(r, file.doc, DropShare(file.doc, req[r].id))
    <3>1. Consistent(r, [req[r] EXCEPT !.pc = "compare", !.raw = file.doc,
                                       !.updated = DropShare(file.doc, req[r].id)])
      BY <1>0, <2>1, <2>4 DEF At, In, Consistent, Request
    <3> QED
      BY <2>4, <3>1 DEF Rewrite
  <2> QED
    BY <1>3, <2>1, <2>2, <2>3, <2>4 DEF Read, Unusable, Answers
<1>4. ASSUME NEW r \in Requests, Compare(r) PROVE LocalInv'
  <2>1. Consistent(r, [req[r] EXCEPT !.pc = "recheck"])
    BY <1>0, <1>4 DEF Compare, At, Consistent, Request
  <2> QED
    BY <1>4, <2>1 DEF Compare, At, Goto, Answers
<1>5. ASSUME NEW r \in Requests, Recheck(r) PROVE LocalInv'
  <2>1. file.doc = req[r].raw
          => Consistent(r, [req[r] EXCEPT !.pc = "rename", !.current = file.doc])
    BY <1>0, <1>5 DEF Recheck, At, Consistent, Request
  <2> QED
    BY <1>5, <2>1 DEF Recheck, At
<1>6. ASSUME NEW r \in Requests, Rename(r) PROVE LocalInv'
  <2>1. Consistent(r, [req[r] EXCEPT !.pc = "stat"])
    BY <1>0, <1>6 DEF Rename, At, Consistent, Request
  <2>2. In(r, {"load"}) => Consistent(r, [req[r] EXCEPT !.pc = "verify"])
    BY <1>0, <1>6 DEF Rename, At, In, Consistent, Request
  <2> QED
    BY <1>6, <2>1, <2>2 DEF Rename, At, Goto, Answers
<1>7. ASSUME NEW r \in Requests, Verify(r) PROVE LocalInv'
  BY <1>7 DEF Verify, At, Answers
<1>14. ASSUME NEW r \in Requests, Fail(r) PROVE LocalInv'
  BY <1>14 DEF Fail, At, Answers
<1>8. ASSUME NEW r \in Requests, CreateFile(r) PROVE LocalInv'
  <2>1. Consistent(r, [req[r] EXCEPT !.pc = "write"])
    BY <1>0, <1>8 DEF CreateFile, At, Consistent, Request
  <2> QED
    BY <1>8, <2>1 DEF CreateFile, At, Goto
<1>9. ASSUME NEW r \in Requests, Write(r) PROVE LocalInv'
  <2>1. \A step \in {"sync", "unlink"} : Consistent(r, [req[r] EXCEPT !.pc = step])
    BY <1>0, <1>9 DEF Write, At, Consistent, Request
  <2> QED
    BY <1>9, <2>1 DEF Write, Goto
<1>10. ASSUME NEW r \in Requests, Sync(r) PROVE LocalInv'
  <2>1. Consistent(r, [req[r] EXCEPT !.pc = "unlink"])
    BY <1>0, <1>10 DEF Sync, At, Consistent, Request
  <2> QED
    BY <1>10, <2>1 DEF Sync, At, Goto, Answers
<1>11. ASSUME NEW r \in Requests, Unlink(r) PROVE LocalInv'
  BY <1>11 DEF Unlink, At, Answers
<1>12. CASE Admin \/ UNCHANGED vars
  BY <1>12 DEF Admin, AdminSave, AdminRemove, vars, LocalInv
<1>13. CASE Stop
  <2>1. \A r \in Requests : Consistent(r, Ended(r, "lost"))
    BY <1>0 DEF Consistent, Ended, Request
  <2> QED
    BY <1>0, <1>13, <2>1 DEF Stop, LocalInv
<1> QED
  BY <1>1, <1>2, <1>3, <1>4, <1>5, <1>6, <1>7, <1>8, <1>9, <1>10, <1>11, <1>12,
     <1>13, <1>14 DEF Next, Serve

\* Every request starts consistent.
LEMMA LocalInit == Init => LocalInv
BY DEF Init, LocalInv, Consistent, Idle

\* EnvFile never leaves its types, however many requests and edits there are.
THEOREM TypeCorrect == Spec => []TypeOK
<1>1. Init => TypeOK /\ LocalInv
  BY TypeInit, LocalInit
<1>2. TypeOK /\ LocalInv /\ [Next]_vars => (TypeOK /\ LocalInv)'
  BY TypeStep, LocalStep
<1> QED
  BY <1>1, <1>2, PTL DEF Spec

-----------------------------------------------------------------------------
(* The file a request made.                                                *)

\* Steps that leave the file alone and are not those of its creator.
Quiet(r) ==
    /\ req[r].pc \notin {"write", "sync", "unlink", "done"}
    /\ \E new \in Request :
        /\ Become(r, new)
        /\ new.pc \notin {"write", "sync", "unlink"}
        /\ new.answer = "ok" => new.op \in {"read", "load"}
    /\ UNCHANGED <<file, saved, gone, hardened, races>>

\* A request that has not made its file ends, retries or goes on quietly.
LEMMA QuietMoves ==
    ASSUME TypeOK, LocalInv, NEW r \in Requests,
           req[r].pc \notin {"write", "sync", "unlink", "done"},
           UNCHANGED <<file, saved, gone, hardened, races>>
    PROVE  /\ \A step \in Steps \ {"write", "sync", "unlink"} :
                Goto(r, step) => Quiet(r)
           /\ \A a \in Answers :
                (a = "ok" => req[r].op \in {"read", "load"}) /\ Finish(r, a) => Quiet(r)
           /\ Retry(r) => Quiet(r)
           /\ Unequal(r) => Quiet(r)
           /\ Resolved(r) => Quiet(r)
           /\ \A d \in Doc, new \in Doc : Rewrite(r, d, new) => Quiet(r)
<1>1. req[r] \in Request /\ req[r].answer = "none"
  BY DEF TypeOK, LocalInv, Consistent
<1>2. ASSUME NEW step \in Steps \ {"write", "sync", "unlink"}, Goto(r, step)
      PROVE  Quiet(r)
  <2>1. [req[r] EXCEPT !.pc = step] \in Request
    BY <1>1 DEF Request
  <2> QED
    BY <1>1, <1>2, <2>1 DEF Goto, Quiet, Request
<1>3. ASSUME NEW a \in Answers, a = "ok" => req[r].op \in {"read", "load"},
             Finish(r, a)
      PROVE  Quiet(r)
  <2>1. Ended(r, a) \in Request
    BY LocalTypes
  <2>2. Ended(r, a).pc = "done" /\ Ended(r, a).answer = a /\ Ended(r, a).op = req[r].op
    BY <1>1 DEF Ended, Request
  <2> QED
    BY <1>3, <2>1, <2>2 DEF Finish, Quiet
<1>4. ASSUME Retry(r) PROVE Quiet(r)
  <2>1. [req[r] EXCEPT !.tries = 1, !.pc = "stat"] \in Request
    BY <1>1 DEF Request, Steps
  <2> QED
    BY <1>1, <1>3, <1>4, <2>1 DEF Retry, Quiet, Request, Answers
<1>5. ASSUME NEW p \in Phases, Enter(r, p) PROVE Quiet(r)
  <2>1. [req[r] EXCEPT !.phase = p, !.pc = "stat", !.tries = 0] \in Request
    BY <1>1 DEF Request, Steps
  <2> QED
    BY <1>1, <1>5, <2>1 DEF Enter, Quiet, Request
<1>6. ASSUME NEW d \in Doc, NEW new \in Doc, Rewrite(r, d, new) PROVE Quiet(r)
  <2>1. [req[r] EXCEPT !.pc = "compare", !.raw = d, !.updated = new] \in Request
    BY <1>1 DEF Request, Steps
  <2> QED
    BY <1>1, <1>6, <2>1 DEF Rewrite, Quiet, Request
<1>7. Unequal(r) => Quiet(r)
  BY <1>3, <1>4 DEF Unequal, Answers
<1>8. Resolved(r) => Quiet(r)
  BY <1>3, <1>5 DEF Resolved, Answers, Phases
<1> QED
  BY <1>2, <1>3, <1>4, <1>6, <1>7, <1>8

\* The steps before a request writes are quiet.
LEMMA QuietSteps ==
    ASSUME TypeOK, LocalInv, NEW r \in Requests,
           \/ Start(r) \/ Stat(r) \/ Read(r) \/ Compare(r) \/ Recheck(r) \/ Verify(r)
           \/ Fail(r)
           \/ CreateFile(r) /\ file.live
    PROVE  Quiet(r)
<1>1. req[r] \in Request /\ (req[r].answer = "none" \/ At(r, "done"))
  BY DEF TypeOK, LocalInv, Consistent, At
<1>2. CASE Start(r)
  <2>1. PICK op \in Ops, id \in Ids \cup {None} :
          Become(r, [req[r] EXCEPT !.op = op, !.id = id, !.pc = "stat",
                          !.phase = IF op = "load" THEN "load" ELSE "policy"])
    BY <1>2 DEF Start
  <2> DEFINE new == [req[r] EXCEPT !.op = op, !.id = id, !.pc = "stat",
                          !.phase = IF op = "load" THEN "load" ELSE "policy"]
  <2>2. new \in Request /\ new.pc = "stat" /\ new.answer = "none"
    BY <1>1, <1>2 DEF Start, At, Request, Steps, Phases
  <2> QED
    BY <1>2, <2>1, <2>2 DEF Start, At, Quiet
<1>3. CASE Stat(r)
  BY <1>3, QuietMoves DEF Stat, At, Steps, Answers
<1>4. CASE Read(r)
  <2>1. file.doc \in Doc /\ r \in Ids
    BY DEF TypeOK, File, Ids
  <2>2. salts' \in Nat
    BY <1>4 DEF Read, TypeOK
  <2>3. /\ HashPassword(file.doc, salts') \in Doc
        /\ AddShare(file.doc, r) \in Doc
    BY <2>1, <2>2, RewrittenDocs
  <2>4. ~Unusable(r) /\ In(r, {"remove"})
            => DropShare(file.doc, req[r].id) \in Doc
    BY <2>1, RewrittenDocs DEF Unusable, Doc
  <2> QED
    BY <1>4, <2>1, <2>3, <2>4, QuietMoves DEF Read, At, Answers
<1>5. CASE Compare(r)
  BY <1>5, QuietMoves DEF Compare, At, Steps, Answers
<1>6. CASE Recheck(r)
  <2>1. ~At(r, "done") /\ req[r].pc \notin {"write", "sync", "unlink", "done"}
    BY <1>6 DEF Recheck, At
  <2>2. [req[r] EXCEPT !.pc = "rename", !.current = file.doc] \in Request
    <3>1. file.doc \in Doc
      BY DEF TypeOK, File
    <3> QED
      BY <1>1, <2>1, <3>1 DEF Request, Steps
  <2>3. CASE Become(r, [req[r] EXCEPT !.pc = "rename", !.current = file.doc])
    BY <1>1, <1>6, <2>1, <2>2, <2>3 DEF Recheck, Quiet, Request
  <2> QED
    BY <1>6, <2>1, <2>3, QuietMoves DEF Recheck
<1>7. CASE Verify(r)
  <2>1. req[r].op = "load"
    BY <1>7 DEF Verify, LocalInv, Consistent, At
  <2> QED
    BY <1>7, <2>1, QuietMoves DEF Verify, At, Answers
<1>8. CASE CreateFile(r) /\ file.live
  BY <1>8, QuietMoves DEF CreateFile, At
<1>9. CASE Fail(r)
  BY <1>9, QuietMoves DEF Fail, Answers
<1> QED
  BY <1>2, <1>3, <1>4, <1>5, <1>6, <1>7, <1>8, <1>9

\* What a quiet step of r does to any request.
LEMMA QuietEffect ==
    ASSUME TypeOK, NEW r \in Requests, Quiet(r), NEW q \in Requests
    PROVE  /\ q # r => req'[q] = req[q]
           /\ req'[r].pc \notin {"write", "sync", "unlink"}
           /\ req'[r].answer = "ok" => req'[r].op \in {"read", "load"}
BY DEF TypeOK, Quiet, Become

\* The steps that are not quiet, each with the state it leads its request to.
LEMMA LoudEffect ==
    ASSUME TypeOK, NEW r \in Requests
    PROVE  /\ \A step \in Steps : Goto(r, step) =>
                /\ req'[r].pc = step
                /\ req'[r].op = req[r].op
                /\ req'[r].id = req[r].id
                /\ req'[r].answer = req[r].answer
                /\ \A q \in Requests \ {r} : req'[q] = req[q]
           /\ \A a \in Answers : Finish(r, a) =>
                /\ req'[r].pc = "done"
                /\ req'[r].op = req[r].op
                /\ req'[r].id = req[r].id
                /\ req'[r].answer = a
                /\ \A q \in Requests \ {r} : req'[q] = req[q]
<1>1. req[r] \in Request /\ req \in [Requests -> Request]
  BY DEF TypeOK
<1>2. \A new : Become(r, new) =>
        req'[r] = new /\ \A q \in Requests \ {r} : req'[q] = req[q]
  BY <1>1 DEF Become
<1>3. ASSUME NEW step \in Steps, Goto(r, step)
      PROVE  /\ req'[r].pc = step
             /\ req'[r].op = req[r].op
             /\ req'[r].id = req[r].id
             /\ req'[r].answer = req[r].answer
             /\ \A q \in Requests \ {r} : req'[q] = req[q]
  BY <1>1, <1>2, <1>3 DEF Goto, Request
<1>4. ASSUME NEW a \in Answers, Finish(r, a)
      PROVE  /\ req'[r].pc = "done"
             /\ req'[r].op = req[r].op
             /\ req'[r].id = req[r].id
             /\ req'[r].answer = a
             /\ \A q \in Requests \ {r} : req'[q] = req[q]
  <2>1. req'[r] = Ended(r, a) /\ \A q \in Requests \ {r} : req'[q] = req[q]
    BY <1>2, <1>4 DEF Finish
  <2>2. /\ Ended(r, a).pc = "done"
        /\ Ended(r, a).op = req[r].op
        /\ Ended(r, a).id = req[r].id
        /\ Ended(r, a).answer = a
    BY <1>1 DEF Ended, Request
  <2> QED
    BY <2>1, <2>2
<1> QED
  BY <1>3, <1>4

\* The end of the process, for any request.
LEMMA StopEffect ==
    ASSUME TypeOK, Stop, NEW q \in Requests
    PROVE  \/ ~Running(q) /\ req'[q] = req[q]
           \/ /\ Running(q)
              /\ req'[q].pc = "done"
              /\ req'[q].op = req[q].op
              /\ req'[q].answer = "lost"
<1>1. req[q] \in Request
  BY DEF TypeOK
<1>2. req'[q] = IF Running(q) THEN Ended(q, "lost") ELSE req[q]
  BY DEF Stop
<1> QED
  BY <1>1, <1>2 DEF Request, Ended

\* Nobody writes to a file another request made, short of replacing it.
LEMMA OwnStep ==
    TypeOK /\ LocalInv /\ OwnInv /\ [Next]_vars => OwnInv'
<1> SUFFICES ASSUME TypeOK, LocalInv, OwnInv, [Next]_vars PROVE OwnInv'
  OBVIOUS
<1> USE EnvDocAssumption
<1>1. ASSUME NEW r \in Requests, Quiet(r) PROVE OwnInv'
  <2>1. UNCHANGED file
    BY <1>1 DEF Quiet
  <2> QED
    BY <1>1, <2>1, QuietEffect DEF OwnInv, At
<1>2. ASSUME NEW r \in Requests, Rename(r) PROVE OwnInv'
  BY <1>2 DEF Rename, FileOf, OwnInv
<1>3. ASSUME NEW r \in Requests, CreateFile(r), ~file.live PROVE OwnInv'
  <2>1. file' = [live |-> TRUE, doc |-> EmptyDoc, by |-> r] /\ Goto(r, "write")
    BY <1>3 DEF CreateFile
  <2>2. req'[r].pc = "write"
    BY <2>1, LoudEffect DEF Steps
  <2> QED
    BY <2>1, <2>2 DEF OwnInv, At
<1>4. ASSUME NEW r \in Requests, Write(r) PROVE OwnInv'
  <2>1. PICK d \in Prefixes(r) \cup {FirstShare(r)}, step \in {"sync", "unlink"} :
          /\ WriteOwn(r, d)
          /\ Goto(r, step)
          /\ step = "sync" => d = FirstShare(r)
    BY <1>4 DEF Write
  <2>2. /\ req'[r].pc = step
        /\ \A q \in Requests \ {r} : req'[q] = req[q]
    BY <2>1, LoudEffect DEF Steps
  <2>3. CASE file.by = r
    <3>1. file.live
      BY <2>3 DEF OwnInv, NoFile
    <3>2. file' = [file EXCEPT !.doc = d]
      BY <2>1, <2>3 DEF WriteOwn
    <3>3. file'.live /\ file'.doc = d /\ file'.by = r
      BY <2>3, <3>1, <3>2 DEF TypeOK, File
    <3> QED
      BY <2>1, <2>2, <3>3 DEF OwnInv, At
  <2>4. CASE file.by # r
    <3>1. UNCHANGED file
      BY <2>1, <2>4 DEF WriteOwn
    <3> QED
      BY <2>2, <2>4, <3>1 DEF OwnInv, At
  <2> QED
    BY <2>3, <2>4
<1>5. ASSUME NEW r \in Requests, Sync(r) PROVE OwnInv'
  <2>1. /\ req'[r].pc \in {"done", "unlink"}
        /\ \A q \in Requests \ {r} : req'[q] = req[q]
    BY <1>5, LoudEffect DEF Sync, Steps, Answers
  <2> QED
    BY <1>5, <2>1 DEF Sync, OwnInv, At
<1>6. ASSUME NEW r \in Requests, Unlink(r) PROVE OwnInv'
  BY <1>6 DEF Unlink, NoFile, OwnInv
<1>7. CASE Admin
  BY <1>7 DEF Admin, AdminSave, AdminRemove, FileOf, NoFile, OwnInv
<1>8. CASE Stop
  <2>1. UNCHANGED file /\ \A q \in Requests : req'[q] = req[q] \/ req'[q].pc = "done"
    BY <1>8, StopEffect DEF Stop
  <2> QED
    BY <2>1 DEF OwnInv, At
<1>9. CASE UNCHANGED vars
  BY <1>9 DEF vars, OwnInv, At
<1> QED
  BY <1>1, <1>2, <1>3, <1>4, <1>5, <1>6, <1>7, <1>8, <1>9, QuietSteps
  DEF Next, Serve, CreateFile

-----------------------------------------------------------------------------
(* Nothing is lost until two writers meet.                                 *)

\* The properties of EnvFile, without the condition on races.
Kept ==
    /\ PlacedInv
    /\ NoUpdateLost
    /\ \A r \in Requests :
        req[r].op = "create" /\ req[r].answer = "refused"
            => r \notin file.doc.shares \cup file.doc.broken
    /\ \A r \in file.doc.broken :
        r \in Requests /\ (At(r, "unlink") \/ req[r].answer = "lost")

\* A quiet step takes no request's share in or out of the file.
LEMMA KeptQuiet ==
    ASSUME TypeOK, LocalInv, Kept, NEW r \in Requests, Quiet(r)
    PROVE  Kept'
<1>1. UNCHANGED <<file, saved, gone, hardened>>
  BY DEF Quiet
<1>2. r \notin file.doc.shares \cup file.doc.broken \cup gone
  BY DEF Quiet, Kept, PlacedInv
<1>3. \A q \in Requests :
        /\ q # r => req'[q] = req[q]
        /\ req'[r].pc \notin {"write", "sync", "unlink"}
        /\ req'[r].answer = "ok" => req'[r].op \in {"read", "load"}
  BY QuietEffect
<1>4. PlacedInv'
  BY <1>1, <1>2, <1>3 DEF Kept, PlacedInv, At, Answered
<1>5. NoUpdateLost'
  BY <1>1, <1>3 DEF Kept, NoUpdateLost, CreatedKept, DeletedGone, SaveKept,
     HardenedKept, Answered
<1>6. (\A q \in Requests :
        req[q].op = "create" /\ req[q].answer = "refused"
            => q \notin file.doc.shares \cup file.doc.broken)'
  BY <1>1, <1>2, <1>3 DEF Kept
<1>7. (\A q \in file.doc.broken :
        q \in Requests /\ (At(q, "unlink") \/ req[q].answer = "lost"))'
  BY <1>1, <1>2, <1>3 DEF Kept, At
<1> QED
  BY <1>4, <1>5, <1>6, <1>7 DEF Kept

\* A rename that meets nobody publishes one update of the file as it stands.
LEMMA KeptRename ==
    ASSUME TypeOK, LocalInv, Kept, NEW r \in Requests, Rename(r), races' = {}
    PROVE  Kept'
<1>1. req[r] \in Request /\ Consistent(r, req[r]) /\ At(r, "rename")
  BY DEF TypeOK, LocalInv, Rename
<1>2. /\ file.doc = req[r].raw
      /\ file'.doc = req[r].updated
      /\ file.doc \in Doc
  BY <1>1 DEF Rename, Consistent, At, FileOf, TypeOK, File
<1>3. r \notin file.doc.shares \cup file.doc.broken \cup gone
  BY <1>1 DEF Kept, PlacedInv, At
<1>4. req[r].answer = "none"
  BY <1>1 DEF Consistent, At
<1>5. CASE In(r, {"policy", "safe", "load"})
  <2>1. /\ req'[r].pc \in {"stat", "verify"}
        /\ req'[r].answer = "none"
        /\ req'[r].op = req[r].op
        /\ \A q \in Requests \ {r} : req'[q] = req[q]
    BY <1>4, <1>5, LoudEffect DEF Rename, In, Steps
  <2>2. /\ req[r].updated.password.salt # 0
        /\ req[r].updated = HashPassword(file.doc, req[r].updated.password.salt)
    BY <1>1, <1>2, <1>5 DEF Consistent, At, In
  <2>3. /\ file'.doc.shares = file.doc.shares
        /\ file'.doc.broken = file.doc.broken
        /\ file'.doc.note = file.doc.note
        /\ file'.doc.password.salt # 0
    BY <1>2, <2>2 DEF HashPassword, Doc
  <2>4. UNCHANGED <<gone, saved>>
    BY <1>5 DEF Rename, In
  <2> QED
    BY <1>3, <2>1, <2>3, <2>4 DEF Kept, PlacedInv, NoUpdateLost, CreatedKept,
       DeletedGone, SaveKept, HardenedKept, IsPlain, Answered, At
<1>6. CASE In(r, {"append"})
  <2>1. /\ req'[r].pc = "done"
        /\ req'[r].answer = "ok"
        /\ req'[r].op = "create"
        /\ \A q \in Requests \ {r} : req'[q] = req[q]
    BY <1>1, <1>6, LoudEffect DEF Rename, Consistent, In, Answers
  <2>2. req[r].updated = AddShare(file.doc, r)
    BY <1>1, <1>2, <1>6 DEF Consistent, At, In
  <2>3. /\ file'.doc.shares = file.doc.shares \cup {r}
        /\ file'.doc.broken = file.doc.broken
        /\ file'.doc.note = file.doc.note
        /\ file'.doc.password = file.doc.password
    BY <1>2, <2>2 DEF AddShare, Doc
  <2>4. UNCHANGED <<gone, saved, hardened>>
    BY <1>6 DEF Rename, In, TypeOK
  <2> QED
    BY <1>3, <2>1, <2>3, <2>4 DEF Kept, PlacedInv, NoUpdateLost, CreatedKept,
       DeletedGone, SaveKept, HardenedKept, IsPlain, HasPassword, Answered, At
<1>7. CASE In(r, {"remove"})
  <2> DEFINE i == req[r].id
  <2>1. /\ req'[r].pc = "done"
        /\ req'[r].answer = "ok"
        /\ req'[r].op = "delete"
        /\ req'[r].id = i
        /\ \A q \in Requests \ {r} : req'[q] = req[q]
    BY <1>1, <1>7, LoudEffect DEF Rename, Consistent, In, Answers
  <2>2. /\ i \in file.doc.shares \cup file.doc.broken
        /\ req[r].updated = DropShare(file.doc, i)
    BY <1>1, <1>2, <1>7 DEF Consistent, At, In
  <2>3. /\ file'.doc.shares = file.doc.shares \ {i}
        /\ file'.doc.broken = file.doc.broken \ {i}
        /\ file'.doc.note = file.doc.note
        /\ file'.doc.password = file.doc.password
    BY <1>2, <2>2 DEF DropShare, Doc
  <2>4. gone' = gone \cup {i} /\ UNCHANGED <<saved, hardened>>
    BY <1>7 DEF Rename, In, TypeOK
  <2> HIDE DEF i
  <2>5. PlacedInv'
    BY <1>3, <2>1, <2>2, <2>3, <2>4 DEF Kept, PlacedInv, Answered, At
  <2>6. CreatedKept' /\ SaveKept' /\ HardenedKept'
    BY <2>1, <2>3, <2>4 DEF Kept, NoUpdateLost, CreatedKept, SaveKept,
       HardenedKept, IsPlain, HasPassword, Answered
  <2>7. DeletedGone'
    BY <2>5 DEF PlacedInv, DeletedGone
  <2> QED
    BY <1>3, <2>1, <2>3, <2>5, <2>6, <2>7 DEF Kept, NoUpdateLost, At
<1> QED
  BY <1>1, <1>5, <1>6, <1>7 DEF Request, Phases, In

\* The first share of a directory: its file appears, is written, stays.
LEMMA KeptCreate ==
    ASSUME TypeOK, LocalInv, OwnInv, Kept, NEW r \in Requests, races' = {},
           \/ CreateFile(r) /\ ~file.live
           \/ Write(r)
           \/ Sync(r)
    PROVE  Kept'
<1> USE EnvDocAssumption
<1>1. req[r] \in Request /\ Consistent(r, req[r])
  BY DEF TypeOK, LocalInv
<1>2. req[r].answer = "none" /\ req[r].op = "create"
  BY <1>1 DEF Consistent, CreateFile, Write, Sync, At
<1>3. CASE CreateFile(r) /\ ~file.live
  <2>1. file.doc = EmptyDoc /\ file'.doc = EmptyDoc
    BY <1>3 DEF CreateFile, OwnInv, NoFile
  <2>2. /\ req'[r].pc = "write"
        /\ req'[r].answer = "none"
        /\ \A q \in Requests \ {r} : req'[q] = req[q]
    BY <1>2, <1>3, LoudEffect DEF CreateFile, Steps
  <2>3. UNCHANGED <<gone, saved, hardened>> /\ req[r].pc = "create"
    BY <1>3 DEF CreateFile, At
  <2> QED
    BY <2>1, <2>2, <2>3 DEF Kept, PlacedInv, NoUpdateLost, CreatedKept,
       DeletedGone, SaveKept, HardenedKept, Answered, At
<1>4. CASE Write(r)
  <2>1. PICK d \in Prefixes(r) \cup {FirstShare(r)}, step \in {"sync", "unlink"} :
          /\ WriteOwn(r, d)
          /\ Goto(r, step)
          /\ \/ step = "sync" /\ d = FirstShare(r)
             \/ step = "unlink" /\ d \in Prefixes(r)
    BY <1>4 DEF Write
  <2>2. /\ req'[r].pc = step
        /\ req'[r].answer = "none"
        /\ req'[r].op = "create"
        /\ \A q \in Requests \ {r} : req'[q] = req[q]
    BY <1>2, <2>1, LoudEffect DEF Steps
  <2>3. file.doc = EmptyDoc /\ file'.doc = d
    BY <1>4, <2>1 DEF Write, WriteOwn, OwnInv, TypeOK, File
  <2>4. /\ d.note = 0
        /\ ~HasPassword(d)
        /\ step = "sync" => d.shares = {r} /\ d.broken = {}
        /\ step = "unlink" => d.shares = {} /\ d.broken \subseteq {r}
    BY <2>1, FirstShareFields, PrefixFields DEF HasPassword, NoPassword
  <2>5. EmptyDoc.shares = {} /\ EmptyDoc.broken = {} /\ EmptyDoc.note = 0
    BY DEF EmptyDoc
  <2>6. UNCHANGED <<gone, saved, hardened>> /\ req[r].pc = "write"
    BY <1>4 DEF Write, At
  <2>7. r \notin gone
    BY <2>6 DEF Kept, PlacedInv
  <2>8. PlacedInv'
    BY <2>2, <2>3, <2>4, <2>5, <2>6, <2>7 DEF Kept, PlacedInv, Answered, At
  <2>9. NoUpdateLost'
    <3>1. CreatedKept'
      BY <2>2, <2>3, <2>5, <2>6 DEF Kept, NoUpdateLost, CreatedKept, Answered
    <3>2. DeletedGone'
      BY <2>8 DEF PlacedInv, DeletedGone
    <3> QED
      BY <2>3, <2>4, <2>5, <2>6, <3>1, <3>2
      DEF Kept, NoUpdateLost, SaveKept, HardenedKept, IsPlain
  <2> QED
    BY <2>2, <2>3, <2>4, <2>8, <2>9 DEF Kept, At
<1>5. CASE Sync(r)
  <2>1. /\ UNCHANGED <<file, gone, saved, hardened>>
        /\ req[r].pc = "sync"
    BY <1>5 DEF Sync, At
  <2>2. /\ \/ req'[r].pc = "done" /\ req'[r].answer = "ok"
           \/ req'[r].pc = "unlink" /\ req'[r].answer = "none"
        /\ req'[r].op = "create"
        /\ \A q \in Requests \ {r} : req'[q] = req[q]
    BY <1>2, <1>5, LoudEffect DEF Sync, Steps, Answers
  <2>3. r \in file.doc.shares \cup gone /\ r \notin file.doc.broken
    BY <1>2, <2>1 DEF Kept, PlacedInv, At
  <2> QED
    BY <2>1, <2>2, <2>3 DEF Kept, PlacedInv, NoUpdateLost, CreatedKept,
       DeletedGone, SaveKept, HardenedKept, Answered, At
<1> QED
  BY <1>3, <1>4, <1>5

\* A removal by the creator that meets nobody takes away its own share only.
LEMMA KeptUnlink ==
    ASSUME TypeOK, LocalInv, OwnInv, Kept, NEW r \in Requests, Unlink(r),
           races' = {}
    PROVE  Kept'
<1>1. req[r].pc = "unlink" /\ req[r].op = "create"
  BY DEF Unlink, At, LocalInv, Consistent
<1>2. /\ req'[r].pc = "done"
      /\ req'[r].answer = "refused"
      /\ req'[r].op = "create"
      /\ \A q \in Requests \ {r} : req'[q] = req[q]
  BY <1>1, LoudEffect DEF Unlink, Answers
<1>3. file.doc.shares \subseteq {r} /\ file.doc.note = 0
  <2>1. CASE ~file.live
    BY <2>1 DEF OwnInv, NoFile, EmptyDoc
  <2>2. CASE file.by = r
    <3>1. file.doc \in Prefixes(r) \cup {FirstShare(r)}
      BY <1>1, <2>2 DEF OwnInv, At
    <3> QED
      BY <3>1, FirstShareFields, PrefixFields
  <2> QED
    BY <2>1, <2>2 DEF Unlink
<1>4. file'.doc = EmptyDoc /\ UNCHANGED <<gone, saved, hardened>>
  BY DEF Unlink, NoFile
<1>5. /\ EmptyDoc.shares = {} /\ EmptyDoc.broken = {} /\ EmptyDoc.note = 0
      /\ ~IsPlain(EmptyDoc)
  BY DEF EmptyDoc, NoPassword, IsPlain, HasPassword
<1> QED
  BY <1>1, <1>2, <1>3, <1>4, <1>5 DEF Kept, PlacedInv, NoUpdateLost, CreatedKept,
     DeletedGone, SaveKept, HardenedKept, Answered, At

\* The administrator's saves and the end of the process.
LEMMA KeptOutside ==
    ASSUME TypeOK, LocalInv, OwnInv, Kept, Admin \/ Stop
    PROVE  Kept'
<1>1. ASSUME NEW d \in AdminDocs, AdminSave(d) PROVE Kept'
  <2>1. d \in Doc
    BY SavedDocs
  <2>2. d.broken = {} /\ d.shares \subseteq file.doc.shares
    <3>1. file.doc \in Doc
      BY DEF TypeOK, File
    <3> DEFINE mended == [file.doc EXCEPT !.broken = {}, !.garbled = FALSE]
    <3>2. mended \in Doc /\ mended.broken = {} /\ mended.shares = file.doc.shares
      BY <3>1 DEF Doc
    <3> HIDE DEF mended
    <3>3. CASE \E s \in Secrets :
                d = [mended EXCEPT !.password = [secret |-> s, salt |-> 0]]
      BY <3>2, <3>3 DEF Doc
    <3>4. CASE \E b \in {"true", "false"} : d = [mended EXCEPT !.switch = b]
      BY <3>2, <3>4 DEF Doc
    <3>5. CASE \E i \in file.doc.shares : d = DropShare(mended, i)
      BY <3>2, <3>5 DEF Doc, DropShare
    <3> QED
      BY <3>3, <3>4, <3>5 DEF AdminDocs, mended
  <2>3. /\ file'.doc.shares = d.shares
        /\ file'.doc.broken = {}
        /\ file'.doc.password = d.password
        /\ file'.doc.note = saved'
    BY <1>1, <2>1, <2>2 DEF AdminSave, FileOf, Doc
  <2>4. gone' = gone \cup (file.doc.shares \ d.shares)
    BY <1>1 DEF AdminSave, OwnInv, NoFile, EmptyDoc
  <2>5. /\ UNCHANGED req
        /\ hardened' => hardened /\ d.password = file.doc.password
    BY <1>1 DEF AdminSave, TypeOK
  <2>6. PlacedInv'
    BY <2>2, <2>3, <2>4, <2>5 DEF Kept, PlacedInv, Answered, At
  <2>7. CreatedKept' /\ SaveKept' /\ HardenedKept'
    BY <2>2, <2>3, <2>4, <2>5 DEF Kept, NoUpdateLost, CreatedKept, SaveKept,
       HardenedKept, IsPlain, HasPassword, Answered
  <2>8. DeletedGone'
    BY <2>6 DEF PlacedInv, DeletedGone
  <2> QED
    BY <2>2, <2>3, <2>5, <2>6, <2>7, <2>8 DEF Kept, NoUpdateLost
<1>2. CASE AdminRemove
  <2>1. /\ file'.doc = EmptyDoc
        /\ gone' = gone \cup file.doc.shares
        /\ saved' = 0
        /\ hardened' = FALSE
        /\ UNCHANGED req
    BY <1>2 DEF AdminRemove, NoFile
  <2>2. EmptyDoc.shares = {} /\ EmptyDoc.broken = {} /\ EmptyDoc.note = 0
    BY DEF EmptyDoc
  <2> QED
    BY <2>1, <2>2 DEF Kept, PlacedInv, NoUpdateLost, CreatedKept,
       DeletedGone, SaveKept, HardenedKept, Answered, At
<1>3. CASE Stop
  <2>1. UNCHANGED <<file, gone, saved, hardened>>
    BY <1>3 DEF Stop
  <2>2. \A q \in Requests :
          \/ req'[q] = req[q]
          \/ /\ req[q].pc # "done"
             /\ req'[q].pc = "done"
             /\ req'[q].op = req[q].op
             /\ req'[q].answer = "lost"
    BY <1>3, StopEffect DEF Running
  <2> QED
    BY <2>1, <2>2 DEF Kept, PlacedInv, NoUpdateLost, CreatedKept,
       DeletedGone, SaveKept, HardenedKept, Answered, At
<1> QED
  BY <1>1, <1>2, <1>3 DEF Admin

\* Once two writers have met, they have met.
LEMMA RacesStay == [Next]_vars /\ races' = {} => races = {}
BY DEF Next, Serve, Start, Stat, Read, Compare, Recheck, Rename, Verify, Fail,
   CreateFile, Write, WriteOwn, Sync, Unlink, Admin, AdminSave, AdminRemove, Stop, vars

\* Every step keeps what the updates promise, as long as no two writers meet.
LEMMA KeptStep ==
    TypeOK /\ LocalInv /\ OwnInv /\ (races = {} => Kept) /\ [Next]_vars
        => (races = {} => Kept)'
<1> SUFFICES ASSUME TypeOK, LocalInv, OwnInv, races = {} => Kept, [Next]_vars,
                    races' = {}
             PROVE  Kept'
  OBVIOUS
<1>1. Kept
  BY RacesStay
<1>2. CASE UNCHANGED vars
  BY <1>1, <1>2 DEF vars, Kept, PlacedInv, NoUpdateLost, CreatedKept,
     DeletedGone, SaveKept, HardenedKept, Answered, At
<1> QED
  BY <1>1, <1>2, QuietSteps, KeptQuiet, KeptRename, KeptCreate, KeptUnlink, KeptOutside
  DEF Next, Serve, CreateFile

\* Nothing is lost, refused or half written before the first request.
LEMMA KeptInit == Init => OwnInv /\ Kept
<1> SUFFICES ASSUME Init PROVE OwnInv /\ Kept
  OBVIOUS
<1> USE EnvDocAssumption
<1>1. file.by = None /\ file.doc.broken = {} /\ file.doc.note = 0 /\ file.doc.shares \subseteq Seeds
  BY DEF Init, NoFile, FileOf, InitialDocs, EmptyDoc
<1>2. ~file.live => file = NoFile
  BY DEF Init, FileOf
<1>3. \A r \in Requests : req[r].pc = "new" /\ req[r].op = "read" /\ req[r].answer = "none"
  BY DEF Init, Idle
<1> QED
  BY <1>1, <1>2, <1>3 DEF Init, OwnInv, Kept, PlacedInv, NoUpdateLost, CreatedKept,
     DeletedGone, SaveKept, HardenedKept, Answered, At

-----------------------------------------------------------------------------
(* Sizes.                                                                  *)

\* The groups of a document are finitely many, and its size is a number.
LEMMA Sized ==
    ASSUME NEW d \in Doc
    PROVE  /\ IsFiniteSet(d.shares \cup d.broken)
           /\ Cardinality(d.shares \cup d.broken) \in Nat
           /\ Size(d) \in Nat
<1>1. IsFiniteSet(Ids)
  BY EnvFileAssumption, FS_Union DEF Ids
<1>2. d.shares \cup d.broken \in SUBSET Ids
  BY DEF Doc
<1>3. IsFiniteSet(d.shares \cup d.broken)
  BY <1>1, <1>2, FS_Subset
<1>4. Cardinality(d.shares \cup d.broken) \in Nat
  BY <1>3, FS_CardinalityType
<1> QED
  BY <1>3, <1>4 DEF Size

\* Fewer groups and no new hash are no larger.
LEMMA Smaller ==
    ASSUME NEW d \in Doc, NEW e \in Doc,
           e.shares \cup e.broken \subseteq d.shares \cup d.broken,
           HasPassword(e) /\ ~IsPlain(e) => HasPassword(d) /\ ~IsPlain(d)
    PROVE  Size(e) <= Size(d)
<1>1. Cardinality(e.shares \cup e.broken) <= Cardinality(d.shares \cup d.broken)
  BY Sized, FS_Subset
<1> QED
  BY <1>1, Sized DEF Size

\* Removing a share leaves a readable document readable.
LEMMA DropParses ==
    ASSUME NEW d \in Doc, NEW i \in Ids, Parses(d)
    PROVE  Parses(DropShare(d, i))
<1>1. DropShare(d, i) \in Doc
  BY RewrittenDocs
<1>2. /\ DropShare(d, i).shares = d.shares \ {i}
      /\ DropShare(d, i).broken = d.broken \ {i}
      /\ DropShare(d, i).garbled = d.garbled
      /\ DropShare(d, i).password = d.password
  BY DEF DropShare, Doc
<1>3. Size(DropShare(d, i)) <= Size(d)
  BY <1>1, <1>2, Smaller DEF HasPassword, IsPlain
<1>4. ~d.garbled /\ Size(d) <= MaxSize
  BY DEF Parses
<1>5. Size(d) \in Nat /\ Size(DropShare(d, i)) \in Nat /\ MaxSize \in Nat
  BY <1>1, Sized, EnvDocAssumption
<1>6. Size(DropShare(d, i)) <= MaxSize
  BY <1>3, <1>4, <1>5
<1>7. ~DropShare(d, i).garbled
  BY <1>2, <1>4, Zenon
<1> QED
  BY <1>6, <1>7 DEF Parses

\* An empty document can be read, and so can one with a single share.
LEMMA FirstParses ==
    /\ Parses(EmptyDoc)
    /\ \A i \in Ids : Parses(FirstShare(i))
<1>1. Size(EmptyDoc) = 0
  BY FS_EmptySet DEF Size, EmptyDoc, HasPassword, NoPassword
<1>2. Parses(EmptyDoc)
  BY <1>1, EnvDocAssumption DEF Parses, EmptyDoc
<1>3. ASSUME NEW i \in Ids PROVE Parses(FirstShare(i))
  <2>1. ~HasPassword(FirstShare(i)) /\ FirstShare(i).shares \cup FirstShare(i).broken = {i}
    BY FirstShareFields DEF HasPassword, NoPassword
  <2>2. Size(FirstShare(i)) = 1
    <3>1. Cardinality({i}) = 1
      BY FS_Singleton, Zenon
    <3>2. Size(FirstShare(i)) = Cardinality({i}) + 0
      BY <2>1, Zenon DEF Size
    <3> QED
      BY <3>1, <3>2
  <2>3. ~FirstShare(i).garbled
    BY DEF FirstShare, AddShare, EmptyDoc
  <2> QED
    BY <2>2, <2>3, EnvDocAssumption DEF Parses
<1> QED
  BY <1>2, <1>3

\* No save of the administrator makes a readable file unreadable.
LEMMA SavesParse ==
    ASSUME TypeOK, Parses(file.doc), NEW d \in AdminDocs
    PROVE  Parses(d)
<1> DEFINE mended == [file.doc EXCEPT !.broken = {}, !.garbled = FALSE]
<1>1. file.doc \in Doc
  BY DEF TypeOK, File
<1>2. /\ mended \in Doc
      /\ mended.shares = file.doc.shares
      /\ mended.broken = {}
      /\ ~mended.garbled
      /\ mended.password = file.doc.password
  BY <1>1 DEF Doc
<1> HIDE DEF mended
<1>3. ASSUME NEW e \in Doc, e.shares = mended.shares, e.broken = {}, ~e.garbled,
             e.password = mended.password \/ e.password.salt = 0
      PROVE  Parses(e)
  <2>1. HasPassword(e) /\ ~IsPlain(e) => HasPassword(file.doc) /\ ~IsPlain(file.doc)
    BY <1>2, <1>3 DEF HasPassword, IsPlain
  <2>2. Size(e) <= Size(file.doc)
    BY <1>1, <1>2, <1>3, <2>1, Smaller
  <2>3. Size(file.doc) <= MaxSize
    BY DEF Parses
  <2>4. Size(e) \in Nat /\ Size(file.doc) \in Nat /\ MaxSize \in Nat
    BY <1>1, <1>3, Sized, EnvDocAssumption
  <2>5. Size(e) <= MaxSize
    BY <2>2, <2>3, <2>4
  <2> QED
    BY <1>3, <2>5 DEF Parses
<1>4. Parses(mended)
  BY <1>2, <1>3
<1>5. ASSUME NEW s \in Secrets
      PROVE  Parses([mended EXCEPT !.password = [secret |-> s, salt |-> 0]])
  <2> DEFINE e == [mended EXCEPT !.password = [secret |-> s, salt |-> 0]]
  <2>1. /\ e \in Doc
        /\ e.shares = mended.shares
        /\ e.broken = mended.broken
        /\ e.garbled = mended.garbled
        /\ e.password.salt = 0
    BY <1>2 DEF Doc, Password
  <2> QED
    BY <1>2, <1>3, <2>1
<1>6. ASSUME NEW b \in {"true", "false"} PROVE Parses([mended EXCEPT !.switch = b])
  <2> DEFINE e == [mended EXCEPT !.switch = b]
  <2>1. /\ e \in Doc
        /\ e.shares = mended.shares
        /\ e.broken = mended.broken
        /\ e.garbled = mended.garbled
        /\ e.password = mended.password
    BY <1>2 DEF Doc
  <2> QED
    BY <1>2, <1>3, <2>1
<1>7. ASSUME NEW i \in file.doc.shares PROVE Parses(DropShare(mended, i))
  BY <1>1, <1>2, <1>4, DropParses DEF Doc
<1> QED
  BY <1>5, <1>6, <1>7 DEF AdminDocs, mended

\* The number of an administrator's save says nothing about the size.
LEMMA NoteParses ==
    ASSUME NEW d \in Doc, NEW n \in Nat, Parses(d)
    PROVE  Parses([d EXCEPT !.note = n])
<1> DEFINE e == [d EXCEPT !.note = n]
<1>1. /\ e.shares = d.shares
      /\ e.broken = d.broken
      /\ e.garbled = d.garbled
      /\ e.password = d.password
  BY DEF Doc
<1> HIDE DEF e
<1>2. Parses(e)
  BY <1>1 DEF Parses, Size, HasPassword, IsPlain
<1> QED
  BY <1>2 DEF e

\* What one request's step does to the local states: at most its own changes.
LEMMA BecomeEffect ==
    ASSUME TypeOK, NEW r \in Requests, NEW new, Become(r, new)
    PROVE  /\ req'[r] = new
           /\ \A q \in Requests \ {r} : req'[q] = req[q]
BY DEF TypeOK, Become

\* What a request is to replace it has read and measured, in every step.
LEMMA MeasuredStep == TypeOK /\ LocalInv /\ MeasuredInv /\ [Next]_vars => MeasuredInv'
<1> SUFFICES ASSUME TypeOK, LocalInv, MeasuredInv, [Next]_vars PROVE MeasuredInv'
  OBVIOUS
<1> DEFINE Fits(q) == q.pc \in {"compare", "recheck", "rename"} =>
                        /\ Parses(q.raw)
                        /\ q.phase = "append" => Size(q.updated) <= MaxSize
<1>0. \A r \in Requests : req[r] \in Request /\ Fits(req[r])
  BY DEF TypeOK, MeasuredInv, In
<1>1. ASSUME NEW r \in Requests, NEW new, Become(r, new), Fits(new), UNCHANGED edits
      PROVE  MeasuredInv'
  <2>1. \A q \in Requests : Fits(req'[q])
    BY <1>0, <1>1, BecomeEffect
  <2> QED
    BY <1>1, <2>1 DEF MeasuredInv, In
<1>2. ASSUME NEW r \in Requests, NEW step \in Steps \ {"compare", "recheck", "rename"},
             Goto(r, step), UNCHANGED edits
      PROVE  MeasuredInv'
  BY <1>0, <1>1, <1>2 DEF Goto, Request
<1>3. ASSUME NEW r \in Requests, NEW a, Finish(r, a), UNCHANGED edits
      PROVE  MeasuredInv'
  BY <1>0, <1>1, <1>3 DEF Finish, Ended, Request
<1>4. ASSUME NEW r \in Requests, Retry(r), UNCHANGED edits PROVE MeasuredInv'
  <2>1. [req[r] EXCEPT !.tries = 1, !.pc = "stat"].pc = "stat"
    BY <1>0 DEF Request
  <2> QED
    BY <1>1, <1>3, <1>4, <2>1 DEF Retry
<1>5. ASSUME NEW r \in Requests, NEW p, Enter(r, p), UNCHANGED edits PROVE MeasuredInv'
  <2>1. [req[r] EXCEPT !.phase = p, !.pc = "stat", !.tries = 0].pc = "stat"
    BY <1>0 DEF Request
  <2> QED
    BY <1>1, <1>5, <2>1 DEF Enter
<1>6. ASSUME NEW r \in Requests, Resolved(r), UNCHANGED edits PROVE MeasuredInv'
  BY <1>3, <1>5, <1>6 DEF Resolved
<1>7. ASSUME NEW r \in Requests, Unequal(r), UNCHANGED edits PROVE MeasuredInv'
  BY <1>3, <1>4, <1>7 DEF Unequal
<1>10. ASSUME NEW r \in Requests, Start(r) PROVE MeasuredInv'
  <2>1. PICK op \in Ops, id \in Ids \cup {None} :
          Become(r, [req[r] EXCEPT !.op = op, !.id = id, !.pc = "stat",
                          !.phase = IF op = "load" THEN "load" ELSE "policy"])
    BY <1>10 DEF Start
  <2>2. [req[r] EXCEPT !.op = op, !.id = id, !.pc = "stat",
                 !.phase = IF op = "load" THEN "load" ELSE "policy"].pc = "stat"
    BY <1>0 DEF Request
  <2> QED
    BY <1>1, <1>10, <2>1, <2>2 DEF Start
<1>11. ASSUME NEW r \in Requests, Stat(r) PROVE MeasuredInv'
  BY <1>2, <1>3, <1>6, <1>11 DEF Stat, Steps
<1>12. ASSUME NEW r \in Requests, Read(r) PROVE MeasuredInv'
  <2>1. ASSUME NEW new, Rewrite(r, file.doc, new), Parses(file.doc),
               In(r, {"append"}) => Size(new) <= MaxSize, UNCHANGED edits
        PROVE  MeasuredInv'
    <3> DEFINE q == [req[r] EXCEPT !.pc = "compare", !.raw = file.doc, !.updated = new]
    <3>1. /\ q.raw = file.doc
          /\ q.updated = new
          /\ q.phase = req[r].phase
      BY <1>0 DEF Request
    <3>2. Become(r, q)
      BY <2>1 DEF Rewrite
    <3> HIDE DEF q
    <3>3. Fits(q)
      <4>1. Parses(q.raw)
        BY <2>1, <3>1
      <4>2. q.phase = "append" => Size(q.updated) <= MaxSize
        BY <2>1, <3>1 DEF In
      <4> QED
        BY <4>1, <4>2
    <3> QED
      BY <1>1, <2>1, <3>2, <3>3
  <2>2. CASE Unusable(r) /\ Finish(r, "refused")
    BY <1>3, <1>12, <2>2 DEF Read
  <2>3. CASE In(r, {"policy", "safe", "load"}) /\ Resolved(r)
    BY <1>6, <1>12, <2>3 DEF Read
  <2>4. ASSUME NEW new, ~Unusable(r), Rewrite(r, file.doc, new),
               In(r, {"append"}) => new = AddShare(file.doc, r)
        PROVE  MeasuredInv'
    <3>1. file.doc \in Doc /\ r \in Ids
      BY DEF TypeOK, File, Ids
    <3>2. Size(AddShare(file.doc, r)) \in Nat /\ MaxSize \in Nat
      BY <3>1, RewrittenDocs, Sized, EnvDocAssumption
    <3>3. /\ Parses(file.doc)
          /\ In(r, {"append"}) => ~(Size(AddShare(file.doc, r)) > MaxSize)
      BY <2>4 DEF Unusable
    <3>4. In(r, {"append"}) => Size(new) <= MaxSize
      BY <2>4, <3>2, <3>3
    <3>5. UNCHANGED edits
      BY <1>12 DEF Read
    <3> QED
      BY <2>1, <2>4, <3>3, <3>4, <3>5
  <2>5. In(r, {"policy", "safe", "load"}) \/ In(r, {"remove"}) => ~In(r, {"append"})
    BY DEF In
  <2> QED
    BY <1>12, <2>2, <2>3, <2>4, <2>5 DEF Read
<1>13. ASSUME NEW r \in Requests, Compare(r) PROVE MeasuredInv'
  <2>1. Goto(r, "recheck") => MeasuredInv'
    <3>1. Fits([req[r] EXCEPT !.pc = "recheck"])
      BY <1>0, <1>13 DEF Compare, At, Request
    <3> QED
      BY <1>1, <1>13, <3>1 DEF Goto, Compare
  <2> QED
    BY <1>7, <1>13, <2>1 DEF Compare
<1>14. ASSUME NEW r \in Requests, Recheck(r) PROVE MeasuredInv'
  <2>1. Fits([req[r] EXCEPT !.pc = "rename", !.current = file.doc])
    BY <1>0, <1>14 DEF Recheck, At, Request
  <2> QED
    BY <1>1, <1>7, <1>14, <2>1 DEF Recheck
<1>15. ASSUME NEW r \in Requests, Rename(r) PROVE MeasuredInv'
  BY <1>2, <1>3, <1>15 DEF Rename, Steps
<1>16. ASSUME NEW r \in Requests, Verify(r) \/ Fail(r) \/ Unlink(r) PROVE MeasuredInv'
  BY <1>3, <1>16 DEF Verify, Fail, Unlink
<1>17. ASSUME NEW r \in Requests, CreateFile(r) PROVE MeasuredInv'
  BY <1>2, <1>4, <1>17 DEF CreateFile, Steps
<1>18. ASSUME NEW r \in Requests, Write(r) \/ Sync(r) PROVE MeasuredInv'
  BY <1>2, <1>3, <1>18 DEF Write, Sync, Steps
<1>19. CASE Admin
  <2>1. req' = req /\ edits < MaxEdits /\ edits' = edits + 1
    BY <1>19, Zenon DEF Admin, AdminSave, AdminRemove
  <2>2. edits' <= MaxEdits
    BY <2>1, EnvFileAssumption DEF TypeOK
  <2> QED
    BY <2>1, <2>2 DEF MeasuredInv, In
<1>20. CASE Stop
  <2>1. \A r \in Requests : Fits(Ended(r, "lost"))
    BY <1>0 DEF Ended, Request
  <2>2. \A r \in Requests : Fits(req'[r])
    BY <1>0, <1>20, <2>1 DEF Stop
  <2> QED
    BY <1>20, <2>2 DEF Stop, MeasuredInv, In
<1>21. CASE UNCHANGED vars
  BY <1>21 DEF vars, MeasuredInv, In
<1> QED
  BY <1>10, <1>11, <1>12, <1>13, <1>14, <1>15, <1>16, <1>17, <1>18, <1>19, <1>20,
     <1>21 DEF Next, Serve

\* Nothing has been read before the first request.
LEMMA MeasuredInit == Init => MeasuredInv
BY EnvFileAssumption DEF Init, MeasuredInv, Idle

\* What the promises about lost updates rest on, for any sets of requests and shares.
Steady == TypeOK /\ LocalInv /\ OwnInv /\ (races = {} => Kept)

LEMMA StaysSteady == Spec => []Steady
<1>1. Init => Steady
  BY TypeInit, LocalInit, KeptInit DEF Steady
<1>2. Steady /\ [Next]_vars => Steady'
  BY TypeStep, LocalStep, OwnStep, KeptStep DEF Steady
<1> QED
  BY <1>1, <1>2, PTL DEF Spec

\* The invariant of the runs is inductive.
THEOREM Inductive == Spec => []IInv
<1>1. Init => MeasuredInv
  BY MeasuredInit
<1>2. Steady /\ MeasuredInv /\ [Next]_vars => MeasuredInv'
  BY MeasuredStep DEF Steady
<1>3. Steady /\ MeasuredInv => IInv
  BY DEF Steady, IInv, Kept, LostOnlyByRace, RefusedLeavesNothing, HalfWrittenOnlyBriefly
<1> QED
  BY <1>1, <1>2, <1>3, StaysSteady, PTL DEF Spec

\* For any number of requests, shares and saves: a created share, a deletion, a
\* migrated password or the administrator's last save is lost only after two
\* writers of the file met between a check and its use.
THEOREM NothingLostQuietly == Spec => []LostOnlyByRace
<1>1. Steady => LostOnlyByRace
  BY DEF Steady, Kept, LostOnlyByRace
<1> QED
  BY <1>1, StaysSteady, PTL

\* A refused creation leaves no trace in the file, whichever step of it failed.
THEOREM NothingLeftBehind == Spec => []RefusedLeavesNothing
<1>1. Steady => RefusedLeavesNothing
  BY DEF Steady, Kept, RefusedLeavesNothing
<1> QED
  BY <1>1, StaysSteady, PTL

\* Half a share is seen only in the file of a creator that is about to remove it
\* or that ended with the process.
THEOREM HalvesAreBrief == Spec => []HalfWrittenOnlyBriefly
<1>1. Steady => HalfWrittenOnlyBriefly
  BY DEF Steady, Kept, HalfWrittenOnlyBriefly
<1> QED
  BY <1>1, StaysSteady, PTL

-----------------------------------------------------------------------------
(* Files that can be read.                                                 *)

\* What may make a readable file unreadable: a migration's hash or a short write.
Outgrown ==
    \E r \in Requests :
        \/ /\ Rename(r)
           /\ IsPlain(req[r].raw)
           /\ file'.doc = HashPassword(req[r].raw, req[r].updated.password.salt)
        \/ Write(r) /\ file'.doc \in Prefixes(r)

\* A rename of anything but a hash keeps the file readable: what it adds or drops
\* was measured when it was read, and is the same document still.
LEMMA RenameReadable ==
    ASSUME TypeOK, LocalInv, MeasuredInv, NEW r \in Requests, Rename(r)
    PROVE  Parses(file'.doc) \/ Outgrown
<1>1. req[r] \in Request /\ Consistent(r, req[r]) /\ req[r].pc = "rename"
  BY DEF TypeOK, LocalInv, Rename, At
<1>2. file'.doc = req[r].updated
  BY DEF Rename, FileOf
<1>3. Parses(req[r].raw) /\ req[r].raw \in Doc
  BY <1>1 DEF MeasuredInv, Request
<1>4. CASE req[r].phase \in {"policy", "safe", "load"}
  <2>1. /\ IsPlain(req[r].raw)
        /\ req[r].updated = HashPassword(req[r].raw, req[r].updated.password.salt)
    BY <1>1, <1>4 DEF Consistent
  <2> QED
    BY <1>2, <2>1 DEF Outgrown
<1>5. CASE req[r].phase = "append"
  <2>1. req[r].updated = AddShare(req[r].raw, r) /\ Size(req[r].updated) <= MaxSize
    BY <1>1, <1>5 DEF Consistent, MeasuredInv, In
  <2>2. ~req[r].raw.garbled
    BY <1>3 DEF Parses
  <2>3. AddShare(req[r].raw, r).garbled = req[r].raw.garbled
    BY <1>3 DEF AddShare, Doc
  <2>4. ~req[r].updated.garbled
    BY <2>1, <2>2, <2>3, Zenon
  <2> QED
    BY <1>2, <2>1, <2>4 DEF Parses
<1>6. CASE req[r].phase = "remove"
  <2>1. /\ req[r].id \in Ids
        /\ req[r].updated = DropShare(req[r].raw, req[r].id)
    BY <1>1, <1>3, <1>6 DEF Consistent, Doc
  <2> QED
    BY <1>2, <1>3, <2>1, DropParses
<1> QED
  BY <1>1, <1>4, <1>5, <1>6 DEF Request, Phases

\* No other step writes a document that cannot be read.
LEMMA ReadableStep ==
    ASSUME TypeOK, LocalInv, MeasuredInv, OwnInv, Next, Parses(file.doc)
    PROVE  Parses(file'.doc) \/ Outgrown
<1>1. ASSUME NEW r \in Requests, Start(r) \/ Serve(r)
      PROVE  Parses(file'.doc) \/ Outgrown
  <2>1. CASE UNCHANGED file
    BY <2>1
  <2>2. CASE Rename(r)
    BY <2>2, RenameReadable
  <2>3. CASE CreateFile(r) /\ file' = [live |-> TRUE, doc |-> EmptyDoc, by |-> r]
    BY <2>3, FirstParses
  <2>4. ASSUME NEW d \in Prefixes(r) \cup {FirstShare(r)}, Write(r), WriteOwn(r, d)
        PROVE  Parses(file'.doc) \/ Outgrown
    <3>1. CASE UNCHANGED file
      BY <3>1
    <3>2. CASE file' = [file EXCEPT !.doc = d]
      <4>1. file'.doc = d
        BY <3>2 DEF TypeOK, File
      <4>2. r \in Ids
        BY DEF Ids
      <4> QED
        BY <2>4, <4>1, <4>2, FirstParses DEF Outgrown
    <3> QED
      BY <2>4, <3>1, <3>2 DEF WriteOwn
  <2>5. CASE Write(r)
    BY <2>4, <2>5 DEF Write
  <2>6. CASE Unlink(r)
    BY <2>6, FirstParses DEF Unlink, NoFile
  <2> QED
    BY <1>1, <2>1, <2>2, <2>3, <2>5, <2>6 DEF Serve, Start, Stat, Read, Compare,
       Recheck, Verify, Fail, CreateFile, Sync
<1>2. ASSUME NEW d \in AdminDocs, AdminSave(d) PROVE Parses(file'.doc)
  <2>1. d \in Doc /\ Parses(d)
    BY SavesParse, SavedDocs
  <2>2. file'.doc = [d EXCEPT !.note = edits + 1] /\ edits + 1 \in Nat
    BY <1>2 DEF AdminSave, FileOf, TypeOK
  <2> QED
    BY <2>1, <2>2, NoteParses
<1>3. CASE AdminRemove
  BY <1>3, FirstParses DEF AdminRemove, NoFile
<1>4. CASE Stop
  BY <1>4 DEF Stop
<1> QED
  BY <1>1, <1>2, <1>3, <1>4 DEF Next, Admin

\* However many requests, shares and saves there are, and however old the document
\* is that a request writes: the server makes a readable file unreadable only by the
\* hash of a migrated password or by a first write that is cut short.
THEOREM OutgrownOnlyByHash == Spec => ReadableKept
<1>1. IInv /\ [Next]_vars => [Parses(file.doc) /\ ~Parses(file'.doc) => Outgrown]_vars
  BY ReadableStep DEF IInv
<1> QED
  BY <1>1, Inductive, PTL DEF Spec, ReadableKept, Outgrown

-----------------------------------------------------------------------------
(* The work that is left.                                                  *)

\* What is left of a request's calls and phases, by where it is.
LEMMA Left ==
    ASSUME NEW q \in Request
    PROVE  /\ CallsLeft(q) \in 0 .. 9
           /\ PhasesLeft(q) \in 1 .. 4
           /\ q.pc \notin {"new", "done"} => CallsLeft(q) > 0
           /\ q.pc = "stat" => CallsLeft(q) = 9
           /\ q.pc = "read" => CallsLeft(q) = 8
           /\ q.pc \in {"compare", "create"} => CallsLeft(q) = 7
           /\ q.pc = "recheck" => CallsLeft(q) = 6
           /\ q.pc = "rename" => CallsLeft(q) = 5
           /\ q.pc \in {"verify", "write"} => CallsLeft(q) = 4
           /\ q.pc = "sync" => CallsLeft(q) = 3
           /\ q.pc = "unlink" => CallsLeft(q) = 2
<1>1. PhasesLeft(q) \in 1 .. 4
  BY DEF PhasesLeft
<1>2. q.pc \in Steps
  BY DEF Request
<1> QED
  BY <1>1, <1>2 DEF CallsLeft, Steps

Undone == {q \in Requests : ~At(q, "done")}

\* How often a plain password may come back is a number.
LEMMA ReversionsType ==
    ASSUME TypeOK, MeasuredInv
    PROVE  /\ IsFiniteSet(Undone)
           /\ Cardinality(Undone) \in Nat
           /\ MaxEdits - edits \in Nat
           /\ Reversions = (MaxEdits - edits) + Cardinality(Undone)
           /\ Reversions \in Nat
<1>1. IsFiniteSet(Undone)
  BY EnvFileAssumption, FS_Subset DEF Undone
<1>2. Cardinality(Undone) \in Nat
  BY <1>1, FS_CardinalityType
<1>3. MaxEdits - edits \in Nat
  BY EnvFileAssumption DEF TypeOK, MeasuredInv
<1>4. Reversions = (MaxEdits - edits) + Cardinality(Undone)
  BY DEF Reversions, Undone
<1> QED
  BY <1>1, <1>2, <1>3, <1>4

\* A request that is done stays done, and a step that puts back a plain password is
\* a save or the last of its request.
LEMMA PutBack ==
    ASSUME TypeOK, LocalInv, Next
    PROVE  /\ Undone' \subseteq Undone
           /\ edits' = edits \/ edits' = edits + 1
           /\ IsPlain(file'.doc) => \/ IsPlain(file.doc)
                                    \/ Undone' # Undone
                                    \/ edits' = edits + 1
<1> DEFINE Claim == /\ Undone' \subseteq Undone
                    /\ edits' = edits \/ edits' = edits + 1
                    /\ IsPlain(file'.doc) => \/ IsPlain(file.doc)
                                             \/ Undone' # Undone
                                             \/ edits' = edits + 1
<1> SUFFICES Claim
  OBVIOUS
<1>1. ASSUME NEW r \in Requests, Start(r) \/ Serve(r) PROVE Claim
  <2>1. ~At(r, "done") /\ edits' = edits
    BY <1>1 DEF Start, Serve, Stat, Read, Compare, Recheck, Rename, Verify, Fail,
       CreateFile, Write, Sync, Unlink, At
  <2>2. \A q \in Requests \ {r} : req'[q] = req[q]
    <3>1. \A new : Become(r, new) => \A q \in Requests \ {r} : req'[q] = req[q]
      BY BecomeEffect
    <3>2. \E new : Become(r, new)
      BY <1>1, Zenon DEF Start, Serve, Stat, Read, Compare, Recheck, Rename, Verify, Fail,
         CreateFile, Write, Sync, Unlink, Goto, Finish, Retry, Resolved, Enter,
         Rewrite, Unequal
    <3> QED
      BY <3>1, <3>2
  <2>3. Undone' \subseteq Undone
    BY <2>1, <2>2 DEF Undone, At
  <2>4. CASE Rename(r)
    <3>1. Consistent(r, req[r]) /\ req[r] \in Request /\ req[r].pc = "rename"
      BY <2>4 DEF TypeOK, LocalInv, Rename, At
    <3>2. CASE In(r, {"policy", "safe", "load"})
      <4>1. file'.doc = HashPassword(req[r].raw, req[r].updated.password.salt)
        BY <2>4, <3>1, <3>2 DEF Rename, FileOf, Consistent, In
      <4>2. file'.doc.password.salt # 0
        BY <2>4, <3>1, <3>2 DEF Rename, FileOf, Consistent, In
      <4> QED
        BY <2>1, <2>3, <4>2 DEF IsPlain
    <3>3. CASE In(r, {"append", "remove"})
      <4>1. Finish(r, "ok")
        BY <2>4, <3>3 DEF Rename, In
      <4>2. req'[r].pc = "done"
        BY <4>1, LoudEffect DEF Answers
      <4>3. r \in Undone /\ r \notin Undone'
        BY <2>1, <4>2 DEF Undone, At
      <4> QED
        BY <2>1, <2>3, <4>3
    <3> QED
      BY <3>1, <3>2, <3>3 DEF Request, Phases, In
  <2>5. ASSUME NEW d, d.password = NoPassword, file' = [file EXCEPT !.doc = d]
        PROVE  ~IsPlain(file'.doc)
    <3>1. file'.doc = d
      BY <2>5 DEF TypeOK, File
    <3> QED
      BY <2>5, <3>1 DEF IsPlain, HasPassword, NoPassword
  <2>6. CASE Write(r)
    <3>1. \A d \in Prefixes(r) \cup {FirstShare(r)} : d.password = NoPassword
      BY FirstShareFields, PrefixFields
    <3>2. file' = file \/ ~IsPlain(file'.doc)
      BY <2>5, <2>6, <3>1 DEF Write, WriteOwn
    <3> QED
      BY <2>1, <2>3, <3>2
  <2>7. ~IsPlain(EmptyDoc)
    BY DEF IsPlain, HasPassword, EmptyDoc, NoPassword
  <2>8. CASE CreateFile(r) \/ Unlink(r)
    BY <2>1, <2>3, <2>7, <2>8 DEF CreateFile, Unlink, NoFile
  <2>9. CASE UNCHANGED file
    BY <2>1, <2>3, <2>9
  <2> QED
    BY <1>1, <2>4, <2>6, <2>8, <2>9 DEF Serve, Start, Stat, Read, Compare, Recheck,
       Verify, Fail, Sync
<1>2. CASE Admin
  <2>1. edits' = edits + 1 /\ req' = req
    BY <1>2, Zenon DEF Admin, AdminSave, AdminRemove
  <2> QED
    BY <2>1 DEF Undone, At
<1>3. CASE Stop
  <2>1. edits' = edits /\ file' = file
    BY <1>3 DEF Stop
  <2>2. \A q \in Requests : ~At(q, "done")' => ~At(q, "done")
    BY <1>3, StopEffect DEF At
  <2> QED
    BY <2>1, <2>2 DEF Undone, At
<1> QED
  BY <1>1, <1>2, <1>3 DEF Next

\* So a plain password comes back only at the price of one of those times.
LEMMA ReversionsFall ==
    ASSUME TypeOK, LocalInv, MeasuredInv, TypeOK', MeasuredInv', Next
    PROVE  /\ Reversions' <= Reversions
           /\ IsPlain(file'.doc) => IsPlain(file.doc) \/ Reversions' < Reversions
<1>1. /\ Reversions' = (MaxEdits - edits') + Cardinality(Undone')
      /\ Cardinality(Undone') \in Nat
  <2>1. IsFiniteSet(Undone')
    BY EnvFileAssumption, FS_Subset DEF Undone
  <2>2. Cardinality(Undone') \in Nat
    BY <2>1, FS_CardinalityType
  <2> QED
    BY <2>2 DEF Reversions, Undone
<1>2. Cardinality(Undone') <= Cardinality(Undone)
  BY PutBack, ReversionsType, FS_Subset
<1>3. Undone' # Undone => Cardinality(Undone') # Cardinality(Undone)
  BY PutBack, ReversionsType, FS_Subset
<1>4. MaxEdits \in Nat /\ edits \in Nat /\ (edits' = edits \/ edits' = edits + 1)
  BY PutBack, EnvFileAssumption DEF TypeOK
<1>5. Reversions = (MaxEdits - edits) + Cardinality(Undone) /\ Cardinality(Undone) \in Nat
  BY ReversionsType
<1>6. Reversions' <= Reversions
  BY <1>1, <1>2, <1>4, <1>5
<1>7. Undone' # Undone \/ edits' = edits + 1 => Reversions' < Reversions
  BY <1>1, <1>2, <1>3, <1>4, <1>5
<1> QED
  BY <1>6, <1>7, PutBack

\* It is a number after a step as well.
LEMMA NumbersAfter == ASSUME TypeOK', MeasuredInv' PROVE Reversions' \in Nat
<1>1. (TypeOK /\ MeasuredInv => Reversions \in Nat)'
  BY ReversionsType, PTL
<1> QED
  BY <1>1

\* The work that is left to a running request, as a sum of numbers.
LEMMA WorkIs ==
    ASSUME TypeOK, MeasuredInv, NEW r \in Requests, Running(r)
    PROVE  /\ WorkLeft(r) = 10 * (PhasesLeft(req[r]) + PlainLeft(req[r])) + CallsLeft(req[r])
           /\ PlainLeft(req[r]) \in Nat
           /\ WorkLeft(r) \in Nat
           /\ WorkLeft(r) > 0
<1>1. req[r] \in Request
  BY DEF TypeOK
<1>2. PlainLeft(req[r]) \in Nat
  BY ReversionsType DEF PlainLeft
<1>3. WorkLeft(r) = 10 * (PhasesLeft(req[r]) + PlainLeft(req[r])) + CallsLeft(req[r])
  BY DEF WorkLeft
<1>4. PhasesLeft(req[r]) \in 1 .. 4 /\ CallsLeft(req[r]) \in 0 .. 9
  BY <1>1, Left
<1> QED
  BY <1>2, <1>3, <1>4

\* It is a number, whatever the request does.
LEMMA WorkType == TypeOK /\ MeasuredInv => \A q \in Requests : WorkLeft(q) \in Nat
BY WorkIs DEF WorkLeft

\* After a step, too.
LEMMA WorkAfter ==
    ASSUME TypeOK', MeasuredInv'
    PROVE  \A q \in Requests : WorkLeft(q)' \in Nat
<1>1. (TypeOK /\ MeasuredInv => \A q \in Requests : WorkLeft(q) \in Nat)'
  BY WorkType, PTL
<1> QED
  BY <1>1

\* Nobody else's step adds to the work of a request.
LEMMA OthersWork ==
    ASSUME TypeOK, LocalInv, MeasuredInv, TypeOK', MeasuredInv', Next,
           NEW r \in Requests, Running(r), req'[r] = req[r]
    PROVE  WorkLeft(r)' <= WorkLeft(r)
<1>1. PICK m \in Nat, n \in Nat : m = Reversions /\ n = Reversions'
  BY NumbersAfter, ReversionsType
<1>2. /\ n <= m
      /\ IsPlain(file'.doc) => IsPlain(file.doc) \/ n < m
  BY <1>1, ReversionsFall
<1> DEFINE plain  == IF IsPlain(file.doc) \/ Migrates(req[r]) THEN 1 ELSE 0
           plain2 == IF IsPlain(file'.doc) \/ Migrates(req[r]) THEN 1 ELSE 0
<1>3. WorkLeft(r)' = 10 * (PhasesLeft(req[r]) + (n + plain2)) + CallsLeft(req[r])
  BY <1>1 DEF WorkLeft, PlainLeft, Running, IsPlain, HasPassword
<1>4. WorkLeft(r) = 10 * (PhasesLeft(req[r]) + (m + plain)) + CallsLeft(req[r])
  BY <1>1 DEF WorkLeft, PlainLeft
<1>5. PhasesLeft(req[r]) \in 1 .. 4 /\ CallsLeft(req[r]) \in 0 .. 9
  BY Left DEF TypeOK
<1>6. /\ n + plain2 <= m + plain
      /\ n + plain2 \in Nat
      /\ m + plain \in Nat
  BY <1>2
<1> HIDE DEF plain, plain2
<1> QED
  BY <1>3, <1>4, <1>5, <1>6

\* Ten calls weigh as much as a phase or a plain password.
LEMMA Lighter ==
    ASSUME NEW m \in Nat, NEW n \in Nat, NEW c \in 0 .. 9, NEW d \in 0 .. 9,
           n < m \/ (n <= m /\ d < c)
    PROVE  10 * n + d < 10 * m + c
OBVIOUS

\* A request ends, or is nearer to the end of its phase, or in a later one, or past
\* a migration.
Nearer(r) ==
    \/ ~Running(r)'
    \/ /\ PhasesLeft(req'[r]) <= PhasesLeft(req[r])
       /\ CallsLeft(req'[r]) < CallsLeft(req[r])
       /\ Migrates(req'[r]) => Migrates(req[r]) \/ IsPlain(file.doc)
    \/ /\ PhasesLeft(req'[r]) < PhasesLeft(req[r])
       /\ ~Migrates(req'[r])
       /\ CallsLeft(req'[r]) < CallsLeft(req[r]) + 10
    \/ /\ PhasesLeft(req'[r]) <= PhasesLeft(req[r])
       /\ CallsLeft(req'[r]) < CallsLeft(req[r]) + 10
       /\ Migrates(req[r])
       /\ ~Migrates(req'[r])
       /\ ~IsPlain(file'.doc)

\* All of these leave it less to do.
LEMMA OwnWork ==
    ASSUME TypeOK, LocalInv, MeasuredInv, TypeOK', MeasuredInv', Next,
           NEW r \in Requests, Running(r), Nearer(r)
    PROVE  WorkLeft(r)' < WorkLeft(r)
<1>1. PICK m \in Nat, n \in Nat : m = Reversions /\ n = Reversions'
  BY NumbersAfter, ReversionsType
<1>2. CASE ~Running(r)'
  <2>1. WorkLeft(r)' = 0
    BY <1>2 DEF WorkLeft
  <2> QED
    BY <2>1, WorkIs
<1>3. CASE Running(r)'
  <2> DEFINE plain  == IF IsPlain(file.doc) \/ Migrates(req[r]) THEN 1 ELSE 0
             plain2 == IF IsPlain(file'.doc) \/ Migrates(req'[r]) THEN 1 ELSE 0
  <2>1. WorkLeft(r)' = 10 * (PhasesLeft(req'[r]) + (n + plain2)) + CallsLeft(req'[r])
    BY <1>1, <1>3 DEF WorkLeft, PlainLeft, IsPlain, HasPassword
  <2>2. WorkLeft(r) = 10 * (PhasesLeft(req[r]) + (m + plain)) + CallsLeft(req[r])
    BY <1>1 DEF WorkLeft, PlainLeft
  <2>3. PICK p \in 1 .. 4, q \in 1 .. 4, c \in 0 .. 9, d \in 0 .. 9 :
          /\ p = PhasesLeft(req[r]) /\ c = CallsLeft(req[r])
          /\ q = PhasesLeft(req'[r]) /\ d = CallsLeft(req'[r])
    BY Left DEF TypeOK
  <2>4. /\ n <= m
        /\ IsPlain(file'.doc) => IsPlain(file.doc) \/ n < m
    BY <1>1, ReversionsFall
  <2>5. \/ q <= p /\ d < c /\ n + plain2 <= m + plain
        \/ q < p /\ n + plain2 <= m + plain
        \/ q <= p /\ n + plain2 < m + plain
    BY <1>3, <2>3, <2>4 DEF Nearer
  <2>6. n + plain2 \in Nat /\ m + plain \in Nat
    OBVIOUS
  <2> HIDE DEF plain, plain2
  <2>7. /\ p + (m + plain) \in Nat
        /\ q + (n + plain2) \in Nat
        /\ \/ q + (n + plain2) < p + (m + plain)
           \/ q + (n + plain2) <= p + (m + plain) /\ d < c
    BY <2>5, <2>6
  <2>8. 10 * (q + (n + plain2)) + d < 10 * (p + (m + plain)) + c
    BY <2>7, Lighter
  <2> QED
    BY <2>1, <2>2, <2>3, <2>8
<1> QED
  BY <1>2, <1>3

\* The moves of a request's local state lead it nearer to its end.
LEMMA Moves ==
    ASSUME TypeOK, TypeOK', LocalInv, NEW r \in Requests, Running(r)
    PROVE  /\ \A a : Finish(r, a) => Nearer(r)
           /\ \A step \in Steps :
                /\ Goto(r, step)
                /\ CallsLeft([req[r] EXCEPT !.pc = step]) < CallsLeft(req[r])
                /\ Migrates([req[r] EXCEPT !.pc = step]) => Migrates(req[r])
                => Nearer(r)
           /\ In(r, {"append", "remove"}) /\ Retry(r) => Nearer(r)
           /\ In(r, {"policy", "safe", "load"}) /\ Resolved(r) => Nearer(r)
<1>1. req[r] \in Request /\ Consistent(r, req[r]) /\ req[r].pc \notin {"new", "done"}
  BY DEF TypeOK, LocalInv, Running
<1>2. CallsLeft(req[r]) \in 0 .. 9 /\ CallsLeft(req[r]) > 0
  BY <1>1, Left
<1>3. ASSUME NEW a, Finish(r, a) PROVE Nearer(r)
  <2>1. req'[r] = Ended(r, a)
    BY <1>3, BecomeEffect DEF Finish
  <2>2. req'[r].pc = "done"
    BY <1>1, <2>1 DEF Ended, Request
  <2> QED
    BY <2>2 DEF Nearer, Running
<1>4. ASSUME NEW step \in Steps, Goto(r, step),
             CallsLeft([req[r] EXCEPT !.pc = step]) < CallsLeft(req[r]),
             Migrates([req[r] EXCEPT !.pc = step]) => Migrates(req[r])
      PROVE  Nearer(r)
  <2>1. req'[r] = [req[r] EXCEPT !.pc = step]
    BY <1>4, BecomeEffect DEF Goto
  <2>2. req'[r].phase = req[r].phase /\ req'[r].tries = req[r].tries
    BY <1>1, <2>1 DEF Request
  <2>3. PhasesLeft(req'[r]) = PhasesLeft(req[r])
    BY <2>2 DEF PhasesLeft
  <2>4. PhasesLeft(req[r]) \in 1 .. 4
    BY <1>1, Left
  <2> QED
    BY <1>4, <2>1, <2>3, <2>4 DEF Nearer
<1>5. ASSUME NEW q \in Request, req'[r] = q, q.pc = "stat",
             PhasesLeft(q) < PhasesLeft(req[r])
      PROVE  Nearer(r)
  <2>1. CallsLeft(q) = 9 /\ ~Migrates(q)
    BY <1>5, Left DEF Migrates
  <2> QED
    BY <1>2, <1>5, <2>1 DEF Nearer
<1>6. ASSUME In(r, {"append", "remove"}), Retry(r) PROVE Nearer(r)
  <2>1. CASE req[r].tries = 0
    <3> DEFINE q == [req[r] EXCEPT !.tries = 1, !.pc = "stat"]
    <3>1. req'[r] = q
      BY <1>6, <2>1, BecomeEffect DEF Retry
    <3>2. q \in Request /\ q.pc = "stat" /\ q.tries = 1 /\ q.phase = req[r].phase
      BY <1>1 DEF Request, Steps
    <3> HIDE DEF q
    <3>3. PhasesLeft(q) = 1 /\ PhasesLeft(req[r]) = 2
      BY <1>6, <2>1, <3>2 DEF PhasesLeft, In
    <3> QED
      BY <1>5, <3>1, <3>2, <3>3
  <2> QED
    BY <1>3, <1>6, <2>1 DEF Retry
<1>7. ASSUME NEW p \in {"safe", "append", "remove"}, Enter(r, p),
             req[r].phase = "policy" \/ (req[r].phase = "safe" /\ p # "safe")
      PROVE  Nearer(r)
  <2> DEFINE q == [req[r] EXCEPT !.phase = p, !.pc = "stat", !.tries = 0]
  <2>1. req'[r] = q
    BY <1>7, BecomeEffect DEF Enter
  <2>2. q \in Request /\ q.pc = "stat" /\ q.phase = p /\ q.tries = 0
    BY <1>1 DEF Request, Steps, Phases
  <2> HIDE DEF q
  <2>3. PhasesLeft(q) < PhasesLeft(req[r])
    BY <1>7, <2>2 DEF PhasesLeft
  <2> QED
    BY <1>5, <2>1, <2>2, <2>3
<1>8. ASSUME In(r, {"policy", "safe", "load"}), Resolved(r) PROVE Nearer(r)
  <2>1. req[r].phase = "load" => req[r].op = "load"
    BY <1>1 DEF Consistent
  <2> QED
    BY <1>3, <1>7, <1>8, <2>1 DEF Resolved, In
<1> QED
  BY <1>3, <1>4, <1>6, <1>8

\* Every call of a request leads it nearer to its end.
LEMMA EveryCall ==
    ASSUME TypeOK, TypeOK', LocalInv, NEW r \in Requests, Running(r), Serve(r)
    PROVE  Nearer(r)
<1>1. req[r] \in Request /\ Consistent(r, req[r]) /\ req[r].pc \notin {"new", "done"}
  BY DEF TypeOK, LocalInv, Running
<1>2. \A step \in Steps :
        /\ [req[r] EXCEPT !.pc = step] \in Request
        /\ [req[r] EXCEPT !.pc = step].pc = step
        /\ [req[r] EXCEPT !.pc = step].phase = req[r].phase
  BY <1>1 DEF Request
<1>3. ASSUME NEW step \in Steps, Goto(r, step),
             CallsLeft([req[r] EXCEPT !.pc = step]) < CallsLeft(req[r]),
             step \in {"compare", "recheck", "rename"} =>
                req[r].pc \in {"compare", "recheck", "rename"}
      PROVE  Nearer(r)
  <2>1. Migrates([req[r] EXCEPT !.pc = step]) => Migrates(req[r])
    BY <1>2, <1>3 DEF Migrates
  <2> QED
    BY <1>3, <2>1, Moves
<1>4. ASSUME Stat(r) PROVE Nearer(r)
  <2>1. CallsLeft(req[r]) = 9
    BY <1>1, <1>4, Left DEF Stat, At
  <2>2. ASSUME NEW step \in {"read", "create"}, Goto(r, step) PROVE Nearer(r)
    <3>1. step \in Steps
      BY DEF Steps
    <3>2. CallsLeft([req[r] EXCEPT !.pc = step]) < 9
      <4>1. PICK q \in Request : q = [req[r] EXCEPT !.pc = step] /\ q.pc = step
        BY <1>2, <3>1
      <4>2. CallsLeft(q) \in {7, 8}
        BY <2>2, <4>1, Left
      <4> QED
        BY <4>1, <4>2
    <3> QED
      BY <1>3, <2>1, <2>2, <3>1, <3>2
  <2> QED
    BY <1>4, <2>2, Moves DEF Stat
<1>5. ASSUME Read(r) PROVE Nearer(r)
  <2>1. CallsLeft(req[r]) = 8 /\ req[r].pc = "read"
    BY <1>1, <1>5, Left DEF Read, At
  <2>2. ASSUME NEW d, NEW new, Rewrite(r, d, new),
               In(r, {"policy", "safe", "load"}) => IsPlain(file.doc)
        PROVE  Nearer(r)
    <3> DEFINE q == [req[r] EXCEPT !.pc = "compare", !.raw = d, !.updated = new]
    <3>1. req'[r] = q
      BY <2>2, BecomeEffect DEF Rewrite
    <3>2. q.pc = "compare" /\ q.phase = req[r].phase /\ q.tries = req[r].tries
      BY <1>1 DEF Request
    <3>3. req'[r] \in Request
      BY DEF TypeOK
    <3> HIDE DEF q
    <3>4. CallsLeft(q) = 7 /\ PhasesLeft(q) \in 1 .. 4
      BY <3>1, <3>2, <3>3, Left
    <3>5. PhasesLeft(q) = PhasesLeft(req[r])
      BY <3>2 DEF PhasesLeft
    <3>6. Migrates(q) => IsPlain(file.doc)
      BY <2>2, <3>2 DEF Migrates, In
    <3> QED
      BY <2>1, <3>1, <3>4, <3>5, <3>6 DEF Nearer
  <2>3. In(r, {"append"}) \/ In(r, {"remove"}) => ~In(r, {"policy", "safe", "load"})
    BY DEF In
  <2> QED
    BY <1>5, <2>2, <2>3, Moves DEF Read
<1>6. ASSUME Unequal(r) PROVE Nearer(r)
  <2>1. In(r, {"remove"}) => In(r, {"append", "remove"})
    BY DEF In
  <2> QED
    BY <1>6, <2>1, Moves DEF Unequal
<1>7. ASSUME Compare(r) PROVE Nearer(r)
  <2>1. CallsLeft(req[r]) = 7 /\ req[r].pc = "compare"
    BY <1>1, <1>7, Left DEF Compare, At
  <2>2. "recheck" \in Steps /\ CallsLeft([req[r] EXCEPT !.pc = "recheck"]) = 6
    BY <1>2, Left DEF Steps
  <2> QED
    BY <1>3, <1>6, <1>7, <2>1, <2>2 DEF Compare
<1>8. ASSUME Recheck(r) PROVE Nearer(r)
  <2>1. CallsLeft(req[r]) = 6 /\ req[r].pc = "recheck"
    BY <1>1, <1>8, Left DEF Recheck, At
  <2>2. ASSUME Become(r, [req[r] EXCEPT !.pc = "rename", !.current = file.doc])
        PROVE  Nearer(r)
    <3> DEFINE q == [req[r] EXCEPT !.pc = "rename", !.current = file.doc]
    <3>1. req'[r] = q
      BY <2>2, BecomeEffect
    <3>2. q.pc = "rename" /\ q.phase = req[r].phase /\ q.tries = req[r].tries
      BY <1>1 DEF Request
    <3>3. req'[r] \in Request
      BY DEF TypeOK
    <3> HIDE DEF q
    <3>4. CallsLeft(q) = 5 /\ PhasesLeft(q) \in 1 .. 4
      BY <3>1, <3>2, <3>3, Left
    <3>5. PhasesLeft(q) = PhasesLeft(req[r])
      BY <3>2 DEF PhasesLeft
    <3>6. Migrates(q) => Migrates(req[r])
      BY <2>1, <3>2 DEF Migrates
    <3> QED
      BY <2>1, <3>1, <3>4, <3>5, <3>6 DEF Nearer
  <2> QED
    BY <1>6, <1>8, <2>2 DEF Recheck
<1>9. ASSUME Rename(r) PROVE Nearer(r)
  <2>1. CallsLeft(req[r]) = 5 /\ req[r].pc = "rename"
    BY <1>1, <1>9, Left DEF Rename, At
  <2>2. CASE In(r, {"policy", "safe"}) /\ Goto(r, "stat")
    <3>1. req'[r] = [req[r] EXCEPT !.pc = "stat"]
      BY <2>2, BecomeEffect DEF Goto
    <3>2. req'[r].pc = "stat" /\ req'[r].phase = req[r].phase /\ req'[r].tries = req[r].tries
      BY <1>1, <3>1 DEF Request
    <3>3. PhasesLeft(req'[r]) = PhasesLeft(req[r])
      BY <3>2 DEF PhasesLeft
    <3>4. CallsLeft(req'[r]) = 9 /\ PhasesLeft(req[r]) \in 1 .. 4
      BY <1>1, <3>2, Left DEF TypeOK
    <3>5. Migrates(req[r]) /\ ~Migrates(req'[r])
      BY <2>1, <2>2, <3>2 DEF Migrates, In
    <3>6. file'.doc.password.salt # 0
      BY <1>1, <1>9, <2>1, <2>2 DEF Rename, FileOf, Consistent, In
    <3>7. ~IsPlain(file'.doc)
      BY <3>6 DEF IsPlain
    <3> QED
      BY <2>1, <3>3, <3>4, <3>5, <3>7 DEF Nearer
  <2>3. CASE Goto(r, "verify")
    <3>1. "verify" \in Steps /\ CallsLeft([req[r] EXCEPT !.pc = "verify"]) = 4
      BY <1>2, Left DEF Steps
    <3> QED
      BY <1>3, <2>1, <2>3, <3>1
  <2> QED
    BY <1>9, <2>2, <2>3, Moves DEF Rename
<1>10. ASSUME Verify(r) \/ Fail(r) \/ Unlink(r) PROVE Nearer(r)
  BY <1>10, Moves DEF Verify, Fail, Unlink
<1>11. ASSUME CreateFile(r) PROVE Nearer(r)
  <2>1. CallsLeft(req[r]) = 7 /\ In(r, {"append", "remove"})
    BY <1>1, <1>11, Left DEF CreateFile, At, In, Consistent
  <2>2. "write" \in Steps /\ CallsLeft([req[r] EXCEPT !.pc = "write"]) = 4
    BY <1>2, Left DEF Steps
  <2> QED
    BY <1>3, <1>11, <2>1, <2>2, Moves DEF CreateFile
<1>12. ASSUME Write(r) \/ Sync(r) PROVE Nearer(r)
  <2>1. \/ Write(r) /\ CallsLeft(req[r]) = 4
        \/ Sync(r) /\ CallsLeft(req[r]) = 3
    BY <1>1, <1>12, Left DEF Write, Sync, At
  <2>2. /\ "sync" \in Steps /\ CallsLeft([req[r] EXCEPT !.pc = "sync"]) = 3
        /\ "unlink" \in Steps /\ CallsLeft([req[r] EXCEPT !.pc = "unlink"]) = 2
    BY <1>2, Left DEF Steps
  <2> QED
    BY <1>3, <2>1, <2>2, Moves DEF Write, Sync
<1> QED
  BY <1>4, <1>5, <1>7, <1>8, <1>9, <1>10, <1>11, <1>12 DEF Serve

\* A step of the system is one of a request's, or ends it, or leaves it alone.
LEMMA WorkStep ==
    ASSUME TypeOK, LocalInv, MeasuredInv, TypeOK', MeasuredInv', Next,
           NEW r \in Requests, Running(r)
    PROVE  /\ WorkLeft(r)' <= WorkLeft(r)
           /\ Serve(r) => WorkLeft(r)' < WorkLeft(r)
<1>1. Nearer(r) => WorkLeft(r)' < WorkLeft(r)
  BY OwnWork
<1>2. Serve(r) => WorkLeft(r)' < WorkLeft(r)
  BY <1>1, EveryCall
<1>3. ASSUME NEW q \in Requests, q # r, Start(q) \/ Serve(q) PROVE req'[r] = req[r]
  <2>1. \E new : Become(q, new)
    BY <1>3, Zenon DEF Start, Serve, Stat, Read, Compare, Recheck, Rename, Verify, Fail,
       CreateFile, Write, Sync, Unlink, Goto, Finish, Retry, Resolved, Enter,
       Rewrite, Unequal
  <2> QED
    BY <1>3, <2>1, BecomeEffect
<1>4. ~Start(r)
  BY DEF Running, Start, At
<1>5. Admin => req'[r] = req[r]
  BY DEF Admin, AdminSave, AdminRemove
<1>6. Stop => Nearer(r)
  BY StopEffect DEF Nearer, Running
<1>7. \/ Serve(r)
      \/ Nearer(r)
      \/ req'[r] = req[r]
  BY <1>3, <1>4, <1>5, <1>6 DEF Next
<1>8. req'[r] = req[r] => WorkLeft(r)' <= WorkLeft(r)
  BY OthersWork
<1>9. WorkLeft(r)' < WorkLeft(r) => WorkLeft(r)' <= WorkLeft(r)
  <2>1. PICK m \in Nat, n \in Nat : m = WorkLeft(r) /\ n = WorkLeft(r)'
    BY WorkAfter, WorkIs
  <2> QED
    BY <2>1
<1> QED
  BY <1>1, <1>2, <1>7, <1>8, <1>9

\* However many requests run and whatever they and the administrator do: every call
\* leaves its request less to do, and no step of anybody else leaves it more.  The
\* work that is left is a number, so a request whose calls return ends.
THEOREM RequestsProgress == Spec => WorkShrinks
<1> DEFINE Shrinks == \A r \in Requests : Running(r) =>
                        /\ WorkLeft(r)' <= WorkLeft(r)
                        /\ Serve(r) => WorkLeft(r)' < WorkLeft(r)
<1>1. IInv /\ IInv' /\ Next => Shrinks
  BY WorkStep DEF IInv
<1>2. IInv /\ IInv' /\ [Next]_vars => [Shrinks]_vars
  BY <1>1
<1> QED
  BY <1>2, Inductive, PTL DEF Spec, WorkShrinks

=============================================================================
