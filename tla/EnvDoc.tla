------------------------------- MODULE EnvDoc -------------------------------
(***************************************************************************)
(* The document a directory's `.env` file holds, and the rewrites DataShelf *)
(* makes of one.  A document is abstracted to what its readers and writers  *)
(* tell apart: the password line, the complete and the incomplete           *)
(* SHARE_<ID>_* groups, the SHARE_ENABLED switch, whether a line is cut in   *)
(* the middle, and one number (`note`) that stands for the administrator's  *)
(* own lines: each save of the administrator has a number of its own.       *)
(***************************************************************************)
EXTENDS Naturals, FiniteSets

CONSTANTS
    Requests,   \* requests in flight; a request that creates a share names it
    Seeds,      \* shares the file may hold before the first request
    Secrets,    \* passwords the administrator may write
    None,       \* no password, nobody
    MaxSize     \* what 64 KiB hold, counted in share groups and hashes

ASSUME EnvDocAssumption ==
    /\ None \notin Secrets \cup Requests
    /\ Seeds \cap Requests = {}
    /\ MaxSize \in Nat \ {0}

Ids == Requests \cup Seeds

\* A stored password: plain text has salt 0, every hash has a salt of its own.
Password == [secret : Secrets \cup {None}, salt : Nat]

Doc == [password : Password, shares : SUBSET Ids, broken : SUBSET Ids,
        garbled : BOOLEAN, switch : {"unset", "true", "false"}, note : Nat]

NoPassword == [secret |-> None, salt |-> 0]

\* The empty file parses, as a document that says nothing.
EmptyDoc == [password |-> NoPassword, shares |-> {}, broken |-> {},
             garbled |-> FALSE, switch |-> "unset", note |-> 0]

HasPassword(d) == d.password.secret # None

IsPlain(d) == HasPassword(d) /\ d.password.salt = 0

\* A hash line is longer than the plain text it replaces.
Size(d) == Cardinality(d.shares \cup d.broken)
             + (IF HasPassword(d) /\ ~IsPlain(d) THEN 1 ELSE 0)

Parses(d) == ~d.garbled /\ Size(d) <= MaxSize

AddShare(d, i) == [d EXCEPT !.shares = @ \cup {i}, !.switch = "true"]

DropShare(d, i) == [d EXCEPT !.shares = @ \ {i}, !.broken = @ \ {i}]

HashPassword(d, n) == [d EXCEPT !.password.salt = n]

\* What a first share's file holds: the switch and one complete group.
FirstShare(i) == AddShare(EmptyDoc, i)

\* What a short write leaves of it: nothing, the switch, some lines of the
\* group, or a line cut in the middle.
Prefixes(i) == {EmptyDoc,
                [EmptyDoc EXCEPT !.switch = "true"],
                [EmptyDoc EXCEPT !.switch = "true", !.broken = {i}],
                [EmptyDoc EXCEPT !.garbled = TRUE]}

=============================================================================
