# DataShelf in TLA+

DataShelf is one Go binary that serves a tree of files read-only. Every
first-level directory of its data root is an *application*; a `.env` file in any
directory may set a password, presentation fields and share links. There is no
database: the file system is the state, and every request reads it again. The
server writes one thing only, the `.env` files.

These modules model the parts of the server where concurrent requests, the
administrator's editor and the end of the process meet. They are written from
the Go source; `PROJECT.json` maps every definition to the lines it stands for.

## Inventory

| Component | State | Operations | What is hard | What makes it correct |
|---|---|---|---|---|
| Directory configuration (`config.go`, `policy.go`, `share_create.go`) | one `.env` per directory | policy read with migration of a plain password, legacy load with migration, share creation (rewrite or first file), share deletion | no lock: comparison and rename, `O_EXCL`, retries, faults, the end of the process | no acknowledged update is lost, half a share is not left behind, requests end |
| Attempt limiters (`security.go`) and KDF gate (`config.go`) | two tables of windows, a one-slot channel | `allowed`, `blocked`, `reset`, `hashPassword`, `verifyPassword` | asking and counting are separate steps, windows end, eviction follows map order | attempts are limited, tables bounded, nobody waits for ever |
| Application snapshot (`server.go`) | `server.apps` | scan, publish, look up, copy | each request publishes for all; the root changes while it is listed | a request answers from the data root as it was while it ran |
| Directory policy (`policy.go`) | none (a fold over a chain of `.env` files) | `resolveDirectoryPolicy` | the chain is read file by file | the nearest valid password protects; a broken ancestor locks |
| Sessions (`security.go`, `server.go`) | a secret, tokens in cookies | issue, valid, two logins (`authApp`, `auth`), cookie scopes | age window, restart, policy versions, two handlers for one form | a session is valid for the policy it was issued for, and a login is not in vain |
| Shares (`share_create.go`, `share_directory.go`, `policy.go`, `config.go`) | `SHARE_<ID>_*` lines | list, create, delete, find, log in, serve | three readers of the same lines, expiry, revocation, boundaries below the owner that appear while a request looks | a share gives what it says until it expires or is removed, and nothing below another password |
| Routing and responses (`server.go`, `share_directory.go`) | none | route table, legacy addresses, headers, links of pages | order of checks, headers set twice, links put together apart from the routes | protected answers are never cached, links lead somewhere |
| Path resolution (`server.go`, `security.go`) | none | decode, walk by `Lstat`, open | links appear between two calls | nothing outside the data root is shown |
| Markdown (`markdown.go`) | none | links of a document, rendering | a document's links are relative to an address, not to a file | links stay in the application |
| Assets, version, interface, packaging | none | digests, pages, scripts | - | not modelled: constants, presentation, build files |
| Process (`main.go`) | - | start, shutdown | `Serve` returns before `Shutdown` is done | modelled only as an end between any two steps |

How they interact: `ServeHTTP` refreshes the application snapshot, then routes.
A route looks an application up, resolves the policy of a directory (which may
migrate a password and so write `.env`), authorizes by session cookie, and opens
the path. Logins and share logins pass the login limiter and the KDF gate; share
routes pass the lookup limiter and search all applications for the token.
Handlers run in goroutines of their own; the snapshot has a lock, each limiter
has a mutex, `.env` files have none.

## Modules

| Module | Models |
|---|---|
| `FoldedPolicy` | the fold of a chain of `.env` files as operators, and the session version |
| `DirectoryPolicy` | requests and logins that read a chain file by file while it changes, sessions, the clock, restarts |
| `FoldedPolicyProofs`, `DirectoryPolicyProofs` | lemmas about the fold; theorems about `DirectoryPolicy` |
| `ShareGroups` | the `SHARE_*` lines and their three readers as operators, on the fold of `FoldedPolicy` |
| `ShareLifecycle`, `ShareLifecycleProofs` | shares from creation to end: lookup, gate, login, serving, the walk through a shared directory; theorems |
| `Serving`, `ServingProofs` | a request from its address to its answer, and the links it gives; theorems |
| `EnvDoc` | the document a `.env` file holds, and the rewrites as operators on it |
| `EnvStore` | the abstract specification: what the comments and the contract promise of one directory's configuration |
| `EnvFile` | one `.env` file, its concurrent requests, the administrator, faults, the end of the process |
| `EnvFileProofs`, `EnvFileRefinement` | theorems about `EnvFile`; `EnvFile` implements `EnvStore` |
| `LoginLimiter` | the attempt table as operators (each holds the mutex throughout, so each is one step) |
| `Attempts` | logins, share lookups, the KDF gate and the clock around two tables |
| `AttemptsProofs` | theorems about `Attempts` |
| `AppSnapshot`, `AppSnapshotProofs` | the snapshot of applications, its requests and the data root; theorems |
| `MCEnvFile`, `MCAppSnapshot` | the symmetry TLC uses |
| `MCDirectoryPolicy` | the entries and start-up passwords TLC uses |
| `MCShareLifecycle`, `MCServing` | the lines, the trees and the changes TLC uses |

`FoldedPolicy` is shared: `DirectoryPolicy` reads its chain file by file,
`ShareLifecycle` (through `ShareGroups`) as one step where one directory's policy
is read and step by step between directories. `Serving` takes over where they
end: it keeps of a policy its version, and of a share that it lets in.

### EnvFile

A request is one of four: `read` (`readDirectoryEnv`, which starts again after a
migration), `load` (`loadAppConfig`, which reads its hash back instead),
`create` (`createShare`: a policy read, for a directory share the second policy
read of `directoryShareSafe`, then `appendShareDefinition`) and `delete`
(`manageShares`: a policy read, then `removeShareDefinition`). `phase` says which
of these functions runs and `pc` which of its file system calls comes next; an
action is one call with the local work up to the next, so that other writers may
come in between any two. `Compare`, `Recheck` and `Rename` are
`replaceFileIfUnchanged`; `CreateFile`, `Write`, `Sync` and `Unlink` are the
`O_EXCL` path. `Write` may be short (`Prefixes`), `Sync` may fail, and `Fail` is
any other call that fails before it changed the file. `Stop` ends the process;
`main.go` lets it end while handlers run.

What is abstracted: the text of a document (`EnvDoc` keeps the password, the
complete and incomplete groups, the switch, whether a line is cut, and which
save of the administrator it carries); random ids and tokens (a request that
creates a share names it); salts (drawn from a counter); session and input
checks (a request may be refused at the point where they are made); file modes
and temporary files (nothing reads them). All refusals, the locked
configuration included, are `refused`. A hash counts as one unit of size and a
share group as another, plain text as none; `MaxSize` stands for 64 KiB. The
administrator saves by replacing the file, and `os.Remove` of the path is taken
to succeed. A request runs once; requests started later are other requests.

`races` records the three ways in which two writers can meet: `overwrite` (the
file changed between the second comparison and the rename), `orphan` (the file a
creator is about to write is no longer the one the path names) and `unlink` (a
creator that failed removed somebody else's file). No action reads it.

### Attempts

`Keys` stands for a password boundary or the share lookup together with a
source, in both tables. `Login` is everything up to the gate in `authApp`, `auth`
and `shareAuth`; a `plain:` password is compared without the gate, so `Login` may
also go to `reset` or end at once. `Enter` and `Verify` are the two channel
operations; Go serves blocked senders in order of arrival. `Lookup`, `Walk`,
`Miss` and `Hit` are `share`, which asks, searches, and only then counts. The
clock has a coarse unit; `Trimmed` leaves open which entries an eviction takes,
for map order does. The KDF use of migrations is left out: it enters and leaves
the same gate, and holds nothing else. History belongs to one life of a table's
entry and ends when the entry is reset, evicted or dropped: `checks` is the sequence
of the times at which a login was let through, `misses` a count.

### AppSnapshot

A directory is known by the number of the change that made it, so that one that
is removed and made again is another. `List` is `os.ReadDir`, `Inspect` one
`Lstat` (in any order; a missing entry is skipped, and so is every entry if the
root has become unreadable), `Publish` the assignment under the lock, `Consume`
the later look-up or copy, `Open` the handler's own look at the path. The home
page and a share lookup ask for every name, a route for one. Names the scan
rejects (hidden, reserved, links) are not modelled: they never enter the map.
`seen` records, for each request, every value each name had while it ran.

### DirectoryPolicy

`env` holds, for each position on the way (0 the data root, 1 the application,
then one for each name below it), what its file says about security: a password
(its stored hash), `html_scripts`, or that it is not usable. A request reads one
position per step (`Read` is one turn of the loop in `resolveDirectoryPolicy`, and
the startup password after the last), so files may change between any two. Then
`Answer` is what `authorizePolicy` does with the policy, or
`authorizedForShareCreation` for `_shares`; a listing goes round a second time
(`SecondLook`, server.go:532). There are two logins. `authApp` (`BeginLogin`) resolves the directory of its
return target (`LoginDir`), a request that of its own path (`RequestDir`); both are
the arithmetic on path segments of the code. `auth` (`BeginForm`) resolves the
application, whatever it returns to; the form of the login page, `authApp`'s too,
posts there. `LoginFails` covers a refusal at any
time, for a wrong password or by the limiter (`Attempts` says when that is).
`Restart` draws a new secret (`run`) and may bring another start-up password.

What is abstracted: SHA-256 and HMAC (a version is what is hashed, a session
cannot be made up), names (one chain of directories: two directories of the same
depth differ in their boundary's name and are not both modelled), other
applications (their cookies have other names), titles, how a file is migrated
(`EnvFile`), and what is served once a request is admitted. A request brings any
session ever issued, or none. A page without a slash stands for a file and for
the four controlled resources, whose directory is worked out alike. A login returns
to a page, because only pages send to one. What `auth` reads first
(`loadAppConfig`, by the older rules of one file) matters only where the policy
protects nothing: then it shows a locked page for a file without a password or
goes to the application, and a password that was removed in between can get a
cookie whose version belongs to no policy; all of this is `LoginFails`. `hist` records which states of the
files a request has seen while it read, for the properties only.

### ShareGroups and ShareLifecycle

A group of lines is a record: whether it is enabled, its form (`good`; `loose`, a
token that decodes but is not what encoding gives; `bad`; `incomplete`), scope,
token, password and expiry. `Listed` is `listManagedShares`, `Links` what
`loadShareStatuses` publishes on a page, `Finds` `findShare` over
`sharesFromEnv`; each keeps its own checks and its own way to give up. One group
that cannot be read (`Spoils`) makes the lookup pass over its directory and
everything below it, while the page publishes what it collected before it met
the group, in map order: `Published` is any set of groups it may have met by
then. The comment at config.go:366-370 says such a reader "returns the closed
default"; the model follows the code.

A request searches (`ReadPolicy`, then `ReadShares` of one directory after another),
decides (`Gate`, then `Login` or `Admit`) and serves (`Serve`). Before anything of
a shared directory is opened, the target and its owner's policy are looked at again
(`LookAgain`), and then the tree below it, one directory per step (`LookBelow`),
while passwords may appear in front of the walk and behind it. The walk of the same
tree in the lookup and the one in a creation are each part of one step. `Create`, `Store`, `Delete`,
`Administer` and `Tick` change the shares and the clock meanwhile. The identity of a target is its
stamp: size and time of a file, the time of a directory. Every rewrite of a `.env` by the server
renames a file in its directory and changes that time, so a directory share
whose target holds the `.env` ends its sessions whenever that file is rewritten.
The share's own password and expiry are not part of a session's version: a
change of either leaves sessions valid.

Abstracted: the text of tokens and ids, Argon2id, cookies (a client brings any
session it was issued), the limiters (`Attempts`), the migration of a plain share
password and how a file is rewritten (`EnvFile`; here one step). One chain of
directories, as in `DirectoryPolicy`; a share's target is a file of its directory,
the subdirectory on the way, or `.`.

### Serving

`Begin` is an address that a visitor types, `Follow` a link or redirection of the
last answer. `RouteLegacy`, `RouteApp` and `RouteShare` are the route table with the
refusals each handler makes before it looks at a policy; `Look` is `authorizePolicy`
with the header it sets, `LookAtShare` the second look at a shared directory,
`Walk` one `Lstat` of `safePath` (names are model values with a look and a mark:
the extension and the first character are what the code tells apart), `LookAgain`
the second admission of a listing, `Browse`, `Preview`, `Download`, `Shell` and
`Content` the decisions by kind and size, `List` and `Open` what is done with the
result. `Place` and `Protect` are the administrator, between any two steps. A
`link` node leads outside the data root. `EntryLinks`, `ShellLinks`, `DocumentLinks`,
`Crumbs`, `StatusLinks` (the share link on an entry of a listing), `BackLink` (of the
error page) and `LandsOn` put addresses together as the templates' URLs, `safeMarkdownLink` and
`shareOpenURL` do.

`serveFile` compares the name of the opened file with the base name of the path
it opened, which is the same string: the comparison can never fail, and
the model has no such step.

`KnownDead` names the links that do not work, each by construction of the code:
a name with `_` at the top of an application, which the routes take for
themselves; `../` of the page around an HTML file below the top; the source of an
HTML file too large for it; the landing of a share on a file without a preview
(the download it allows, docs/PREVIEW-CONFIG-CONTRACT.md:136-143, is never offered);
the links of a shared Markdown document, which are those of the application; `./` of
the error page, which is no page below a route to previews; and the link that a
listing gives of a share whose definition says directory where there is a file by now.
`LinksAnswer` says that there are no others among the links of listings (entries,
crumbs, share links), of the pages around HTML files, of documents and of the error
page, and among redirections.

`renderErrorPage` replaces the `private, no-store` its callers have set by
`no-cache` (docs/PREVIEW-CONFIG-CONTRACT.md:197 asks for the former on everything
controlled). This disagrees with the contract and is left as the code has it: `Guarded`
holds that the weaker header stays with that page (no page, content, 405, 413 or 423
of what is protected has it) and that the page goes only to those who were let in, as
the comment at server.go:1219-1220 says.

Abstracted: percent-decoding (names are values), HEAD (GET without a body),
`Range`, the other security headers, MIME types, the home page and assets. A
visitor by a share's link has been let in (`ShareLifecycle`). A share's target is named
from the root, is not private (`validShareTarget`) and is not the root itself: a
directory shared as its own `.` is in `ShareLifecycle` only.

## What is checked

| Run | Module | Shows |
|---|---|---|
| `DirectoryPolicy` | `MCDirectoryPolicy` | with three files on the way and two changes of them: `PolicyWasInForce`, `ClosedStaysClosed`, `BrokenLocks`, `SessionInForce`, `LoginSuffices` (both logins), `TransparentDirectories`, and the invariant `IInv` of the proofs |
| `DirectorySessions` | `MCDirectoryPolicy` | the same of sessions across a restart, clocks that are set back and a start-up password |
| `DirectoryForm` | `MCDirectoryPolicy` | *violated*: the form of the login page returns to a page that sends to the login again |
| `ShareLifecycle` | `MCShareLifecycle` | what is served was open (`ServedWasOpen`), for whom it was logged into (`SessionForTarget`, `LoginOpens`), within its boundary (`BoundaryKept`); the three readers agree (`ReadersAgree`), but for the disagreements the code has, which are its stated exceptions: the lookup asks neither for `SHARE_ENABLED` nor for the token as it is encoded and counts the last moment in, the page does not ask for the target, and creation writes nothing they refuse (`CreatedIsReadable`) |
| `Serving` | `MCServing` | `Guarded` (of what is protected, pages, contents and refusals go only to its sessions, and all but the error page are kept out of caches; redirections and 404s are not looked at), `OutsideOnlyBySwap`, `LinksAnswer` |
| `EnvFileSafety` | `MCEnvFile` | with two requests, one administrator change, faults and a stop: `LostOnlyByRace`, `RefusedLeavesNothing`, `HalfWrittenOnlyBriefly`, `ReadableKept`, `WorkShrinks`, the invariant `IInv`, and that the file implements `EnvStore` (`StoreSpec`) |
| `EnvFileLive` | `EnvFile` | every request ends |
| `EnvFileLost` | `MCEnvFile` | *violated*: of two creations on a file that exists, the second rename removes the share of the first |
| `Attempts` | `Attempts` | limits, bounds, gate order, kept windows, and that every request is answered |
| `AttemptsUnknown` | `Attempts` | *violated*: concurrent lookups exceed the limit |
| `AppSnapshot` | `MCAppSnapshot` | `NoOlderThanOverlap`, `AnswersWereTrue`, `UnreadableRefused` |
| `AppSnapshotFresh` | `MCAppSnapshot` | *violated*: a request may consume a view older than itself |

The passing properties say what the code keeps; the four violated ones what
its comments, contract or tests say. The pairs belong together:

- `NoUpdateLost` fails because `os.Rename` replaces whatever is there by then.
  `LostOnlyByRace` says that this, and the two meetings of the `O_EXCL` path, are
  the only ways to lose anything.
- `UnknownLookupsLimited` fails because the miss is counted after the search.
  `LookupsLimited` bounds the excess by the number of requests in flight.
- `FreshSnapshot` fails because scans may be published in another order than
  they were made. `NoOlderThanOverlap` says how old a view can be: that of a
  request which published between this one's publication and its use. A scan may also
  be cut short, when the root can be listed and its entries not inspected: that is
  published like any other, and no property forbids it. `NoOlderThanOverlap` says only
  that it does not outlast the requests that overlap with it.
- `FormReturns` fails because the form posts to `auth`, which logs into the
  application. A directory with its own password, or its own `html_scripts`, needs
  another version, so the page the visitor returns to sends him to the login
  again, and the directory's own password is refused there. `LoginSuffices` says
  that this is the only way for a login to be in vain, and `SessionInForce` that
  the form's sessions open nothing more than the others.

The type invariants of `DirectoryPolicy` and `EnvFile` are checked as the first part of
their `IInv`, which is the invariant the proofs use.

`EnvStore` allows anything once `intact` is `FALSE`. It is mapped to
`races = {}`, so the refinement says: until two writers meet, every step of the
server is one update of the configuration as it stands.

`ReadableKept` says what the server may do to the size of a file. A migration does not
measure its result, so a file just below 64 KiB becomes one that no reader accepts;
nothing else the server writes does that, for a share is measured when it is added
and what it was added to cannot have changed before the rename without the rename
being of the measured document. (A save of the administrator is taken to drop or to
set plain text, so it does not enlarge a file in the model's units.)

`WorkShrinks` is the argument behind `EveryRequestEnds`, for runs with saves too:
`WorkLeft` weighs the calls left in a phase, the phases and second attempts left, and
how often a plain password may turn up again. A reader starts again only after it
has hashed one; it can find another only if somebody put it back, which takes a
save or the last step of another request.

A policy read while one file changes is one that was in force; two changes can
be mixed. If the password moves from the directory to the root in two saves, a
request that read the root before and the directory after finds none at all:
every state of the files was protected, the policy is not. So `PolicyWasInForce`
and `SessionInForce` speak of at most one change during a reading, and
`ClosedStaysClosed` and `BrokenLocks`, which count no changes, of what one
directory had all the time. The documents promise no more (a policy is folded
anew for every request, docs/PREVIEW-CONFIG-CONTRACT.md:43).

### Bounds

- `DirectoryPolicy`: a root, an application and one directory below it are every
  case of a boundary (`.`, the empty string, names); two changes make the
  smallest mixture. One request at a time is enough, because requests share
  nothing but the sessions issued, and one of those is: a login and then a
  request are run, with the changes anywhere. `DirectorySessions` gives up one
  directory and one change for a second password, a restart and a clock of two
  values, whose `Lifetime` and `Ahead` of 0 make both ends of the age window bite.
- `DirectoryForm` needs no change at all.
- `ShareLifecycle`: one request (requests share only the sessions issued, and a
  login comes before the visit that uses it), two directories that may own
  shares, two ids and two tokens (so that two shares can have one token), two
  changes; a clock of two values with expiries at, before and after it, and a
  `Lifetime` of 0. Two directories are enough for a boundary below the owner and
  for a spoiled directory above another.
- `Serving`: one visitor, because requests share nothing; paths of two names are
  the shortest that can have a directory swapped under them; every kind of name
  and node occurs. One change; the properties also hold with `MaxEdits` 2
  (19,751,957 states, four and a half minutes). Among the five seeds are a file that
  cannot be opened, one that is too large, a device, and a share of a directory where
  a file is.
- `EnvFile`: two requests cover every pair of writers, and the administrator is
  a third; one seed share, one password and one save suffice for every kind of
  document and change, since documents are compared as wholes. `MaxSize` 2 lets a
  creation fail for size and a migration produce a file that is too large. The
  liveness run has no administrator: each of his saves can make a reader start
  again, and their number is bounded anyway. `EnvFileLost` starts with a file in place and has no
  administrator, so that every write in it compares and renames (`RewritesSpec`).
- `Attempts`: limit 2, window 2 and clock 0..3 let a window begin, fill, end and
  begin again; capacity 1 with two sources evicts at every second key.
  `AttemptsUnknown` needs one source.
- `AppSnapshot`: three requests, so that one can be overtaken by a second while
  a third publishes; two names; three numbered changes of the root.

Deadlock is not checked where requests run once and everything may be done.

### Fairness

`EnvFile!FairSpec` assumes that a request that has started takes its next step:
file system calls return and Go schedules every goroutine. `Attempts!FairSpec`
assumes the same of a request that has begun (a derivation takes bounded time);
a request waiting for the gate can move only when it is the head of the queue,
which is Go's order. New requests, the clock, the administrator and the end of
the process are never assumed to happen.

## What is proved

TLAPS checks these for all values of the constants that meet the modules'
assumptions (`FoldedPolicyAssumption`, `DirectoryPolicyAssumption`, `ShareGroupsAssumption`,
`ShareLifecycleAssumption`, `ServingAssumption`, `EnvDocAssumption`,
`LimiterAssumption`, `AttemptsAssumption`, `EnvFileAssumption`). Every safety
invariant and every action property of the passing runs is proved. Most sets may be
infinite. `EnvFileAssumption` (finitely many requests and seed shares, a number of
saves) is used by `OutgrownOnlyByHash` and `RequestsProgress`, where a size and the number
of unfinished requests are counted, and by `Inductive`, whose part `MeasuredInv` is about
sizes; what is proved about lost updates rests on `StaysSteady`, which does not need it.

- `DirectoryPolicyProofs`: `TypeCorrect`, `Inductive`, `ClosedIsNotOpened` and
  `BrokenIsLocked`, for any depth and any number of changes. `Folding` says of a
  request that is reading that no position behind it was closed (or broken) in
  every state it has seen, unless its policy shows it; it needs to know that the
  last state seen agrees with the files on its way, since what is read next is a
  file as it is now. More states seen only take from what was "all the time" so.
  `ReadsWhatWas` (a policy read while at most one file changed was in force) has an
  invariant of its own: before a change what has been folded is the fold of the
  chain as it is; after one it is that of the chain before it, or of the one after
  it, whichever the position of the change still to be read decides.
  `FoldedPolicyProofs` shows that the fold, position by position, is `PolicyOf`.
  `SessionsEndWithSettings`, `LoginsAreNotInVain` and `TransparentAreNoBoundary` need
  to know what a session is bound to (`SInv`): its version says nothing that its
  settings and the start-up password do not (`Tells`, `ToldOnce`), and the settings
  of a session that is as new as the last change are those of the files as they are.
- `ShareLifecycleProofs`: `TypeCorrect`, `Inductive` and all six properties of the
  run. The invariant says of each stage of a request what it has in hand: the
  share it carries was open in a state it has seen, no directory it has passed
  was unusable all that time, and, as long as nothing changed, share and policy are those of the
  data now. `ReadersNeverDisagree` needs no invariant but the types: it is a fact
  about the lines of any file, through the map-order choice in `Published`.
- `ServingProofs`: `TypeCorrect`, `Inductive`, `ProtectedIsGuarded`,
  `NothingElseLeadsOut`, `LinksInductive` and `LinksAreAnswered`. The invariant `Going`
  says that the part of a path already walked is free of links, or something on it has
  changed; that a request let in has seen a policy which let it in; and that its
  header is set unless that policy was public. For the links, `LinkInv` says that every
  link of the page is dead by the list or is `Live` in the data as they are: it is the
  gate of a share whose target is there, or it `Stands`: the route admits it, no link
  node is on its way, and what is there is of the kind the handler wants; and that a request which follows a link carries the part of this its stage
  still needs. The links of a document need that the code's turn-by-turn
  reading of `../` (`Followed`) names what the author meant (`Meant`): `FollowedIsMeant`, by
  induction on the turns, which `Upwards` makes an induction on a set of numbers
  through `WellFoundedInduction`, since no theorem with an operator parameter can be used.
- `EnvFileProofs`: `TypeCorrect`, `Inductive`, `NothingLostQuietly`,
  `NothingLeftBehind`, `HalvesAreBrief`, `OutgrownOnlyByHash`, `RequestsProgress`. The safety
  properties are not inductive:
  that an acknowledged share is in the file needs to know that what a request is
  about to rename is one rewrite of what it compared (`LocalInv`), what the file
  of a creator holds at each of its steps (`OwnInv`), and which shares can be in
  a file at all (`PlacedInv`). `IInv` is their conjunction with the properties;
  `PlacedInv` is needed, and holds, only while `races` is empty. `MeasuredInv` (what a
  request is about to replace could be read, and what it adds a share to has room)
  gives `OutgrownOnlyByHash`, races or not. For `RequestsProgress`, `PutBack` says that a
  step which makes the password plain again is a save or ends its request, so
  `Reversions` falls with it; `Nearer` lists the ways a call may move its request,
  and `Moves` shows each to leave less work.
- `EnvFileRefinement`: `Refinement`, `Spec => StoreSpec`. Each step of `EnvFile` is
  a step of `EnvStore` or a stutter; `Rename` uses `LocalInv` to see that the
  updated document is `AddShare`, `DropShare` or `HashPassword` of the current one.
- `AttemptsProofs`: `TypeCorrect`, `TablesBounded` (a refusal stores an entry without
  trimming, but only for a key the table already holds), `GateKept` (gate and
  local states agree, each request queues once), `AttemptsKept`, and
  `SearchesBounded`: the misses of a key and the lookups of it in flight are
  together less than the limit and the number of requests, because a lookup only
  goes in while the table's count, which is at least that of the misses since
  the entry was made, is below the limit. `ChecksSpread` (`LoginsLimited`): the checks of
  the window that runs are the last ones of the history, as many as it counts, the
  first of them opened it (`Knows`); a window opens when the one before has ended, so
  what lies a limit's worth before it is a window older (`NextWindow`), and two
  windows' worth span one.
- `AppSnapshotProofs`: `TypeCorrect`, `NothingOlder`, `AnswersTrue`,
  `NeverFromThePast`. The invariant `SeenInv` says whose view the published snapshot
  is for each request about to consume it; `Recorded` says that what was seen
  only grows for a request in flight.

Model-checked only: `EveryRequestEnds` and `EveryAttemptAnswered`, which are liveness (the
prover has no `ENABLED`). What `EveryRequestEnds` adds to `RequestsProgress` is that a
running request always has a call to make.

## Not modelled

- Percent-decoding and the texts of names (`decodePathSegments`): a sequential
  function that tests reach; names are model values.
- The home page, assets, the security headers other than `Cache-Control`, range
  requests: no state, one condition each.
- Root configuration: read once at start, sequentially; its result is `startup`.
- The body of a rendered Markdown document (`goldmark`, `x/net/html`), the
  browser's code, the version, packaging.
- The search of all applications for a token is one chain of directories: two
  applications differ only in whose `.env` is read first.
- Temporary files that a killed process leaves behind: no code reads them.
- Cookie attributes, and the bytes of hashes and signatures.
