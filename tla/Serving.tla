------------------------------ MODULE Serving ------------------------------
(***************************************************************************)
(* How a request for something of an application is answered: the routes,   *)
(* the looks at the policy, the walk to the file, the opening, the header   *)
(* that keeps answers out of caches, and the links of the pages it gives.   *)
(* Between any two of its steps the administrator may put something else    *)
(* where the request is going.                                              *)
(*                                                                          *)
(* Whose session opens which policy is DirectoryPolicy's subject, whose      *)
(* link opens which share ShareLifecycle's; here a policy has a version,     *)
(* and requests by a share's link have been let in.  HEAD is answered like   *)
(* GET, without a body.                                                      *)
(***************************************************************************)
EXTENDS Integers, FiniteSets, SequencesExt

CONSTANTS
    Names,      \* names of directory entries
    Sub,        \* the name that may be a directory below the application
    Raws,       \* relative links in Markdown documents
    Targets,    \* paths that visitors type
    Seeds,      \* the data before the first request
    Placed,     \* what the administrator puts somewhere
    Policies,   \* what the administrator makes of the policies
    Up,         \* ".." in such a link
    NoLink,
    MaxEdits    \* bound: changes of the data

\* What the name says of a file, and how it begins.
Name == [look : {"html", "markdown", "text", "image", "other"}, mark : {"", "_", "."}]

Paths == SeqOf(Names, 2)

Dirs == {<<>>, <<Sub>>}
Places == Dirs \cup {<<n>> : n \in Names} \cup {<<Sub, n>> : n \in Names \ {Sub}}

\* "big": a file that is too large to be previewed as text; "shut": one that
\* cannot be opened; "closed": a directory that cannot be listed; "link": a link
\* to something outside the data root.
Nodes == {"none", "file", "big", "shut", "dir", "closed", "link", "device"}

\* Sessions are bound to the version; 0 is that of none.
Versions == 0 .. 2
Policy == [state : {"public", "protected", "locked"}, version : Versions]

Locked == [state |-> "locked", version |-> 0]

Private(path) == \E i \in DOMAIN path : path[i].mark = "."

\* What is shared, by its name: a directory shared as its own "." is not here.
Share == {share \in [scope : {"file", "directory"}, target : Places \ {<<>>}, download : BOOLEAN] :
              ~Private(share.target)}

Data == [node : [Places -> Nodes], policy : [Dirs -> Policy], share : Share]

\* An address: the route, the path below it, and a trailing slash.
Via == {"app", "legacy", "share"}
Ops == {"browse", "preview", "download", "html", "html-content", "gate"}
Address == [via : Via, op : Ops, path : Paths, slash : BOOLEAN]

\* A link of a page, and what who wrote the page means by it.
Link == [to : Address, wants : Paths, from : {"typed", "page", "back", "landing", "status", "error",
                                             "document", "shared document"}]

ASSUME ServingAssumption ==
    /\ Names \subseteq Name /\ Sub \in Names /\ Sub.mark = ""
    /\ MaxEdits \in Nat
    /\ Targets \subseteq Paths
    /\ Placed \subseteq Nodes
    /\ Seeds \subseteq Data
    /\ Policies \subseteq [Dirs -> Policy]
    /\ Up \notin Names
    /\ Raws \subseteq Seq(Names \cup {Up})
    /\ NoLink \notin Link \cup Paths

VARIABLES
    data,       \* the files, the policies and the share
    req,        \* the request, and its answer
    seen,       \* what there was while it ran
    page,       \* the links of the last answer, if nothing has changed since it was asked for
    edits       \* changes of the data so far

vars == <<data, req, seen, page, edits>>

-----------------------------------------------------------------------------
(* The data.                                                                *)

Regular(kind) == kind \in {"file", "big", "shut"}
IsDir(kind) == kind \in {"dir", "closed"}

\* What os.Lstat says of a path of an application; below a link it is what there
\* is outside.
Lstat(d, path) ==
    IF Len(path) < 2 THEN d.node[path]
    ELSE IF path \notin Places THEN "none"
    ELSE IF d.node[<<Sub>>] = "link" THEN "file"
    ELSE IF IsDir(d.node[<<Sub>>]) THEN d.node[path] ELSE "none"

At(path) == Lstat(data, path)

\* Opening a path by its name follows the links on it.
Outside(path) == \E i \in 1 .. Len(path) : At(SubSeq(path, 1, i)) = "link"

\* resolveDirectoryPolicy for whatever directory an address names: below
\* something that is no directory, `.env` cannot be inspected.
PolicyFor(d, dir) ==
    IF Private(dir) \/ \E i \in 1 .. Len(dir) :
            LET kind == Lstat(d, SubSeq(dir, 1, i)) IN Regular(kind) \/ kind = "device"
    THEN Locked
    ELSE d.policy[IF dir # <<>> /\ dir[1] = Sub /\ d.node[<<Sub>>] # "none"
                  THEN <<Sub>> ELSE <<>>]

-----------------------------------------------------------------------------
(* The links of a page.                                                     *)

\* previewFor
PreviewFor(name, kind) ==
    IF name.look = "image" THEN "image"
    ELSE IF name.look = "other" \/ kind = "big" THEN "none"
    ELSE IF name.look = "markdown" THEN "markdown" ELSE "text"

To(via, op, path, slash) == [via |-> via, op |-> op, path |-> path, slash |-> slash]

PageLink(via, op, path, slash) ==
    [to |-> To(via, op, path, slash), wants |-> path, from |-> "page"]

\* What a listing shows: nothing private, no links and no devices.
Shown(dir) ==
    {n \in Names : LET path == Append(dir, n) IN
        /\ n.mark # "." /\ path \in Places
        /\ Regular(At(path)) \/ IsDir(At(path))}

\* Mutant: a page offers to preview what is too large for it.
EntryLinksAnySize(via, path, kind) ==
    IF IsDir(kind) THEN {PageLink(via, "browse", path, TRUE)}
    ELSE {PageLink(via, "browse", path, FALSE) : v \in {via} \cap {"app"}}
      \cup {PageLink(via, "preview", path, FALSE) : k \in {PreviewFor(Last(path), "file")} \ {"none"}}
      \cup {PageLink(via, "html", path, FALSE) : l \in {Last(path).look} \cap {"html"}}
      \cup {PageLink(via, "download", path, FALSE) :
                d \in {via = "app" \/ data.share.download} \cap {TRUE}}

\* The links of one entry of a listing, of the application's or the share's.
EntryLinks(via, path, kind) ==
    IF IsDir(kind) THEN {PageLink(via, "browse", path, TRUE)}
    ELSE {PageLink(via, "browse", path, FALSE) : v \in {via} \cap {"app"}}
      \cup {PageLink(via, "preview", path, FALSE) : k \in {PreviewFor(Last(path), kind)} \ {"none"}}
      \cup {PageLink(via, "html", path, FALSE) :
                l \in {l \in {Last(path).look} : l = "html" /\ (via = "app" \/ kind # "big")}}
      \cup {PageLink(via, "download", path, FALSE) :
                d \in {via = "app" \/ data.share.download} \cap {TRUE}}

\* The way to a directory from the top, without the directory itself.
Crumbs(dir) == {PageLink("app", "browse", SubSeq(dir, 1, i), TRUE) : i \in {0} \cup 1 .. Len(dir) - 1}

\* The link of the share, on the entry with its name where that can be previewed
\* in place; what the definition says of the target is not looked at.
StatusLinks(dir) ==
    LET target == data.share.target IN
    IF /\ dir = Front(target) /\ Last(target) \in Shown(dir)
       /\ Regular(At(target)) /\ Last(target).look # "html"
       /\ PreviewFor(Last(target), At(target)) # "none"
    THEN {[to |-> To("share", "gate", <<>>, TRUE), wants |-> target, from |-> "status"]}
    ELSE {}

ListingLinks(via, dir) ==
    (UNION {EntryLinks(via, Append(dir, n), At(Append(dir, n))) : n \in Shown(dir)})
      \cup (IF via = "app" THEN Crumbs(dir) \cup StatusLinks(dir) ELSE {})

\* The page around an HTML file.  "../" is one up from the address of the page.
ShellLinks(via, path) ==
    {PageLink(via, "html-content", path, FALSE), PageLink(via, "preview", path, FALSE)}
      \cup IF via = "share" THEN {}
           ELSE {PageLink(via, "download", path, FALSE),
                 [to |-> IF Len(path) = 1 THEN To("app", "browse", <<>>, TRUE)
                         ELSE To("app", "html", Front(Front(path)), TRUE),
                  wants |-> Front(path), from |-> "back"]}

\* safeMarkdownLink: `base` as far as it got, or nothing.
Turn(base, piece) ==
    IF base = NoLink \/ (piece = Up /\ base = <<>>) THEN NoLink
    ELSE IF piece = Up THEN Front(base)
    ELSE IF piece.mark = "." THEN NoLink ELSE Append(base, piece)

Followed(base, raw) ==
    LET far[i \in 0 .. Len(raw)] == IF i = 0 THEN base ELSE Turn(far[i - 1], raw[i])
    IN  far[Len(raw)]

\* Where a relative link leads from the directory a document lies in.
Meant(dir, raw) ==
    LET ups == Cardinality({i \in DOMAIN raw : raw[i] = Up})
    IN  SubSeq(dir, 1, Len(dir) - ups) \o SubSeq(raw, ups + 1, Len(raw))

\* Mutant: a link that may not be followed is written out nevertheless.
DocumentLinksAll(segments, path) ==
    {[to |-> To("app", "browse", Followed(Front(segments), raw), FALSE),
      wants |-> Meant(Front(path), raw),
      from |-> IF segments = path THEN "document" ELSE "shared document"] :
        raw \in {raw \in Raws : Meant(Front(path), raw) \in Paths}}

\* `segments` is what the handler says the path of the document is.
DocumentLinks(segments, path) ==
    {[to |-> To("app", "browse", Followed(Front(segments), raw), FALSE),
      wants |-> Meant(Front(path), raw),
      from |-> IF segments = path THEN "document" ELSE "shared document"] :
        raw \in {raw \in Raws : /\ Followed(Front(segments), raw) \in Paths \ {<<>>}
                                /\ Meant(Front(path), raw) \in Paths}}

-----------------------------------------------------------------------------
(* A request.                                                               *)

Request == [phase : {"idle", "route", "look", "again", "safe", "walk", "found",
                     "list", "open", "done"},
            to : Address, get : BOOLEAN, session : Versions,
            link : Link \cup {NoLink},
            at : 0 .. 2, kind : Nodes, open : BOOLEAN,
            store : {"", "no-cache", "no-store"},
            status : {"", "200", "redirect", "404", "405", "413", "423", "error page"},
            shows : {"", "listing", "file", "outside"}]

Idle == [phase |-> "idle", to |-> To("app", "browse", <<>>, TRUE), get |-> TRUE,
         session |-> 0, link |-> NoLink, at |-> 0, kind |-> "none", open |-> FALSE,
         store |-> "", status |-> "", shows |-> ""]

\* The directory whose policy has to open what an address shows.
HomeOf(to) == IF to.op = "browse" /\ to.slash THEN to.path ELSE Front(to.path)

\* While the request ran: the policies that directory had, the places where
\* something was changed, and whether nothing was.
Seen == [had : SUBSET Policy, changed : SUBSET Places, steady : BOOLEAN]

AtFirst(to) == [had |-> {PolicyFor(data, HomeOf(to))}, changed |-> {}, steady |-> TRUE]

TypeOK ==
    /\ data \in Data
    /\ req \in Request
    /\ seen \in Seen
    /\ page \subseteq Link
    /\ edits \in 0 .. MaxEdits

Init ==
    /\ data \in Seeds
    /\ req = Idle
    /\ seen = [had |-> {}, changed |-> {}, steady |-> TRUE]
    /\ page = {}
    /\ edits = 0

\* An address that is typed.  A session (0: none) opens the policy of its version.
Begin ==
    /\ req.phase = "idle"
    /\ \E to \in [via : Via, op : Ops, path : Targets, slash : BOOLEAN],
          get \in BOOLEAN, session \in Versions :
          /\ req' = [Idle EXCEPT !.phase = "route", !.to = to, !.get = get, !.session = session]
          /\ seen' = AtFirst(to)
    /\ UNCHANGED <<data, page, edits>>

\* A link of the last answer, or a redirection, is followed.
Follow ==
    /\ req.phase = "done"
    /\ \E link \in page :
          /\ req' = [Idle EXCEPT !.phase = "route", !.to = link.to, !.link = link,
                                 !.session = req.session]
          /\ seen' = AtFirst(link.to)
    /\ page' = {}
    /\ UNCHANGED <<data, edits>>

Go(q) == req' = q /\ UNCHANGED <<data, seen, page, edits>>

Answer(q, status, shows, links) ==
    /\ req' = [q EXCEPT !.phase = "done", !.status = status, !.shows = shows]
    /\ page' = IF seen.steady THEN links ELSE {}
    /\ UNCHANGED <<data, seen, edits>>

NotFound == Answer(req, "404", "", {})

Redirect(q, to, from) ==
    Answer(q, "redirect", "", {[to |-> to, wants |-> to.path, from |-> from]})

\* The way back from such a page: for a listing the listing itself, for a file
\* "./", from wherever the route has its address.
BackLink ==
    LET to == req.to IN
    [to |-> IF to.op = "browse" THEN To("app", "browse", HomeOf(to), TRUE)
            ELSE IF to.via = "share" /\ data.share.scope = "file"
            THEN To("share", "gate", <<>>, TRUE)
            ELSE To(to.via, "preview", Front(to.path), TRUE),
     wants |-> HomeOf(to), from |-> "error"]

\* The page that says that something cannot be read.
ErrorPage == Answer([req EXCEPT !.store = "no-cache"], "error page", "", {BackLink})

-----------------------------------------------------------------------------
(* Routes.                                                                  *)

\* A directory that is shared has to lie within its owner's boundary.
DirectoryShareSafe ==
    /\ IsDir(At(data.share.target))
    /\ data.policy[<<Sub>>].state = "protected"
    /\ data.policy[<<Sub>>] = data.policy[<<>>]

\* What findShare asks of the target (the rest of the lookup is ShareLifecycle's).
ShareThere ==
    IF data.share.scope = "directory" THEN DirectoryShareSafe
    ELSE ~Outside(data.share.target) /\ Regular(At(data.share.target))

\* Addresses of earlier versions are sent on, those of the four resources only
\* where they can be ones.
LegacyRefuses(to, get) ==
    \/ ~get \/ Private(to.path)
    \/ to.op \in {"html", "html-content", "gate"}
    \/ to.op # "browse" /\ (to.path = <<>> \/ to.slash)

\* A first segment with "_" is a route.  The resources look at their path before
\* they ask for a session, a page afterwards (Walk).
AppRefuses(to, get) ==
    IF to.op = "browse" THEN to.path # <<>> /\ to.path[1].mark = "_"
    ELSE to.op = "gate" \/ ~get \/ to.path = <<>> \/ to.slash \/ Private(to.path)

ShareRefuses(to, get) ==
    IF ~ShareThere THEN TRUE
    ELSE IF to.op = "gate" THEN ~get
    ELSE IF data.share.scope = "file"
    THEN to.path # data.share.target \/ to.slash \/ to.op = "browse"
    ELSE ~get \/ ~IsPrefix(data.share.target, to.path) \/ Private(to.path)

\* Where the visitor of a share goes who has the password.
LandsOn ==
    IF data.share.scope = "directory" THEN To("share", "browse", data.share.target, TRUE)
    ELSE To("share", IF Last(data.share.target).look = "html" THEN "html" ELSE "preview",
            data.share.target, FALSE)

\* The first look is at the directory of what is asked for.
LookDir(to) == IF to.op = "browse" /\ to.slash THEN to.path ELSE Front(to.path)

RouteLegacy ==
    LET to == req.to IN
    /\ req.phase = "route" /\ to.via = "legacy"
    /\ IF LegacyRefuses(to, req.get) THEN NotFound
       ELSE Redirect(req, To("app", to.op, to.path, to.slash \/ to.path = <<>>), "typed")

RouteApp ==
    LET to == req.to IN
    /\ req.phase = "route" /\ to.via = "app"
    /\ IF AppRefuses(to, req.get) THEN NotFound
       ELSE IF to.path = <<>> /\ ~to.slash THEN Redirect(req, [to EXCEPT !.slash = TRUE], "page")
       ELSE Go([req EXCEPT !.phase = "look"])

RouteShare ==
    LET to == req.to IN
    /\ req.phase = "route" /\ to.via = "share"
    /\ IF ShareRefuses(to, req.get) THEN NotFound
       ELSE IF to.op = "gate" THEN Redirect(req, LandsOn, "landing")
       ELSE Go([req EXCEPT !.phase = IF data.share.scope = "file" THEN "walk" ELSE "safe"])

\* Mutant: only refusals are kept out of caches.
AuthorizeQuietly(q, p, next) ==
    IF p.state = "public" THEN Go([q EXCEPT !.phase = next, !.open = TRUE])
    ELSE LET kept == [q EXCEPT !.store = "no-store"] IN
         IF p.state = "locked" THEN Answer(kept, "423", "", {})
         ELSE IF q.session # p.version THEN Answer(kept, "redirect", "", {})
         ELSE Go([q EXCEPT !.phase = next, !.open = FALSE])

\* authorizePolicy: the header is set before anything else happens.
Authorize(q, p, next) ==
    LET kept == [q EXCEPT !.store = "no-store"] IN
    IF p.state = "public" THEN Go([q EXCEPT !.phase = next, !.open = TRUE])
    ELSE IF p.state = "locked" THEN Answer(kept, "423", "", {})
    ELSE IF q.session # p.version THEN Answer(kept, "redirect", "", {})
    ELSE Go([kept EXCEPT !.phase = next, !.open = FALSE])

Look ==
    /\ req.phase = "look"
    /\ Authorize(req, PolicyFor(data, LookDir(req.to)), "walk")

\* It is looked at once more when the visitor has been let in.
LookAtShare ==
    /\ req.phase = "safe"
    /\ IF DirectoryShareSafe THEN Go([req EXCEPT !.phase = "walk"]) ELSE NotFound

-----------------------------------------------------------------------------
(* The walk.                                                                *)

\* Mutant: only what the path ends at is looked at.
StepsAll(path) == {Len(path)}

\* resolveSafePath looks at one component after the other.
Steps(path) == 1 .. Len(path)

\* Where the walk begins: the application, or what holds what is shared.
Root(to) ==
    IF to.via # "share" THEN <<>>
    ELSE IF data.share.scope = "directory" THEN data.share.target
    ELSE Front(data.share.target)

Walk ==
    LET path == req.to.path
        i == req.at + 1
        kind == At(SubSeq(path, 1, i))
    IN  /\ req.phase = "walk"
        /\ IF ~req.get /\ req.to.via = "app"
           THEN Answer(req, "405", "", {})
           ELSE IF Private(path) THEN NotFound
           ELSE IF req.at = Len(path)
           THEN Go([req EXCEPT !.phase = "found", !.kind = IF path = <<>> THEN "dir" ELSE req.kind])
           ELSE IF \/ i \in Steps(path) /\ kind \in {"none", "link", "device"}
                   \/ i <= Len(Root(req.to)) /\ ~IsDir(kind)
           THEN NotFound
           ELSE Go([req EXCEPT !.at = i, !.kind = kind])

\* What the handlers of the routes make of what is there.
Found(ops) == req.phase = "found" /\ req.to.op \in ops

Kept == [req EXCEPT !.store = "no-store"]

Looks(look) == Last(req.to.path).look = look

Browse ==
    LET to == req.to IN
    /\ Found({"browse"})
    /\ IF ~IsDir(req.kind)
       THEN IF to.via = "share" THEN NotFound
            ELSE IF Looks("html") THEN Redirect(req, To("app", "html", to.path, FALSE), "page")
            ELSE Go([req EXCEPT !.phase = "open"])
       ELSE IF ~to.slash THEN Redirect(req, [to EXCEPT !.slash = TRUE], "page")
       ELSE IF to.via = "app" THEN Go([req EXCEPT !.phase = "again"])
       ELSE Go([Kept EXCEPT !.phase = "list"])

\* A Markdown document of the application is taken for one whatever its size.
Preview ==
    LET preview == PreviewFor(Last(req.to.path), req.kind) IN
    /\ Found({"preview"})
    /\ IF ~Regular(req.kind) THEN NotFound
       ELSE IF preview # "none" THEN Go([Kept EXCEPT !.phase = "open"])
       ELSE IF req.to.via = "app" /\ Looks("markdown") THEN Answer(Kept, "413", "", {})
       ELSE NotFound

Download ==
    /\ Found({"download"})
    /\ IF ~Regular(req.kind) \/ (req.to.via = "share" /\ ~data.share.download) THEN NotFound
       ELSE Go([Kept EXCEPT !.phase = "open"])

Shell ==
    /\ Found({"html"})
    /\ IF ~Regular(req.kind) \/ ~Looks("html") THEN NotFound
       ELSE Answer(Kept, "200", "", ShellLinks(req.to.via, req.to.path))

Content ==
    /\ Found({"html-content"})
    /\ IF ~Regular(req.kind) \/ ~Looks("html") THEN NotFound
       ELSE Go([Kept EXCEPT !.phase = "open"])

\* A listing is looked at again, now that it is known to be one.
LookAgain ==
    /\ req.phase = "again"
    /\ Authorize(req, PolicyFor(data, req.to.path), "list")

-----------------------------------------------------------------------------
(* The answer.                                                              *)

List ==
    LET path == req.to.path
        final == IF req.to.via = "app" /\ req.open THEN [req EXCEPT !.store = "no-cache"] ELSE req
    IN  /\ req.phase = "list"
        /\ IF Outside(path) THEN Answer(final, "200", "outside", {})
           ELSE IF At(path) # "dir"
           THEN IF req.to.via = "app" THEN ErrorPage ELSE NotFound
           ELSE Answer(final, "200", "listing", ListingLinks(req.to.via, path))

\* Whether the handler of the route renders a document.
Renders(to) == to.op = "preview" /\ Last(to.path).look = "markdown"

\* The path of the document for its links: of a share it begins with the name
\* in the definition.
Segments(to) ==
    IF to.via = "share"
    THEN SubSeq(to.path, Len(data.share.target), Len(to.path))
    ELSE to.path

\* The file is opened by its path, and has to be a regular one.
Open ==
    LET to == req.to
        kind == At(to.path)
    IN  /\ req.phase = "open"
        /\ IF Outside(to.path) THEN Answer(req, "200", "outside", {})
           ELSE IF kind \in {"none", "shut", "closed"}
           THEN IF to.op \in {"browse", "preview"} /\ ~Renders(to) THEN ErrorPage ELSE NotFound
           ELSE IF ~Regular(kind) THEN NotFound
           ELSE IF Renders(to)
           THEN IF kind = "big" THEN Answer(req, "413", "", {})
                ELSE Answer(req, "200", "file", DocumentLinks(Segments(to), to.path))
           ELSE Answer(req, "200", "file", {})

-----------------------------------------------------------------------------

\* The administrator puts something else at a place, or changes the policies.
Change(d, places) ==
    /\ edits < MaxEdits
    /\ d # data
    /\ data' = d
    /\ edits' = edits + 1
    /\ page' = {}
    /\ IF req.phase \in {"idle", "done"}
       THEN UNCHANGED seen /\ req' = [req EXCEPT !.link = NoLink]
       ELSE /\ seen' = [had |-> seen.had \cup {PolicyFor(d, HomeOf(req.to))},
                        changed |-> seen.changed \cup places, steady |-> FALSE]
            /\ req' = [req EXCEPT !.link = NoLink]

Place(at, kind) ==
    /\ IsDir(kind) => at = <<Sub>>
    /\ Change([data EXCEPT !.node[at] = kind], {at})

Protect(policy) == Change([data EXCEPT !.policy = policy], {})

Next ==
    \/ Begin \/ Follow \/ RouteLegacy \/ RouteApp \/ RouteShare
    \/ Look \/ LookAtShare \/ Walk \/ LookAgain
    \/ Browse \/ Preview \/ Download \/ Shell \/ Content
    \/ List \/ Open
    \/ \E at \in Places \ {<<>>}, kind \in Placed : Place(at, kind)
    \/ \E policy \in Policies : Protect(policy)

Spec == Init /\ [][Next]_vars

-----------------------------------------------------------------------------
(* Properties.                                                              *)

\* Of a directory that was protected or locked all the time a page, its content
\* or a refusal of what was asked for is given only to a session of one of its
\* versions (or to one let in by a share), and is kept out of caches, as is the
\* refusal of a locked one.  The error page is given to no one else either, but
\* it is not kept out: renderErrorPage's comment promises only the first.
\* Redirections, and answers that something is not there, are left out: some
\* routes give them before they ask for a session.
Guarded ==
    req.phase = "done" /\ (\A p \in seen.had : p.state # "public")
        => /\ req.status \in {"200", "405", "413", "423"} => req.store = "no-store"
           /\ req.status \in {"200", "405", "413", "error page"} =>
                 \/ req.to.via = "share"
                 \/ \E p \in seen.had : p.state = "protected" /\ p.version = req.session

\* Nothing outside the data root is shown, unless something on the path itself
\* was replaced while the request ran.
OutsideOnlyBySwap ==
    req.phase = "done" /\ req.shows = "outside"
        => \E i \in 1 .. Len(req.to.path) : SubSeq(req.to.path, 1, i) \in seen.changed

\* A link that is known not to work: a name with "_" at the top is taken for a
\* route; "../" of an HTML file's page is one directory short unless the file is
\* at the top; the page offers the source of a file too large for it; a share of
\* a file that has no preview lands on the preview; a shared document's links
\* are those of the application, from the directory of the share as its top;
\* "./" of the error page is no page below a route to previews; and a listing
\* gives the link of a share of a directory where there is a file by now.
KnownDead(link) ==
    \/ link.from = "error" /\ link.to.op = "preview"
    \/ link.from = "status" /\ data.share.scope = "directory"
    \/ link.to.via = "app" /\ link.to.op = "browse" /\ link.to.path # <<>>
       /\ link.to.path[1].mark = "_"
    \/ link.from = "back" /\ link.wants # <<>>
    \/ link.to.op = "preview" /\ Last(link.to.path).look = "html"
       /\ At(link.to.path) = "big"
    \/ link.from = "landing" /\ PreviewFor(Last(link.to.path), At(link.to.path)) = "none"
    \/ link.from = "shared document"

\* Every other link or redirection that a page of an application or a share
\* gives (entries, crumbs and share links of a listing, the pages around HTML
\* files, Markdown documents, the error page) leads to something, as long as
\* nothing changes and what it is meant for is there and can be read.
LinksAnswer ==
    req.phase = "done" /\ req.status = "404" /\ req.link # NoLink
        => \/ req.link.from = "typed"
           \/ KnownDead(req.link)
           \/ Outside(req.link.wants)
           \/ At(req.link.wants) \notin {"file", "big", "dir"}

=============================================================================
