----------------------------- MODULE Checkouts ------------------------------
(* Which project a directory answers for, on one machine.  A project is     *)
(* identified by its repository: `self project init` and `project link`     *)
(* write a line in the machine's link ledger and a marker `.self` beside    *)
(* the code; every later command asks the marker that governs its           *)
(* directory, then the repository, then the marker carried across to this   *)
(* working tree (cli paths.ts, main.ts).  Around it the person's tree       *)
(* changes: checkouts and worktrees are made, removed, replaced and moved.  *)
(*                                                                          *)
(* A path is the tuple of its names.  Some paths are Tops, where a checkout *)
(* or a plain folder can stand; what stands in one is a repository, and two *)
(* tops holding the same one are its worktrees, while a clone is another    *)
(* repository with the same identity.                                       *)
EXTENDS Integers, FiniteSets, SequencesExt

CONSTANTS
    Paths,        \* every directory of the instance, each a tuple of names
    Tops,         \* those a checkout, or a folder of its own, can stand at
    Repos,        \* the repositories
    Identity,     \* of a repository: the commit its history starts from
    NoClaim,      \* ... which an empty one, or a plain folder, has not
    Slugs,
    Folder, Gone, \* what stands at a top that holds no repository
    None,
    Trees,        \* what may stand at the tops to begin with
    MaxActs,      \* bound: project commands
    MaxMoves,     \* bound: changes to the tree around them
    MaxDeaths     \* bound: registrations cut between two of their writes

\* the instance holds every directory above one of its own, and the first of
\* them is a place where something can stand
ASSUME PathsAssumption ==
    /\ Tops \subseteq Paths
    /\ \A p \in Paths : /\ p \in Seq(Range(p)) /\ p # <<>> /\ <<p[1]>> \in Tops
                        /\ \A n \in 1..Len(p) : SubSeq(p, 1, n) \in Paths
ASSUME IdentityAssumption == DOMAIN Identity = Repos
\* what holds something stands itself
ASSUME TreesAssumption ==
    /\ Trees \subseteq [Tops -> Repos \cup {Folder, Gone}]
    /\ \A tree \in Trees, t \in Tops : tree[t] # Gone =>
           \A n \in 1..Len(t) : SubSeq(t, 1, n) \in Tops => tree[SubSeq(t, 1, n)] # Gone
ASSUME ValuesAssumption ==
    {Folder, Gone, None} \cap Repos = {} /\ Folder # Gone /\ None \notin Slugs \cup Paths

VARIABLES
    stands,    \* what each top holds
    marker,    \* the project each directory's `.self` names
    links,     \* links.jsonl as it is replayed: of each project, the paths it is
               \* linked at and what stood there, in order
    lines,     \* ... and what any line of it says of a path, withdrawn or not
    registry,  \* the slugs of registry.jsonl, in its order
    claims,    \* ghost: what each command was asked of a place, and whether a
               \* person said it of the place by name
    acts, moves, deaths

vars == <<stands, marker, links, lines, registry, claims, acts, moves, deaths>>

-----------------------------------------------------------------------------
(* The tree, as git and the file system answer about it                     *)

Holds(parent, child) ==
    Len(parent) <= Len(child) /\ SubSeq(child, 1, Len(parent)) = parent
Deepest(S) == CHOOSE p \in S : \A q \in S : Len(q) <= Len(p)
Relative(top, p) == SubSeq(p, Len(top) + 1, Len(p))

\* the tops a directory lies in, and the nearest
Above == [p \in Paths |-> {t \in Tops : Holds(t, p)}]
Nearest == [p \in Paths |-> Deepest(Above[p])]

Exists(p) == stands[Nearest[p]] # Gone

\* the working tree a directory sits in, the one repository behind all of its
\* worktrees, and what that repository is told apart by
TopOf(p) ==
    LET over == {t \in Above[p] : stands[t] \in Repos}
    IN  IF Exists(p) /\ over # {} THEN Deepest(over) ELSE None

CommonDir(p) == IF TopOf(p) = None THEN None ELSE stands[TopOf(p)]
RepositoryIdentity(p) == IF CommonDir(p) = None THEN NoClaim ELSE Identity[CommonDir(p)]

-----------------------------------------------------------------------------
(* The link ledger, as its lines are replayed and as they stand             *)

RecordedPaths(slug) == {link.path : link \in Range(links[slug])}
LinkedPaths(slug) == {p \in RecordedPaths(slug) : Exists(p)}

\* Mutant: a link holds while anything stands at its path.
PathStands(link) == link.repository = NoClaim \/ Exists(link.path)

\* a link that claimed no identity is left alone; another holds while what
\* stands at its path is what was linked there
SameRepository(link) ==
    link.repository = NoClaim \/ RepositoryIdentity(link.path) = link.repository
Standing(link) == ~Exists(link.path) \/ SameRepository(link)

\* the links of a list at these places, in its order
Kept(linked, at) ==
    [k \in 1..Cardinality(at) |-> linked[CHOOSE i \in at : Cardinality({j \in at : j <= i}) = k]]
Without(linked, p) == Kept(linked, {i \in DOMAIN linked : linked[i].path # p})

\* Mutant: a claim made where nothing told repositories apart is stale too.
ClaimlessIsStale(p, identity) ==
    \E line \in lines : line.path = p /\ line.repository # identity

\* a line of this path, of any project and pruned or not, claims what stands
\* there no more
Stale(p, identity) ==
    identity # NoClaim /\ \E line \in lines : line.path = p /\ line.repository \notin {NoClaim, identity}

\* a stale claim takes every line of the path with it; a link that stands is
\* not made twice
RecordLink(slug, p) ==
    LET identity == RepositoryIdentity(p)
        link == [path |-> p, repository |-> identity]
    IN  IF Stale(p, identity)
        THEN /\ links' = [s \in Slugs |-> Without(links[s], p) \o (IF s = slug THEN <<link>> ELSE <<>>)]
             /\ lines' = {line \in lines : line.path # p} \cup {link}
        ELSE IF p \in RecordedPaths(slug) THEN UNCHANGED <<links, lines>>
        ELSE /\ links' = [links EXCEPT ![slug] = Append(@, link)]
             /\ lines' = lines \cup {link}

-----------------------------------------------------------------------------
(* The project of a directory                                               *)

\* every project this machine has linked inside a working tree of a repository,
\* that tree, and where in it
RepositoryLinks(repository) ==
    UNION {{[slug |-> slug, top |-> TopOf(link.path), at |-> Relative(TopOf(link.path), link.path)] :
                link \in {l \in Range(links[slug]) :
                            CommonDir(l.path) = repository /\ SameRepository(l)}} :
           slug \in Range(registry)}

Rank(slug) == CHOOSE i \in DOMAIN registry : registry[i] = slug

\* where each of them sits in the checkout p belongs to
CheckoutMatches(p) ==
    LET here == TopOf(p) IN
    IF here = None THEN {}
    ELSE {[slug |-> found.slug, dir |-> here \o found.at] : found \in RepositoryLinks(stands[here])}

\* the deepest one that holds p, the first registered of two in one place
CheckoutProject(p) ==
    LET over == {m \in CheckoutMatches(p) : Holds(m.dir, p)}
    IN  IF over = {} THEN None
        ELSE CHOOSE m \in over : \A n \in over :
                 \/ Len(n.dir) < Len(m.dir)
                 \/ Len(n.dir) = Len(m.dir) /\ Rank(m.slug) <= Rank(n.slug)

\* a project registered already at this position of another working tree
SiblingSlug(p) ==
    LET here == TopOf(p)
        over == IF here = None THEN {}
                ELSE {found \in RepositoryLinks(stands[here]) : found.top # here /\ here \o found.at = p}
    IN  IF over = {} THEN None
        ELSE (CHOOSE m \in over : \A n \in over : Rank(m.slug) <= Rank(n.slug)).slug

FindUp(p) ==
    LET over == {m \in Paths : Holds(m, p) /\ marker[m] # None}
    IN  IF over = {} THEN None ELSE Deepest(over)

\* the nearest marker above, unless another working tree of the marker's own
\* repository stands in between
Governing(p, m) ==
    LET between == {t \in Tops : Holds(m, t) /\ t # m /\ Holds(t, p) /\ stands[t] \in Repos}
    IN  IF m = None \/ between = {} THEN m
        ELSE IF CommonDir(p) = CommonDir(m) THEN None ELSE m

\* the last answer: where the marker names, carried to this working tree
Relocated(p, m) ==
    IF m = None \/ TopOf(p) = None \/ TopOf(m) = None THEN None
    ELSE LET at == TopOf(p) \o Relative(TopOf(m), m)
         IN  IF Holds(at, p) THEN [slug |-> marker[m], dir |-> at] ELSE None

ProjectAt(p) ==
    LET m == FindUp(p)
        governs == Governing(p, m)
        match == CheckoutProject(p)
    IN  IF governs # None THEN [slug |-> marker[governs], dir |-> governs]
        ELSE IF match # None THEN match
        ELSE Relocated(p, m)

\* the one checkout a fold run from a directory writes the managed block into
ResolveProjectPath(slug, from) ==
    LET linked == links[slug]
        active == SelectInSeq(linked, LAMBDA link : Holds(link.path, from) /\ Standing(link))
        match == CheckoutProject(from)
        still == SelectLastInSeq(linked, LAMBDA link : Exists(link.path) /\ SameRepository(link))
    IN  IF active # 0 THEN linked[active].path
        ELSE IF match # None /\ match.slug = slug THEN match.dir
        ELSE IF still # 0 THEN linked[still].path
        ELSE None

\* the repositories a path stands for: its own, or those one level below it
RepositoriesAt(p) ==
    IF CommonDir(p) # None THEN {CommonDir(p)}
    ELSE {stands[t] : t \in {u \in Tops : Holds(p, u) /\ Len(u) = Len(p) + 1 /\ stands[u] \in Repos}}

\* Mutant: evidence is judged where the fold writes.
JudgeWhereItStands(slug, from) ==
    LET primary == ResolveProjectPath(slug, from)
    IN  IF primary = None \/ ~Exists(primary) THEN {} ELSE RepositoriesAt(primary)

\* the repositories the project's evidence is judged across by a fold run from
\* a directory: every standing link's, and the one the fold writes into; a link
\* of that one's repository is taken on its standing
ResolveProjectPaths(slug, from) ==
    LET primary == ResolveProjectPath(slug, from)
        key == IF primary = None THEN None ELSE CommonDir(primary)
        taken == {link \in Range(links[slug]) :
                    /\ Exists(link.path)
                    /\ \/ key # None /\ CommonDir(link.path) = key
                       \/ SameRepository(link)}
        at == {link.path : link \in taken} \cup ({primary} \ {None})
    IN  UNION {RepositoriesAt(p) : p \in {q \in at : Exists(q)}}

-----------------------------------------------------------------------------
(* The commands                                                             *)

Position(p) == IF TopOf(p) = None THEN p ELSE Relative(TopOf(p), p)

\* ghost: p is for this project; a person said so by registering it or naming the
\* project to link it to, and otherwise it was found to be
Claim(slug, p, said) ==
    [slug |-> slug, path |-> p, identity |-> RepositoryIdentity(p), position |-> Position(p),
     said |-> said]

\* another part of the repository stands at the path the claim was made at: the
\* ledger tells repositories apart, not positions in one
Shifted(c) ==
    Exists(c.path) /\ RepositoryIdentity(c.path) = c.identity /\ Position(c.path) # c.position

Acted == acts < MaxActs /\ acts' = acts + 1

LinkProject(slug, p) ==
    /\ RecordLink(slug, p)
    /\ marker' = [marker EXCEPT ![p] = slug]

\* `self project init --name slug` in p: the row, the link, the marker, in that
\* order; `upto` is the last of them it lived to write
ProjectInit(p, slug, upto) ==
    /\ Acted /\ Exists(p) /\ marker[p] = None
    /\ SiblingSlug(p) = None
    /\ slug \notin Range(registry)
    /\ deaths' = deaths + (IF upto = "marker" THEN 0 ELSE 1) /\ deaths' <= MaxDeaths
    /\ registry' = Append(registry, slug)
    /\ CASE upto = "row" -> UNCHANGED <<links, lines, marker>>
         [] upto = "link" -> RecordLink(slug, p) /\ UNCHANGED marker
         [] upto = "marker" -> LinkProject(slug, p)
    /\ claims' = claims \cup {Claim(slug, p, TRUE)}
    /\ UNCHANGED <<stands, moves>>

\* the project a link that names none is for: the one this directory answers
\* for by its repository; one registered below it does not count
InferredSlug(p) == IF CheckoutProject(p) = None THEN None ELSE CheckoutProject(p).slug

\* another repository beside the ones the project has is linked with --force
Linkable(slug, p) ==
    LET linked == LinkedPaths(slug) IN
    \/ linked = {}
    \/ \E at \in linked : Holds(at, p)
    \/ /\ CommonDir(p) # None
       /\ \/ RepositoryIdentity(p) = NoClaim
          \/ \E at \in linked : RepositoryIdentity(at) = RepositoryIdentity(p)

\* `self project link [slug] p [--force]`; a word of force matters only where the
\* link needs it
ProjectLink(p, named, force) ==
    LET slug == IF named = None THEN InferredSlug(p) ELSE named IN
    /\ Acted /\ Exists(p)
    /\ slug \in Range(registry)
    /\ Linkable(slug, p) # force
    /\ LinkProject(slug, p)
    /\ claims' = claims \cup
           {Claim(slug, p, named # None \/ \E c \in claims : c.slug = slug /\ Shifted(c))}
    /\ UNCHANGED <<stands, registry, moves, deaths>>

\* `self project unlink slug p [--force]`, of any path recorded for it, gone ones
\* included: the link and the marker together; the only checkout left goes with
\* --force, which matters nowhere else
ProjectUnlink(slug, p, force) ==
    /\ Acted
    /\ slug \in Range(registry) /\ p \in RecordedPaths(slug)
    /\ (LinkedPaths(slug) = {p}) = force
    /\ links' = [links EXCEPT ![slug] = Without(@, p)]
    /\ marker' = IF marker[p] = slug THEN [marker EXCEPT ![p] = None] ELSE marker
    /\ UNCHANGED <<stands, lines, registry, claims, moves, deaths>>

\* pruneDeadLinks, in every sweep of the workspace: the links whose path is gone
PruneDeadLinks ==
    /\ links' = [s \in Slugs |-> Kept(links[s], {i \in DOMAIN links[s] : Exists(links[s][i].path)})]
    /\ links' # links
    /\ UNCHANGED <<stands, marker, lines, registry, claims, acts, moves, deaths>>

-----------------------------------------------------------------------------
(* The tree around them                                                     *)

Under(p, t) == Holds(t, p)
Moved == moves < MaxMoves /\ moves' = moves + 1

\* a clone, a worktree, a folder: without a marker, which git never carries
Place(t, what) ==
    /\ stands[t] = Gone
    /\ Len(t) > 1 => Exists(SubSeq(t, 1, Len(t) - 1))
    /\ stands' = [stands EXCEPT ![t] = what]
    /\ Moved
    /\ UNCHANGED <<marker, links, lines, registry, claims, acts, deaths>>

RemoveTree(t) ==
    /\ stands[t] # Gone
    /\ stands' = [u \in Tops |-> IF Under(u, t) THEN Gone ELSE stands[u]]
    /\ marker' = [p \in Paths |-> IF Under(p, t) THEN None ELSE marker[p]]
    /\ Moved
    /\ UNCHANGED <<links, lines, registry, claims, acts, deaths>>

\* a checkout moves, and what is in it with it; none of it is marked where
\* another tree can stand
Carried(t, u, p) ==
    LET from == t \o Relative(u, p) IN IF from \in Paths THEN marker[from] ELSE None

MoveTree(t, u) ==
    /\ stands[t] \in Repos /\ stands[u] = Gone /\ Len(u) = 1
    /\ \A v \in Tops \ {t} : Under(v, t) => stands[v] = Gone
    /\ \A p \in Paths : Under(p, u) /\ Nearest[p] # u => Carried(t, u, p) = None
    /\ stands' = [stands EXCEPT ![t] = Gone, ![u] = stands[t]]
    /\ marker' = [p \in Paths |->
                    CASE Under(p, t) -> None
                      [] Under(p, u) -> Carried(t, u, p)
                      [] OTHER -> marker[p]]
    /\ Moved
    /\ UNCHANGED <<links, lines, registry, claims, acts, deaths>>

CheckoutsInit ==
    /\ stands \in Trees
    /\ marker = [p \in Paths |-> None]
    /\ links = [s \in Slugs |-> <<>>] /\ lines = {} /\ registry = <<>>
    /\ claims = {}
    /\ acts = 0 /\ moves = 0 /\ deaths = 0

CheckoutsNext ==
    \/ \E p \in Paths, slug \in Slugs :
           \/ \E upto \in {"row", "link", "marker"} : ProjectInit(p, slug, upto)
           \/ \E force \in BOOLEAN : ProjectLink(p, slug, force) \/ ProjectUnlink(slug, p, force)
    \/ \E p \in Paths, force \in BOOLEAN : ProjectLink(p, None, force)
    \/ PruneDeadLinks
    \/ \E t \in Tops :
           \/ \E what \in Repos \cup {Folder} : Place(t, what)
           \/ RemoveTree(t)
           \/ \E u \in Tops : MoveTree(t, u)

CheckoutsSpec == CheckoutsInit /\ [][CheckoutsNext]_vars

-----------------------------------------------------------------------------
(* Properties                                                               *)

Here == {p \in Paths : Exists(p)}

\* the answer `slug` at p is of something a person said: what stands there now
\* is what was claimed for it then, at this position or one above; a place
\* claimed while nothing could tell it apart is taken on its path
Said(slug, p) ==
    \E c \in claims :
        /\ c.slug = slug
        /\ \/ c.said /\ c.identity = NoClaim
           \/ c.said /\ c.identity = RepositoryIdentity(p) /\ Holds(c.position, Position(p))
           \/ Shifted(c)

\* No directory answers for a project nobody registered or linked what stands
\* there for: not a repository made at a removed checkout's path, not the root
\* above a registered subdirectory, not a fold that falls back to another
\* checkout (projectAt, checkoutProject, resolveProjectPath).
AnswersForItsOwn ==
    \A p \in Here :
        /\ LET at == ProjectAt(p) IN at # None => Said(at.slug, at.dir)
        /\ \A slug \in Range(registry) :
               LET at == ResolveProjectPath(slug, p)
               IN  at # None => ~Exists(at) \/ Said(slug, at)

\* A project's evidence is judged across the same repositories from wherever in
\* it the fold is run (resolveProjectPaths, #331 E13).
JudgedTheSameFromAnywhere ==
    \A slug \in Range(registry) :
        Cardinality({ResolveProjectPaths(slug, p) : p \in Here}) <= 1

Linking(p, slug) ==
    \/ \E upto \in {"row", "link", "marker"} : ProjectInit(p, slug, upto)
    \/ \E named \in {slug, None}, force \in BOOLEAN : ProjectLink(p, named, force)

\* A link leaves by name: detached, swept when its path is gone, or replaced by
\* a link at its path when what it claimed stands there no more; and one that
\* claimed nothing goes with a claim beside it that is stale, whichever project
\* it is of (recordLink, pruneDeadLinks, recordUnlink).
LinksLeaveByName ==
    [][\A slug \in Slugs : \A link \in Range(links[slug]) :
          link.path \notin RecordedPaths(slug)' =>
              \/ \E force \in BOOLEAN : ProjectUnlink(slug, link.path, force)
              \/ PruneDeadLinks /\ ~Exists(link.path)
              \/ /\ \E s \in Slugs : Linking(link.path, s)
                 /\ \/ ~SameRepository(link)
                    \/ /\ link.repository = NoClaim
                       /\ \E line \in lines : line.path = link.path /\ ~SameRepository(line)]_vars
=============================================================================
