------------------------------ MODULE MailList ------------------------------
(* The message list of the web client (src/frontend/src/pages/Mail.tsx): the   *)
(* criteria on the screen, the requests that fill the list, the background     *)
(* syncs, the full-text search and the optimistic deletion of one mail.        *)
(*                                                                              *)
(* A handler and the effects React runs after its render are one step; a       *)
(* request, what the server reads for it and the arrival of its answer are     *)
(* three.  The code compares version numbers to see whether an answer is still *)
(* wanted: here a request keeps the mark "newest", which the next one takes    *)
(* away.  Handlers bound to an old render ("closures") keep the server-side    *)
(* options they were created with; they are carried by the request.            *)
EXTENDS Naturals, FiniteSets

CONSTANTS
    Places,     \* the folders of the account in view
    Start,      \* the folder shown first
    Mails,      \* the mails, numbered by age: the larger the newer
    Home,       \* Home[m]: the folder that holds m
    Unread, Labelled, Starred,   \* the mails with that property
    PageSize,   \* mails per page
    Texts,      \* what can stand in the search field; Empty for nothing
    Empty,
    MaxMoves,   \* steps of the user and live events in a behaviour
    MaxLoads,   \* list requests open at the same time
    MaxFailures, \* failed, refused or busy answers in a behaviour
    None

ASSUME ListAssumption ==
    /\ Start \in Places
    /\ Mails \subseteq Nat /\ IsFiniteSet(Mails)
    /\ Home \in [Mails -> Places]
    /\ Unread \subseteq Mails /\ Labelled \subseteq Mails /\ Starred \subseteq Mails
    /\ PageSize \in Nat \ {0} /\ MaxLoads \in Nat \ {0} /\ MaxMoves \in Nat
    /\ MaxFailures \in Nat
    /\ Empty \in Texts

VARIABLES
    look,       \* the criteria on the screen: folder, text, filters
    page,       \* the page shown
    list,       \* the rows shown and the query they answer
    banner,     \* fresh rows held back while the user reads further down
    loading, loadingMore,
    loads,      \* list requests under way
    syncs,      \* IMAP syncs under way
    cool,       \* cool[p]: automatic syncs of p pause after busy or an error
    pollOpts,   \* the options the poll timer was created with
    applying,   \* the place from which the refresh of the account was asked
    hits,       \* the full-text hits shown, by the text they were asked with
    asked,      \* the full-text search under way
    tombs,      \* tombs[m]: the state of the deletion mark of m
    dels,       \* deletions under way
    held,       \* the mails on the server
    moves,      \* steps of the user and live events so far
    failures    \* failed answers so far

mailListVars == <<look, page, list, banner, loading, loadingMore, loads, syncs, cool,
          pollOpts, applying, hits, asked, tombs, dels, held, moves, failures>>
listVars == <<look, page, list, banner, loading, loadingMore>>
delVars  == <<tombs, dels, held>>
ftVars   == <<hits, asked>>

-----------------------------------------------------------------------------
(* Criteria and queries *)

Looks == [place: Places, text: Texts, unread: BOOLEAN, rest: BOOLEAN,
          label: BOOLEAN, pin: BOOLEAN]

\* A search or a label asks for the whole folder in one list, without pages.
ListAll(k) == k.text # Empty \/ k.label

\* What the server sorts and filters by besides the label.
Opts(k) == [unread |-> k.unread, pin |-> k.pin]
MountOpts == [unread |-> FALSE, pin |-> FALSE]

\* The criteria whose change reloads the list.
Reloading(k) == <<k.place, k.text # Empty, k.pin, k.label, k.unread>>

Queries == [place: Places, whole: BOOLEAN, page: Nat, label: BOOLEAN,
            unread: BOOLEAN, pin: BOOLEAN]

FetchPage(k, p, opts) ==
    [place |-> k.place, whole |-> FALSE, page |-> p, label |-> FALSE,
     unread |-> opts.unread, pin |-> opts.pin]

FetchAllForSearch(k, opts) ==
    [place |-> k.place, whole |-> TRUE, page |-> 1, label |-> k.label,
     unread |-> opts.unread, pin |-> opts.pin]

\* Mutant: a background refresh asks for a page during a search.
FetchOnePage(k, p, opts) == FetchPage(k, p, opts)

Fetch(k, p, opts) ==
    IF ListAll(k) THEN FetchAllForSearch(k, opts) ELSE FetchPage(k, p, opts)

\* What the server returns for q: starred mails first if asked, then by age.
Listing(q) ==
    LET match == {m \in held : /\ Home[m] = q.place
                               /\ q.unread => m \in Unread
                               /\ q.label => m \in Labelled}
        Before(m) == {n \in match :
                        IF q.pin /\ ((m \in Starred) # (n \in Starred))
                        THEN n \in Starred ELSE n > m}
    IN  IF q.whole THEN match
        ELSE {m \in match : Cardinality(Before(m)) \div PageSize = q.page - 1}

NoRows == [query |-> None, mails |-> {}]
MaxPage == Cardinality(Mails) \div PageSize + 1

\* Every list passes this filter on its way into the view.
Marked(m) == tombs[m] \in {"asked", "kept"}
\* Mutant: the mark is forgotten with the confirmation.
WithoutAskedDeletes(mails) == {m \in mails : tombs[m] # "asked"}
WithoutPendingDeletes(mails) == {m \in mails : ~Marked(m)}

-----------------------------------------------------------------------------
(* Requests *)

NewLoad(by, q, k) ==
    [by |-> by, query |-> q, look |-> k, newest |-> TRUE, got |-> None]

\* beginListLoad: a new version, so no earlier answer is current any more.
BeginListLoad(l) ==
    /\ Cardinality(loads) < MaxLoads
    /\ loads' = {[x EXCEPT !.newest = FALSE] : x \in loads} \cup {l}

\* Mutant: the folder of the request is not compared.
CurrentAnywhere(l) == l.newest /\ l.look = look /\ l.query.page = page

Current(l) ==
    /\ l.newest
    /\ l.look = look
    /\ l.query.place = look.place
    /\ l.query.page = page

SyncPending(p) ==
    \/ \E s \in syncs : s.place = p
    \/ \E l \in loads : l.by = "sync" /\ l.query.place = p

\* reload and loadAllForSearch, run for the criteria k.  Only reload empties
\* the list first.
LoadFor(k, opts) ==
    /\ page' = 1 /\ loading' = TRUE
    /\ IF ListAll(k)
       THEN /\ list' = list
            /\ BeginListLoad(NewLoad("all", FetchAllForSearch(k, opts), k))
       ELSE /\ list' = NoRows
            /\ BeginListLoad(NewLoad("reload", FetchPage(k, 1, opts), k))

Reload(place, opts) ==
    /\ page' = 1 /\ loading' = TRUE /\ list' = NoRows
    /\ BeginListLoad(NewLoad("reload",
            FetchPage([look EXCEPT !.place = place], 1, opts), look))

\* bgSync up to its first request.
BgSync(place, p, opts, manual) ==
    IF SyncPending(place) \/ (~manual /\ cool[place])
    THEN syncs' = syncs
    ELSE syncs' = syncs \cup {[place |-> place, page |-> p, look |-> look, opts |-> opts]}

-----------------------------------------------------------------------------
(* The user *)

\* The effects of a change of the criteria to k.
Change(k) ==
    /\ k # look
    /\ look' = k
    /\ hits' = IF /\ hits # None
                  /\ k.text # look.text \/ k.place # look.place
                  /\ (k.text = Empty /\ ~k.rest) \/ k.text # hits
               THEN None ELSE hits
    /\ pollOpts' = IF k.place # look.place THEN Opts(k) ELSE pollOpts
    /\ IF Reloading(k) # Reloading(look)
       THEN LoadFor(k, Opts(k))
       ELSE UNCHANGED <<page, loading, list, loads>>
    /\ banner' = IF [k EXCEPT !.pin = look.pin] # look \/ page' # page THEN None ELSE banner
    /\ UNCHANGED <<loadingMore, syncs, cool, applying, asked, delVars>>

SelectFolder == \E p \in Places : Change([look EXCEPT !.place = p])
TypeSearch   == \E s \in Texts : Change([look EXCEPT !.text = s])
ToggleUnread == Change([look EXCEPT !.unread = ~@])
SetCriterion == Change([look EXCEPT !.rest = ~@])
SetLabelFilter == Change([look EXCEPT !.label = ~@])
TogglePin    == Change([look EXCEPT !.pin = ~@])

\* The pager is drawn, and its buttons can be pressed.
PagerOffered == ~ListAll(look) /\ ~loading /\ ~loadingMore

GoPage(p) ==
    /\ PagerOffered
    /\ p # page
    /\ page' = p /\ loadingMore' = TRUE
    /\ banner' = None
    /\ BeginListLoad(NewLoad("page", FetchPage(look, p, Opts(look)), look))
    /\ UNCHANGED <<look, list, loading, syncs, cool, pollOpts, applying, ftVars, delVars>>

\* The refresh sign of the account: the rules are applied first, the reload
\* that follows is bound to the folder of the click.
RefreshAccount ==
    /\ applying = None
    /\ applying' = [place |-> look.place, opts |-> Opts(look)]
    /\ UNCHANGED <<listVars, loads, syncs, cool, pollOpts, ftVars, delVars>>

RulesApplied ==
    /\ applying # None
    /\ Reload(applying.place, applying.opts)
    /\ applying' = None
    /\ banner' = IF page # 1 THEN None ELSE banner
    /\ UNCHANGED <<look, loadingMore, syncs, cool, pollOpts, ftVars, delVars>>

\* The banner "new messages": the held rows replace the list.
AcceptBanner ==
    /\ banner # None
    /\ list' = [banner EXCEPT !.mails = WithoutPendingDeletes(@)]
    /\ banner' = None
    /\ UNCHANGED <<look, page, loading, loadingMore, loads, syncs, cool, pollOpts,
                   applying, ftVars, delVars>>

\* The bar with the full-text button.
FullTextOffered == hits = None /\ asked = None /\ (look.text # Empty \/ look.rest)

RunFullText ==
    /\ FullTextOffered
    /\ asked' = look.text
    /\ UNCHANGED <<listVars, loads, syncs, cool, pollOpts, applying, hits, delVars>>

ClearFullText ==
    /\ hits # None
    /\ hits' = None /\ asked' = None
    /\ UNCHANGED <<listVars, loads, syncs, cool, pollOpts, applying, delVars>>

\* deleteOptimistically: the row goes at once, the mark keeps later answers
\* from bringing it back.
Delete(m) ==
    /\ m \in list.mails /\ tombs[m] = "no"
    /\ tombs' = [tombs EXCEPT ![m] = "asked"]
    /\ dels' = dels \cup {[mail |-> m, look |-> look, done |-> FALSE]}
    /\ list' = [list EXCEPT !.mails = @ \ {m}]
    /\ UNCHANGED <<look, page, banner, loading, loadingMore, loads, syncs, cool,
                   pollOpts, applying, ftVars, held>>

-----------------------------------------------------------------------------
(* Timers and live events *)

FastTimer ==
    /\ ~SyncPending(look.place) /\ ~cool[look.place]
    /\ BgSync(look.place, page, MountOpts, FALSE)
    /\ UNCHANGED <<listVars, loads, cool, pollOpts, applying, ftVars, delVars>>

PollTimer ==
    /\ ~SyncPending(look.place) /\ ~cool[look.place]
    /\ BgSync(look.place, page, pollOpts, FALSE)
    /\ UNCHANGED <<listVars, loads, cool, pollOpts, applying, ftVars, delVars>>

\* A live event: refreshCachedFolder, bound to the first render.
LiveEvent ==
    /\ BeginListLoad(NewLoad("event", Fetch(look, page, MountOpts), look))
    /\ UNCHANGED <<listVars, syncs, cool, pollOpts, applying, ftVars, delVars>>

CoolDown(p) ==
    /\ cool[p]
    /\ cool' = [cool EXCEPT ![p] = FALSE]
    /\ UNCHANGED <<listVars, loads, syncs, pollOpts, applying, ftVars, delVars>>

-----------------------------------------------------------------------------
(* The server and its answers *)

ServerReads(l) ==
    /\ l.got = None
    /\ loads' = (loads \ {l}) \cup {[l EXCEPT !.got = Listing(l.query)]}
    /\ UNCHANGED <<listVars, syncs, cool, pollOpts, applying, ftVars, delVars>>

Answer(l) == [query |-> l.query, mails |-> WithoutPendingDeletes(l.got)]

\* acceptBackgroundHeaders: whether the rows wait behind the banner depends on
\* the scroll position and on rows the closure remembers.
AcceptBackgroundHeaders(l) ==
    \/ banner' = [query |-> l.query, mails |-> l.got] /\ list' = list
    \/ banner' = None /\ list' = Answer(l)

\* The answers of reload, goPage and loadAllForSearch.
Arrives(l) ==
    /\ l.by \in {"reload", "page", "all"} /\ l.got # None
    /\ loads' = loads \ {l}
    /\ IF Current(l)
       THEN /\ list' = Answer(l)
            /\ loading' = FALSE
            /\ loadingMore' = IF l.by = "page" THEN FALSE ELSE loadingMore
            /\ IF l.by = "reload"
               THEN BgSync(l.query.place, 1, [unread |-> l.query.unread, pin |-> l.query.pin], TRUE)
               ELSE syncs' = syncs
       ELSE UNCHANGED <<list, loading, loadingMore, syncs>>
    /\ UNCHANGED <<look, page, banner, cool, pollOpts, applying, ftVars, delVars>>

Fails(l) ==
    /\ l.by \in {"reload", "page", "all"}
    /\ loads' = loads \ {l}
    /\ IF Current(l)
       THEN /\ loading' = FALSE
            /\ loadingMore' = IF l.by = "page" THEN FALSE ELSE loadingMore
            /\ IF l.by = "reload"
               THEN BgSync(l.query.place, 1, [unread |-> l.query.unread, pin |-> l.query.pin], TRUE)
               ELSE syncs' = syncs
       ELSE UNCHANGED <<loading, loadingMore, syncs>>
    /\ UNCHANGED <<look, page, list, banner, cool, pollOpts, applying, ftVars, delVars>>

\* Mutant: a refresh leaves the signs to the requests it overtook.
RefreshedQuietly(l) ==
    /\ l.by \in {"sync", "event"} /\ l.got # None
    /\ loads' = loads \ {l}
    /\ IF Current(l) THEN AcceptBackgroundHeaders(l) ELSE UNCHANGED <<list, banner>>
    /\ UNCHANGED <<loading, loadingMore>>
    /\ UNCHANGED <<look, page, syncs, cool, pollOpts, applying, ftVars, delVars>>

\* The answers of a background refresh.
Refreshed(l) ==
    /\ l.by \in {"sync", "event"} /\ l.got # None
    /\ loads' = loads \ {l}
    /\ IF Current(l)
       THEN /\ AcceptBackgroundHeaders(l)
            /\ loading' = FALSE /\ loadingMore' = FALSE
       ELSE UNCHANGED <<list, banner, loading, loadingMore>>
    /\ UNCHANGED <<look, page, syncs, cool, pollOpts, applying, ftVars, delVars>>

RefreshFails(l) ==
    /\ l.by \in {"sync", "event"}
    /\ loads' = loads \ {l}
    /\ cool' = IF l.by = "sync" THEN [cool EXCEPT ![l.query.place] = TRUE] ELSE cool
    /\ IF Current(l)
       THEN loading' = FALSE /\ loadingMore' = FALSE
       ELSE UNCHANGED <<loading, loadingMore>>
    /\ UNCHANGED <<look, page, list, banner, syncs, pollOpts, applying, ftVars, delVars>>

\* The IMAP sync succeeded: if nothing changed since, fetch what is on screen.
SyncSucceeds(s) ==
    /\ syncs' = syncs \ {s}
    /\ cool' = [cool EXCEPT ![s.place] = FALSE]
    /\ IF s.look = look /\ s.place = look.place /\ s.page = page
       THEN BeginListLoad(NewLoad("sync", Fetch(look, page, s.opts), look))
       ELSE loads' = loads
    /\ UNCHANGED <<listVars, pollOpts, applying, ftVars, delVars>>

\* Busy or an error: the pause grows, no list is fetched.
SyncDeclined(s) ==
    /\ syncs' = syncs \ {s}
    /\ cool' = [cool EXCEPT ![s.place] = TRUE]
    /\ UNCHANGED <<listVars, loads, pollOpts, applying, ftVars, delVars>>

FullTextAnswers ==
    /\ asked # None
    /\ asked' = None
    /\ hits' \in {asked, hits}
    /\ UNCHANGED <<listVars, loads, syncs, cool, pollOpts, applying, delVars>>

ServerDeletes(d) ==
    /\ ~d.done
    /\ held' = held \ {d.mail}
    /\ dels' = (dels \ {d}) \cup {[d EXCEPT !.done = TRUE]}
    /\ UNCHANGED <<listVars, loads, syncs, cool, pollOpts, applying, ftVars, tombs>>

\* Confirmed: the mark stays for two minutes.
DeleteConfirmed(d) ==
    /\ d.done
    /\ dels' = dels \ {d}
    /\ tombs' = [tombs EXCEPT ![d.mail] = "kept"]
    /\ UNCHANGED <<listVars, loads, syncs, cool, pollOpts, applying, ftVars, held>>

\* Refused, or the answer was lost: the mark goes and the row is put back if
\* the criteria are the ones of the click.
DeleteFails(d) ==
    /\ dels' = dels \ {d}
    /\ tombs' = [tombs EXCEPT ![d.mail] = "no"]
    /\ list' = IF d.look = look THEN [list EXCEPT !.mails = @ \cup {d.mail}] ELSE list
    /\ UNCHANGED <<look, page, banner, loading, loadingMore, loads, syncs, cool,
                   pollOpts, applying, ftVars, held>>

\* The two minutes are over; an answer read before the deletion has come by then.
MarkLapses(m) ==
    /\ tombs[m] = "kept"
    /\ \A l \in loads : l.got # None => m \notin l.got
    /\ tombs' = [tombs EXCEPT ![m] = "lapsed"]
    /\ UNCHANGED <<listVars, loads, syncs, cool, pollOpts, applying, ftVars, dels, held>>

-----------------------------------------------------------------------------
ListInit ==
    /\ look = [place |-> Start, text |-> Empty, unread |-> FALSE, rest |-> FALSE,
               label |-> FALSE, pin |-> FALSE]
    /\ page = 1 /\ list = NoRows /\ banner = None
    /\ loading = TRUE /\ loadingMore = FALSE
    /\ loads = {NewLoad("reload", FetchPage(look, 1, Opts(look)), look)}
    /\ syncs = {} /\ cool = [p \in Places |-> FALSE]
    /\ pollOpts = Opts(look) /\ applying = None
    /\ hits = None /\ asked = None
    /\ tombs = [m \in Mails |-> "no"] /\ dels = {} /\ held = Mails
    /\ moves = 0 /\ failures = 0

User ==
    \/ SelectFolder
    \/ TypeSearch
    \/ ToggleUnread
    \/ SetCriterion
    \/ SetLabelFilter
    \/ TogglePin
    \/ \E p \in 1..MaxPage : GoPage(p)
    \/ RefreshAccount
    \/ AcceptBanner
    \/ RunFullText
    \/ ClearFullText
    \/ \E m \in Mails : Delete(m)

Timers == FastTimer \/ PollTimer \/ \E p \in Places : CoolDown(p)

Timely ==
    \/ RulesApplied
    \/ \E l \in loads : Arrives(l) \/ Refreshed(l)
    \/ \E s \in syncs : SyncSucceeds(s)

Failing ==
    \/ \E l \in loads : Fails(l) \/ RefreshFails(l)
    \/ \E s \in syncs : SyncDeclined(s)
    \/ \E d \in dels : DeleteFails(d)

Deletions ==
    \/ \E d \in dels : ServerDeletes(d) \/ DeleteConfirmed(d)
    \/ \E m \in Mails : MarkLapses(m)

Move == /\ moves < MaxMoves
        /\ moves' = moves + 1
        /\ User \/ LiveEvent
        /\ UNCHANGED failures

Failure == /\ failures < MaxFailures
           /\ failures' = failures + 1
           /\ Failing
           /\ UNCHANGED moves

Other == UNCHANGED <<moves, failures>>

ListNext ==
    \/ Move
    \/ Failure
    \/ (Timely \/ Timers) /\ Other
    \/ (\E l \in loads : ServerReads(l)) /\ Other
    \/ FullTextAnswers /\ Other
    \/ Deletions /\ Other

ListSpec == ListInit /\ [][ListNext]_mailListVars

\* A request is read and answered in the end, and the timers run.  Failures are
\* bounded, so the answers are good ones from some point on.
Fairness ==
    /\ WF_mailListVars((\E l \in loads : ServerReads(l)) /\ Other)
    /\ WF_mailListVars(Timely /\ Other)
    /\ WF_mailListVars(Timers /\ Other)

FairList == ListSpec /\ Fairness

-----------------------------------------------------------------------------
(* Properties *)

Rows == [query: Queries \cup {None}, mails: SUBSET Mails]
Load == [by: {"reload", "page", "all", "sync", "event"}, query: Queries,
         look: Looks, newest: BOOLEAN, got: (SUBSET Mails) \cup {None}]
Options == [unread: BOOLEAN, pin: BOOLEAN]

ListTypeOK ==
    /\ look \in Looks /\ page \in Nat \ {0}
    /\ list \in Rows /\ banner \in Rows \cup {None}
    /\ loading \in BOOLEAN /\ loadingMore \in BOOLEAN
    /\ loads \in SUBSET Load
    /\ syncs \in SUBSET [place: Places, page: Nat, look: Looks, opts: Options]
    /\ cool \in [Places -> BOOLEAN] /\ pollOpts \in Options
    /\ applying \in [place: Places, opts: Options] \cup {None}
    /\ hits \in Texts \cup {None} /\ asked \in Texts \cup {None}
    /\ tombs \in [Mails -> {"no", "asked", "kept", "lapsed"}]
    /\ dels \in SUBSET [mail: Mails, look: Looks, done: BOOLEAN]
    /\ held \subseteq Mails /\ moves \in 0..MaxMoves
    /\ failures \in 0..MaxFailures

\* Whatever order the answers come in, new rows in the list are those of the
\* folder and the page on the screen.
AnswersFit ==
    [][list'.query # list.query /\ list' # NoRows =>
        list'.query.place = look'.place /\ list'.query.page = page']_mailListVars

\* A background refresh never replaces a complete list of hits by one page: only
\* the answer of a reload the user asked for does.
RefreshKeepsHits ==
    [][list.query # None /\ list.query.whole /\ ListAll(look') /\ list' # NoRows =>
        list'.query.whole \/ \E l \in loads \ loads' : l.by = "reload"]_mailListVars

\* A mail whose deletion is under way or freshly confirmed is not in the list,
\* whatever answers were read before the deletion.
DeletedStaysHidden == \A m \in list.mails : ~Marked(m)

\* When the user and the events come to rest the loading signs go out, also
\* those of a request whose answer was not wanted any more.
LoadingEnds == <>[](~loading /\ ~loadingMore)
=============================================================================
