------------------------------- MODULE JobList -------------------------------
(***************************************************************************)
(* The list of hiring posts: the server renders the posts of one tab, a    *)
(* subscription asks for a new rendering whenever a post changes, and the  *)
(* table sorts what was rendered.                                          *)
(*                                                                         *)
(* The router renders one thing after the other: a refresh waits for what  *)
(* is under way, a click on a tab takes its place.                         *)
(*                                                                         *)
(* Abstracted: of a post's columns, the status (the tabs' filter) and the  *)
(* closing date, a nullable column as most that the table sorts by.        *)
(***************************************************************************)
EXTENDS Lists

CONSTANTS
    Jobs,        \* posts, numbered in the order they were created
    Closings,    \* closing dates, numbers
    MaxChanges,  \* bound: changes of a post
    MaxClicks    \* bound: tabs and column headings clicked

ASSUME JobListAssumption == /\ IsFiniteSet(Jobs) /\ Jobs \subseteq Nat /\ Closings \subseteq Nat
                            /\ MaxChanges \in Nat /\ MaxClicks \in Nat

Tabs == {"all", "draft", "published"}
ListedStatuses == {"draft", "published"}
Never == 1000  \* no closing date
ASSUME NeverAssumption == Never \notin Closings \union Jobs
JobRows == [status : ListedStatuses, closes : Closings \union {Never}]

VARIABLES
    jobPosts,   \* the table hiring_posts
    unheard,    \* history: did a post change before anybody listened to it?
    news,       \* change events on their way to the page
    subscribed, \* is the channel joined?
    tab,        \* the tab of the rendered page: the URL's status
    clicked,    \* pendingStatus
    rendering,  \* the rendering under way: its tab, and the rows once read
    refreshes,  \* refreshes that wait for it
    shownRows,  \* the rendered posts
    order,      \* the table's sort state
    used        \* counters for the bounds

jobListVars == <<jobPosts, unheard, news, subscribed, tab, clicked, rendering, refreshes, shownRows, order, used>>

NoRows == [j \in {} |-> 0]
Unread == [tab |-> "all", at |-> "none", rows |-> NoRows]

\* .eq("status", filterStatus), unless the tab is "all".
OfTab(t) == [j \in {k \in Jobs : t = "all" \/ jobPosts[k].status = t} |-> jobPosts[j]]

-----------------------------------------------------------------------------
(* Posts change, and the page hears of it if it listens.                    *)

PostChanges(j, row) ==
    /\ used.changes < MaxChanges /\ used' = [used EXCEPT !.changes = @ + 1]
    /\ row # jobPosts[j]
    /\ jobPosts' = [jobPosts EXCEPT ![j] = row]
    /\ news' = IF subscribed THEN news + 1 ELSE news
    /\ unheard' = (unheard \/ ~subscribed)
    /\ UNCHANGED <<subscribed, tab, clicked, rendering, refreshes, shownRows, order>>

ChannelJoined ==
    /\ ~subscribed /\ subscribed' = TRUE
    /\ UNCHANGED <<jobPosts, unheard, news, tab, clicked, rendering, refreshes, shownRows, order, used>>

(* Mutant: an event that comes during a rendering asks for no other.        *)
JobEventMutant ==
    /\ news > 0 /\ news' = news - 1
    /\ rendering' = IF rendering.at = "none" THEN [tab |-> tab, at |-> "asked", rows |-> NoRows] ELSE rendering
    /\ UNCHANGED <<jobPosts, unheard, subscribed, tab, clicked, refreshes, shownRows, order, used>>

\* An event, whatever it says, asks for a new rendering.
JobEvent ==
    /\ news > 0 /\ news' = news - 1
    /\ IF rendering.at = "none"
       THEN rendering' = [tab |-> tab, at |-> "asked", rows |-> NoRows] /\ UNCHANGED refreshes
       ELSE refreshes' = refreshes + 1 /\ UNCHANGED rendering
    /\ UNCHANGED <<jobPosts, unheard, subscribed, tab, clicked, shownRows, order, used>>

-----------------------------------------------------------------------------
(* The tabs, and the page they lead to.                                     *)

isPending == clicked # "none"
activeStatus == IF isPending THEN clicked ELSE tab

ClickTab(t) ==
    /\ used.clicks < MaxClicks /\ used' = [used EXCEPT !.clicks = @ + 1]
    /\ ~isPending /\ t # activeStatus
    /\ clicked' = t
    /\ rendering' = [tab |-> t, at |-> "asked", rows |-> NoRows]
    /\ UNCHANGED <<jobPosts, unheard, news, subscribed, tab, refreshes, shownRows, order>>

\* JobsPage, on the server.
JobsPage ==
    /\ rendering.at = "asked"
    /\ rendering' = [rendering EXCEPT !.at = "read", !.rows = OfTab(rendering.tab)]
    /\ UNCHANGED <<jobPosts, unheard, news, subscribed, tab, clicked, refreshes, shownRows, order, used>>

\* The browser shows it.  A refresh that waited is for the tab shown now.
JobsShown ==
    /\ rendering.at = "read"
    /\ shownRows' = rendering.rows
    /\ tab' = rendering.tab
    /\ clicked' = IF clicked = rendering.tab THEN "none" ELSE clicked
    /\ IF refreshes > 0
       THEN /\ rendering' = [tab |-> rendering.tab, at |-> "asked", rows |-> NoRows]
            /\ refreshes' = refreshes - 1
       ELSE rendering' = Unread /\ UNCHANGED refreshes
    /\ UNCHANGED <<jobPosts, unheard, news, subscribed, order, used>>

-----------------------------------------------------------------------------
(* The table.                                                               *)

\* useSortState: the same heading again turns the order round.
toggleSort(key) ==
    /\ used.clicks < MaxClicks /\ used' = [used EXCEPT !.clicks = @ + 1]
    /\ order' = [key |-> key,
                 direction |-> IF order.key = key /\ order.direction = "asc" THEN "desc" ELSE "asc"]
    /\ UNCHANGED <<jobPosts, unheard, news, subscribed, tab, clicked, rendering, refreshes, shownRows>>

\* SORT_ACCESSORS.
accessor(j) == IF order.key = "created_at" THEN j ELSE shownRows[j].closes

\* compareSortValues(a, b, direction) < 0.
Before(a, b) ==
    /\ accessor(a) # Never
    /\ \/ accessor(b) = Never
       \/ IF order.direction = "asc" THEN accessor(a) < accessor(b) ELSE accessor(b) < accessor(a)

\* useSortedRows: a stable sort of the rows, which come newest first.
sortedJobs ==
    LET posts == DOMAIN shownRows
    IN  SortedBy(posts, {p \in posts \X posts : \/ Before(p[1], p[2])
                                               \/ (~Before(p[2], p[1]) /\ p[1] > p[2])})

-----------------------------------------------------------------------------
JobListInit ==
    /\ jobPosts \in [Jobs -> JobRows]
    /\ unheard = FALSE
    /\ news = 0
    /\ subscribed = FALSE
    /\ tab = "all"
    /\ clicked = "none"
    /\ rendering = Unread
    /\ refreshes = 0
    /\ shownRows = OfTab("all")
    /\ order = [key |-> "created_at", direction |-> "desc"]
    /\ used = [changes |-> 0, clicks |-> 0]

JobListNext ==
    \/ \E j \in Jobs, row \in JobRows : PostChanges(j, row)
    \/ ChannelJoined \/ JobEvent
    \/ \E t \in Tabs : ClickTab(t)
    \/ JobsPage \/ JobsShown
    \/ \E key \in {"created_at", "closes_at"} : toggleSort(key)

JobListSpec == JobListInit /\ [][JobListNext]_jobListVars

JobListTypeOK ==
    /\ jobPosts \in [Jobs -> JobRows]
    /\ unheard \in BOOLEAN /\ subscribed \in BOOLEAN
    /\ news \in 0 .. MaxChanges /\ refreshes \in 0 .. MaxChanges
    /\ tab \in Tabs /\ clicked \in Tabs \union {"none"}
    /\ rendering.tab \in Tabs /\ rendering.at \in {"none", "asked", "read"}
    /\ DOMAIN shownRows \subseteq Jobs
    /\ order \in [key : {"created_at", "closes_at"}, direction : {"asc", "desc"}]

\* Once the page is quiet it lists the posts of the active tab as they are
\* now, and the posts with no closing date come after the others however the
\* column is sorted: a click that overtakes a refresh, or a refresh that waited
\* for a click, leaves no older list behind.  (What changed between the first
\* rendering and the subscription is the one thing the page does not learn.)
JobListIsCurrent ==
    /\ rendering.at = "none" /\ news = 0 /\ ~unheard => shownRows = OfTab(activeStatus)
    /\ order.key = "closes_at" =>
         \A i, k \in DOMAIN sortedJobs :
             i < k /\ shownRows[sortedJobs[i]].closes = Never => shownRows[sortedJobs[k]].closes = Never
=============================================================================
