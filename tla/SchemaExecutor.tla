--------------------------- MODULE SchemaExecutor ---------------------------
(***************************************************************************)
(* The crawl of one lane job over the resources its vendor schema lists    *)
(* (collect_v2_resources of core/schema/pipeline.py, with execute_resource *)
(* and execute_children of core/schema/executor.py).                       *)
(*                                                                         *)
(* A resource is tried strategy by strategy; a strategy is a fetch or      *)
(* several; the children of a record are resources again, whose URIs come  *)
(* from what their ancestors captured.  The job fetches one body at a time *)
(* and nothing else touches its state, so a step is what it does up to     *)
(* the next body.  What the BMC answers is chosen step by step.            *)
(*                                                                         *)
(* The recursion of execute_children is an agenda: the resources still to  *)
(* execute under the current one, the subtree of the last one first.  A    *)
(* record is named by the way down to it, a sequence of (resource, number) *)
(* pairs, an entry by the record that owns it and the name of a resource.  *)
(***************************************************************************)
EXTENDS Naturals, Sequences, FiniteSets, SequencesExt

CONSTANTS
    Definitions,    \* the ResourceDefs of a schema, those of children included
    Resources,      \* the ResourceDef of each name
    LaneResources,  \* the names each lane collects, in order
    Captures,       \* the names a strategy may capture, or take a URI from
    max_pages,      \* Safety.Pagination.MaxPages
    max_members,    \* Safety.CollectionLimits.MaxMembers
    max_depth,      \* Tuning.Crawl.MaxDepth
    Bodies,         \* the sets of links and values a body may hold
    MemberLists     \* what Members may find on a page

VARIABLES
    lane,          \* of the job
    bootstrap_ctx, \* the captures that bootstrap discovery has filled
    reusable,      \* whether the job has a System body in place of its fetch
    position,      \* the place in the lane's resources of the one under way
    agenda,        \* the executions before the next of them, the first under way
    turn,          \* where that execution is
    tree,          \* the entries made: executed, and the children of its records
    raws,          \* resource_raw_by_name
    fetches,       \* how many fetches were made
    outcome        \* of the job

crawlVars == <<position, agenda, turn, tree, raws, fetches, outcome, reusable>>

\* What a crawl is given.
givenVars == <<lane, bootstrap_ctx>>

\* A body came from the bootstrap captures, or there is no URI to fetch it from.
FromBootstrap == <<>>
NoSource == <<<<"none", 0>>>>

Entry(owner, name) == <<owner, name>>
RecordPath(owner, name, n) == Append(owner, <<name, n>>)

Records == UNION {{RecordPath(e[1], e[2], n) : n \in DOMAIN tree[e].records} : e \in DOMAIN tree}

RecordAt(path) == tree[Entry(Front(path), Last(path)[1])].records[Last(path)[2]]

-----------------------------------------------------------------------------
(* The definitions of a schema: a resource is [required, strategies], a    *)
(* strategy [kind, from, of, path, when, capture, children].               *)

ChildNames(def) == UNION {DOMAIN def.strategies[i].children : i \in DOMAIN def.strategies}

\* child_defs.update(): of a child that several strategies declare, the last
\* declaration counts, whichever strategy gave the record.
ChildDef(def, name) ==
    LET declaring == {i \in DOMAIN def.strategies : name \in DOMAIN def.strategies[i].children}
    IN  def.strategies[CHOOSE i \in declaring : \A j \in declaring : i >= j].children[name]

\* What a strategy of a schema that _parse_strategy accepts looks like, and what
\* _load_vendor_model_v2 asks of the lists of a lane.
WellFormed(def) ==
    /\ def.strategies \in Seq(ToSet(def.strategies)) /\ def.strategies # <<>>
    /\ IsFiniteSet(ChildNames(def))
    /\ \A i \in DOMAIN def.strategies :
          LET s == def.strategies[i]
          IN  /\ s.kind \in {"object", "collection", "inline-collection", "telemetry-reports"}
              /\ s.kind \in {"object", "collection"} => s.from \in {"template", "capture", "resource", "parent"}
              /\ s.kind = "telemetry-reports" => s.from = "capture" /\ s.of = "telemetry_service"
              /\ s.from = "capture" => s.of \in Captures
              /\ s.capture \subseteq Captures
              /\ \A name \in DOMAIN s.children : s.children[name] \in Definitions

ASSUME SchemaAssumption ==
    /\ \A def \in Definitions : WellFormed(def)
    /\ \A name \in DOMAIN Resources : Resources[name] \in Definitions
    /\ LaneResources \in [{"fast", "slow"} -> Seq(DOMAIN Resources)]
    /\ LaneResources["fast"] # <<>>
    /\ MemberLists \subseteq Seq({"link", "inline", "other"})
    /\ max_pages \in Nat \ {0}
    /\ max_members \in Nat
    /\ max_depth \in Nat

-----------------------------------------------------------------------------
(* The execution under way *)

Execution(owner, name, def, context, depth) ==
    [owner |-> owner, name |-> name, def |-> def, context |-> context, depth |-> depth]

TopLevel(name, ctx) ==
    Execution(<<>>, name, Resources[name],
              [c \in Captures |-> IF c \in ctx THEN FromBootstrap ELSE NoSource], 0)

Current == Head(agenda)
Strategy == Current.def.strategies[turn.strategy]

\* Before strategy i.
Fresh(i) == [strategy |-> i, doing |-> "choosing", source |-> NoSource, listed |-> <<>>, refs |-> <<>>,
             pages |-> 0, more |-> FALSE, records |-> <<>>]

\* What a page or the parent's body lists goes on the list of the strategy: each
\* member is named by the strategy and by its place on that list.
Refs(found) ==
    [i \in DOMAIN found |-> [kind |-> found[i], member |-> <<turn.strategy, Len(turn.listed) + i>>]]

\* _resolve_uri(): whose body, or which captures, gave the URI.
Source(s) ==
    CASE s.from = "template" -> FromBootstrap
      [] s.from = "capture" -> Current.context[s.of]
      [] s.from = "resource" ->
            IF s.of \in DOMAIN raws /\ s.path \in raws[s.of] THEN RecordPath(<<>>, s.of, 1) ELSE NoSource
      [] s.from = "parent" ->
            IF Current.owner # <<>> /\ s.path \in RecordAt(Current.owner).body THEN Current.owner ELSE NoSource

\* A record of the strategy under way: which member it was made of, and what the
\* context of its children takes.
Record(member, body) ==
    [member |-> member, body |-> body, from |-> turn.source, capture |-> Strategy.capture,
     uri |-> IF Strategy.kind = "inline-collection" THEN "none" ELSE Strategy.from,
     of |-> Strategy.of]

\* Mutant of ChildContext: a value the record does not have hides nothing.
ChildContextIfPresent(context, path, record) ==
    [c \in Captures |-> IF c \in record.capture /\ c \in record.body THEN path ELSE context[c]]

\* The record's own captures over the context it was itself reached in; one that
\* found nothing is None, and hides what the context had.
ChildContext(context, path, record) ==
    [c \in Captures |->
        IF c \notin record.capture THEN context[c]
        ELSE IF c \in record.body THEN path ELSE NoSource]

\* Mutant of Truncated: MaxMembers is not looked at.
AllOf(refs) == refs

Truncated(refs) == IF Len(refs) > max_members THEN SubSeq(refs, 1, max_members) ELSE refs

\* execute_children(): the executions under the records of the current one.
ChildExecutions(records) ==
    LET Of(n) ==
            LET path == RecordPath(Current.owner, Current.name, n)
                names == SetToSeq(ChildNames(Current.def))
            IN  [i \in DOMAIN names |->
                    Execution(path, names[i], ChildDef(Current.def, names[i]),
                              ChildContext(Current.context, path, records[n]), Current.depth + 1)]
    IN  IF Current.depth + 1 > max_depth THEN <<>>
        ELSE FlattenSeq([n \in DOMAIN records |-> Of(n)])

-----------------------------------------------------------------------------

CrawlInit ==
    /\ position = 1
    /\ agenda = <<>>
    /\ turn = Fresh(1)
    /\ tree = [e \in {} |-> {}]
    /\ raws = [n \in {} |-> {}]
    /\ fetches = 0
    /\ reusable = FALSE
    /\ outcome = "none"

NoCrawl ==
    /\ position' = 1
    /\ agenda' = <<>>
    /\ turn' = Fresh(1)
    /\ tree' = [e \in {} |-> {}]
    /\ raws' = [n \in {} |-> {}]
    /\ fetches' = 0
    /\ reusable' = FALSE
    /\ outcome' = "none"

\* A crawl of the lane l starts, with or without a System body to reuse.
CrawlBegins(l, ctx, reuse) ==
    /\ position' = 1
    /\ agenda' = IF LaneResources[l] = <<>> THEN <<>> ELSE <<TopLevel(LaneResources[l][1], ctx)>>
    /\ turn' = Fresh(1)
    /\ tree' = [e \in {} |-> {}]
    /\ raws' = [n \in {} |-> {}]
    /\ fetches' = 0
    /\ reusable' = reuse
    /\ outcome' = IF LaneResources[l] = <<>> THEN "done" ELSE "running"

Running == outcome = "running" /\ agenda # <<>>

\* An entry: with the records, what they were to be chosen from.
Executed(records, strategy) ==
    IF strategy = 0 THEN [records |-> records, strategy |-> 0, kind |-> "none", listed |-> <<>>, more |-> FALSE]
    ELSE [records |-> records, strategy |-> strategy, kind |-> Strategy.kind,
          listed |-> turn.listed, more |-> turn.more]

\* The execution ends with these records, and goes on to their children.  The
\* loader lets a lane list a resource twice: what was there gives way, with all
\* that is below it.
Conclude(records, strategy) ==
    /\ LET this == Entry(Current.owner, Current.name)
           kept == {e \in DOMAIN tree : Current.owner = <<>> => e[1] = <<>> \/ e[1][1][1] # Current.name}
       IN  tree' = [e \in kept \cup {this} |->
                       IF e = this THEN Executed(records, strategy) ELSE tree[e]]
    /\ agenda' = ChildExecutions(records) \o Tail(agenda)
    /\ turn' = Fresh(1)
    /\ UNCHANGED outcome

\* Mutant of NextStrategy: the members that are there already are kept.
NextStrategyOnTop ==
    IF turn.strategy < Len(Current.def.strategies) THEN
        /\ turn' = [Fresh(turn.strategy + 1) EXCEPT !.refs = turn.refs]
        /\ UNCHANGED <<agenda, tree, outcome>>
    ELSE IF Current.owner = <<>> /\ Current.def.required THEN
        /\ outcome' = "failed"
        /\ UNCHANGED <<agenda, turn, tree>>
    ELSE Conclude(<<>>, 0)

\* The strategy raised ExecutorError, or its When did not match.  After the last
\* one the resource has failed: one that is required ends the job.
NextStrategy ==
    IF turn.strategy < Len(Current.def.strategies) THEN
        /\ turn' = Fresh(turn.strategy + 1)
        /\ UNCHANGED <<agenda, tree, outcome>>
    ELSE IF Current.owner = <<>> /\ Current.def.required THEN
        /\ outcome' = "failed"
        /\ UNCHANGED <<agenda, turn, tree>>
    ELSE Conclude(<<>>, 0)

\* Mutant of SkipStrategy: the same strategy is tried again.
SkipNothing ==
    /\ Running
    /\ turn.doing = "choosing"
    /\ \/ Strategy.kind = "telemetry-reports"
       \/ Strategy.kind \in {"object", "collection"} /\ Source(Strategy) = NoSource
    /\ turn' = Fresh(turn.strategy)
    /\ UNCHANGED <<givenVars, position, agenda, tree, raws, fetches, reusable, outcome>>

\* A strategy without a URI, or one of telemetry, for which no reducer is
\* injected.
SkipStrategy ==
    /\ Running
    /\ turn.doing = "choosing"
    /\ \/ Strategy.kind = "telemetry-reports"
       \/ Strategy.kind \in {"object", "collection"} /\ Source(Strategy) = NoSource
    /\ NextStrategy
    /\ UNCHANGED <<givenVars, position, raws, fetches, reusable>>

\* An inline-collection takes its members from the body of the parent.
ReadInline ==
    /\ Running
    /\ turn.doing = "choosing"
    /\ Strategy.kind = "inline-collection"
    /\ \E found \in MemberLists :
          /\ Current.owner = <<>> => found = <<>>
          /\ turn' = [turn EXCEPT !.doing = "members", !.source = Current.owner,
                                  !.listed = found, !.refs = Truncated(Refs(found))]
    /\ UNCHANGED <<givenVars, position, agenda, tree, raws, fetches, reusable, outcome>>

\* The fetch of the root, or the System body in its place, once.
BeginFetch ==
    /\ Running
    /\ turn.doing = "choosing"
    /\ Strategy.kind \in {"object", "collection"}
    /\ Source(Strategy) # NoSource
    /\ IF reusable /\ Strategy.of = "system_uri" THEN
          /\ turn' = [turn EXCEPT !.doing = "reuse", !.source = Source(Strategy)]
          /\ reusable' = FALSE
          /\ UNCHANGED fetches
       ELSE
          /\ turn' = [turn EXCEPT !.doing = "root", !.source = Source(Strategy)]
          /\ fetches' = fetches + 1
          /\ UNCHANGED reusable
    /\ UNCHANGED <<givenVars, position, agenda, tree, raws, outcome>>

HasRoot == turn.doing \in {"root", "reuse"}

\* A When that the root does not match.
WhenMismatch ==
    /\ Running
    /\ HasRoot
    /\ Strategy.when
    /\ NextStrategy
    /\ UNCHANGED <<givenVars, position, raws, fetches, reusable>>

GotObject ==
    /\ Running
    /\ HasRoot
    /\ Strategy.kind = "object"
    /\ \E body \in Bodies : Conclude(<<Record(<<turn.strategy, 0>>, body)>>, turn.strategy)
    /\ UNCHANGED <<givenVars, position, raws, fetches, reusable>>

\* A page of a collection, and whether it links to another.  The members are
\* cut down to MaxMembers when all pages have come.
GotPage ==
    /\ Running
    /\ \/ turn.doing = "page"
       \/ HasRoot /\ Strategy.kind = "collection"
    /\ \E found \in MemberLists, next \in BOOLEAN :
          LET refs == turn.refs \o Refs(found)
          IN  turn' = [turn EXCEPT !.doing = IF next THEN "paging" ELSE "members",
                                   !.listed = @ \o found,
                                   !.refs = IF next THEN refs ELSE Truncated(refs),
                                   !.pages = @ + 1,
                                   !.more = next]
    /\ UNCHANGED <<givenVars, position, agenda, tree, raws, fetches, reusable, outcome>>

NextPage ==
    /\ Running
    /\ turn.doing = "paging"
    /\ turn.pages < max_pages
    /\ turn' = [turn EXCEPT !.doing = "page"]
    /\ fetches' = fetches + 1
    /\ UNCHANGED <<givenVars, position, agenda, tree, raws, reusable, outcome>>

\* Mutant of TooManyPages: another page than MaxPages allows is fetched.
NextPageAnyway ==
    /\ Running
    /\ turn.doing = "paging"
    /\ turn.pages = max_pages
    /\ turn' = [turn EXCEPT !.doing = "page"]
    /\ fetches' = fetches + 1
    /\ UNCHANGED <<givenVars, position, agenda, tree, raws, reusable, outcome>>

TooManyPages ==
    /\ Running
    /\ turn.doing = "paging"
    /\ turn.pages >= max_pages
    /\ NextStrategy
    /\ UNCHANGED <<givenVars, position, raws, fetches, reusable>>

Keep(body) ==
    turn' = [turn EXCEPT !.doing = "members", !.refs = Tail(turn.refs),
                         !.records = Append(turn.records, Record(Head(turn.refs).member, body))]

FetchMember ==
    /\ Running
    /\ turn.doing = "members"
    /\ turn.refs # <<>> /\ Head(turn.refs).kind = "link"
    /\ turn' = [turn EXCEPT !.doing = "member"]
    /\ fetches' = fetches + 1
    /\ UNCHANGED <<givenVars, position, agenda, tree, raws, reusable, outcome>>

\* The body of a link, or of a member that is there already.
GotMember ==
    /\ Running
    /\ \/ turn.doing = "member"
       \/ turn.doing = "members" /\ turn.refs # <<>> /\ Head(turn.refs).kind = "inline"
    /\ \E body \in Bodies : Keep(body)
    /\ UNCHANGED <<givenVars, position, agenda, tree, raws, fetches, reusable, outcome>>

DropMember ==
    /\ Running
    /\ turn.doing = "members"
    /\ turn.refs # <<>> /\ Head(turn.refs).kind = "other"
    /\ turn' = [turn EXCEPT !.refs = Tail(turn.refs)]
    /\ UNCHANGED <<givenVars, position, agenda, tree, raws, fetches, reusable, outcome>>

EndMembers ==
    /\ Running
    /\ turn.doing = "members"
    /\ turn.refs = <<>>
    /\ Conclude(turn.records, turn.strategy)
    /\ UNCHANGED <<givenVars, position, raws, fetches, reusable>>

\* fetch() raises what a request ends with, never an ExecutorError: it passes
\* every handler of the executor and ends the job.
FetchRaises ==
    /\ Running
    /\ turn.doing \in {"root", "page", "member"}
    /\ outcome' = "aborted"
    /\ UNCHANGED <<givenVars, position, agenda, turn, tree, raws, fetches, reusable>>

\* The subtree of a top-level resource is there: its first record may be named
\* by URIFrom.Resource from now on.
NextResource ==
    /\ outcome = "running"
    /\ agenda = <<>>
    /\ LET name == LaneResources[lane][position]
           records == tree[Entry(<<>>, name)].records
       IN  raws' = IF records = <<>> THEN raws
                   ELSE [n \in DOMAIN raws \cup {name} |-> IF n = name THEN records[1].body ELSE raws[n]]
    /\ IF position < Len(LaneResources[lane]) THEN
          /\ position' = position + 1
          /\ agenda' = <<TopLevel(LaneResources[lane][position + 1], bootstrap_ctx)>>
          /\ UNCHANGED outcome
       ELSE
          /\ outcome' = "done"
          /\ UNCHANGED <<position, agenda>>
    /\ UNCHANGED <<givenVars, turn, tree, fetches, reusable>>

CrawlStep ==
    \/ SkipStrategy \/ ReadInline \/ BeginFetch
    \/ WhenMismatch \/ GotObject \/ GotPage
    \/ NextPage \/ TooManyPages
    \/ FetchMember \/ GotMember \/ DropMember \/ EndMembers
    \/ FetchRaises \/ NextResource

-----------------------------------------------------------------------------
(* What a schema may cost                                                  *)

\* The sum of a sequence of numbers.
Total(numbers) ==
    LET sum[i \in 0 .. Len(numbers)] == IF i = 0 THEN 0 ELSE sum[i - 1] + numbers[i]
    IN  sum[Len(numbers)]

\* The fetches a strategy makes of a resource, and the records it gives, at most.
MostFetches(strategy) ==
    CASE strategy.kind = "object" -> 1
      [] strategy.kind = "collection" -> max_pages + max_members
      [] strategy.kind = "inline-collection" -> max_members
      [] OTHER -> 0

MostRecords(strategy) ==
    CASE strategy.kind = "object" -> 1
      [] strategy.kind = "telemetry-reports" -> 0
      [] OTHER -> max_members

\* The fetches of all the strategies of a resource before the one with this number:
\* each may be tried in vain.
FetchesBefore(def, strategy) == Total([i \in 1 .. strategy - 1 |-> MostFetches(def.strategies[i])])

OwnFetches(def) == FetchesBefore(def, Len(def.strategies) + 1)

RecordsGiven(def) == Max({MostRecords(def.strategies[i]) : i \in DOMAIN def.strategies})

\* A resource with so many levels of children below it, each record with all of them.
FetchBudget[levels \in 0 .. max_depth] ==
    [def \in Definitions |->
        LET names == SetToSeq(ChildNames(def))
            OfRecord == Total([i \in DOMAIN names |-> FetchBudget[levels - 1][ChildDef(def, names[i])]])
        IN  OwnFetches(def) + (IF levels = 0 THEN 0 ELSE RecordsGiven(def) * OfRecord)]

\* The first n resources of a lane.
LaneBudget(l, n) == Total([i \in 1 .. n |-> FetchBudget[max_depth][Resources[LaneResources[l][i]]]])

Budgets == [l \in {"fast", "slow"} |-> LaneBudget(l, Len(LaneResources[l]))]

-----------------------------------------------------------------------------
(* Properties *)

CrawlTypeOK ==
    /\ position \in Nat
    /\ turn.doing \in {"choosing", "root", "reuse", "paging", "page", "members", "member"}
    /\ turn.pages \in 0 .. max_pages
    /\ agenda # <<>> => turn.strategy \in DOMAIN Current.def.strategies
    /\ \A e \in DOMAIN tree : e[1] = <<>> \/ e[1] \in Records
    /\ DOMAIN raws \subseteq DOMAIN Resources
    /\ fetches \in Nat
    /\ outcome \in {"none", "running", "done", "failed", "aborted"}

\* The definition a record was made by.
DefAt(path) ==
    LET def[i \in 1 .. Len(path)] == IF i = 1 THEN Resources[path[1][1]] ELSE ChildDef(def[i - 1], path[i][1])
    IN  def[Len(path)]

\* A record and those it is below.
Line(path) == {SubSeq(path, 1, n) : n \in 1 .. Len(path)}

\* Whether the URI of a record came from what it belongs to: its owner, the
\* nearest record it is below that declares the capture, or the bootstrap; or the
\* first record of a resource earlier in the lane than top, which it is part of.
RightSource(r, owner, top) ==
    LET Declaring == {q \in Line(owner) : r.of \in RecordAt(q).capture}
    IN  CASE r.uri = "capture" ->
                IF Declaring = {} THEN r.from = FromBootstrap
                ELSE r.from \in Declaring /\ \A q \in Declaring : Len(q) <= Len(r.from)
          [] r.uri = "resource" ->
                \E i, j \in DOMAIN LaneResources[lane] :
                    /\ i < j /\ LaneResources[lane][j] = top
                    /\ r.from = RecordPath(<<>>, LaneResources[lane][i], 1)
          [] r.uri \in {"parent", "none"} -> r.from = owner
          [] OTHER -> r.from = FromBootstrap

\* What a record was fetched from belongs to it: the captures of the bootstrap,
\* an ancestor, or the first record of a resource earlier in the lane.  Where a
\* capture named the URI, it is that of the nearest ancestor that declares it,
\* never one of a sibling or of another subtree (child_context).
LineageIsKept == \A p \in Records : RightSource(RecordAt(p), Front(p), p[1][1])

\* The places on a list that give a record: the first max_members, but for what is
\* neither a link nor a body.
Chosen(listed) == {i \in DOMAIN listed : i <= max_members /\ listed[i] # "other"}

\* The records are those of the members chosen from this strategy's list, each once
\* and in the order of the list.
AllChosen(e) ==
    /\ {e.records[n].member : n \in DOMAIN e.records} = {e.strategy} \X Chosen(e.listed)
    /\ \A m, n \in DOMAIN e.records : m < n => e.records[m].member[2] < e.records[n].member[2]

\* What an entry must be, by the kind of the strategy that made it.
Whole(e) ==
    CASE e.kind \in {"collection", "inline-collection"} -> AllChosen(e) /\ ~e.more
      [] e.kind = "object" -> Len(e.records) = 1
      [] OTHER -> e.records = <<>>

\* A collection gives all the members that all its pages list, in their order and up
\* to MaxMembers, or none; what a strategy has listed when it runs out of pages gives
\* no record to the strategy after it, nor to another resource.  A job that succeeds
\* has an entry for every resource of the lane, a required one has not failed, and
\* every record has its children, down to MaxDepth and no further, although failures
\* on the way were swallowed (_collect_paginated_member_refs, _resolve_members).
CollectionsAreWhole ==
    /\ \A e \in DOMAIN tree : Whole(tree[e])
    /\ outcome = "done" =>
          /\ \A i \in DOMAIN LaneResources[lane] :
                LET e == Entry(<<>>, LaneResources[lane][i])
                IN  /\ e \in DOMAIN tree
                    /\ Resources[LaneResources[lane][i]].required => tree[e].strategy # 0
          /\ \A p \in Records :
                {e[2] : e \in {d \in DOMAIN tree : d[1] = p}}
                   = IF Len(p) <= max_depth THEN ChildNames(DefAt(p)) ELSE {}

\* An optional resource's failure must not abort the rest of the lane (the comment
\* in collect_v2_resources): a job fails at a required resource only.
OnlyRequiredEndsTheJob ==
    outcome \in {"failed", "aborted"} => Current.owner = <<>> /\ Current.def.required

\* However the BMC links and pages its collections, and whatever fails, a job makes no
\* more fetches than the bounds of its schema give (MaxPages, MaxMembers, MaxDepth).
CrawlWithinBudget == fetches <= Budgets[lane]

=============================================================================
