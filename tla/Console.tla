------------------------------ MODULE Console ------------------------------
(***************************************************************************)
(* What operators see: the read models of DashboardService and             *)
(* MonitoringService, the requests of the dashboard's pages, the clock all *)
(* pages share, and the one request that acts on what a page shows, the    *)
(* retry of a blocked variant.                                             *)
(*                                                                         *)
(* A page polls.  The orchestrator answers with several statements, the    *)
(* other services commit between them, answers arrive late and out of      *)
(* order.  A behaviour has one page open; of the tables only those the     *)
(* page reads change.  Time is counted in units: a bucket of TPS samples,  *)
(* and the step of the clock, are one unit each.                           *)
(***************************************************************************)
EXTENDS Teams, FiniteSetsExt

CONSTANTS
    NumTickets,     \* bound: tickets of the group
    NumRevisions,   \* bound: revisions of the variant
    MaxTime,        \* bound: the last instant
    MaxSamples,     \* bound: TPS samples reported
    RequestedLimit, \* the limit the queue page asks for
    Group           \* the policy row of the server group

ASSUME ConsoleAssumption ==
    /\ NumTickets \in Nat /\ MaxTime \in Nat /\ MaxSamples \in Nat
    /\ NumRevisions \in Nat \ {0} /\ RequestedLimit \in Nat
    /\ MatchmakingPolicy(Group)

\* The cluster page is looked at twice: for its variants and for its overview.
Pages == {"cluster", "overview", "queue", "variants", "instance", "session",
          "monitoring", "alerts"}
Instants == 0..MaxTime

\* What the route of the queue passes on to getQueue.
Limit == CASE RequestedLimit < 1 -> 1
           [] RequestedLimit \in 1..200 -> RequestedLimit
           [] RequestedLimit > 200 -> 200
Revisions == 1..NumRevisions

Retention == 2                          \* seven days
Stale == 1                              \* TPS_STALE_MS
Threshold == 19                         \* TPS_ALERT_THRESHOLD
Tps == {18, 20}                         \* below the threshold and above it
SeriesRange == [duration |-> 2, resolution |-> 2]     \* "7d"

\* The request of the page's query, and one the query has given up.
Slots == {"live", "dropped"}

VARIABLES
    page,       \* the page that is open
    now,        \* the orchestrator's time
    db,         \* the rows the page's requests read
    recorded,   \* history: the samples reported in each unit of time
    fetches,    \* the page's requests under way
    screen,     \* query.data of the cluster page
    anchor,     \* anchorServerMs and anchorLocalMs, NoAnchor before the first
    published,  \* publishedMs
    posts       \* the revisions of the retries under way

vars == <<page, now, db, recorded, fetches, screen, anchor, published, posts>>

browserVars == <<fetches, screen, anchor, published, posts>>

NoPayload == [page |-> "none"]
NoFetch == [phase |-> "none"]
NoAnchor == [server |-> 0, local |-> 0, set |-> FALSE]
NoProfile == <<>>
NoSamples == [count |-> 0, sum |-> 0]

Init ==
    /\ page \in Pages
    /\ now = 0
    /\ db = [queue |-> <<>>, tickets |-> <<>>, session |-> "NONE", holds |-> FALSE,
             pending |-> FALSE, life |-> "STARTING", owned |-> FALSE,
             recovers |-> FALSE, revision |-> 1, layers |-> 1,
             starts |-> [r \in Revisions |-> "NONE"],
             metrics |-> [b \in Instants |-> NoSamples]]
    /\ recorded = [b \in Instants |-> NoSamples]
    /\ fetches = [s \in Slots |-> NoFetch]
    /\ screen = NoPayload
    /\ anchor = NoAnchor /\ published = 0
    /\ posts = {}

-----------------------------------------------------------------------------
(* What the other services commit                                          *)

\* A service commits d, a change of tables the pages P read.
Commit(P, d) ==
    /\ page \in P
    /\ db' = d
    /\ UNCHANGED <<page, now, recorded, browserVars>>

Matchmaking == {"overview", "queue", "session", "instance"}

\* The players of a ticket by state, those that have LEFT not counted: that a
\* player comes back after he left is GameSessions' business.
Ticket(selected, moving) ==
    [selected |-> selected, moving |-> moving, connected |-> 0]
Active(ticket) == ticket.selected + ticket.moving + ticket.connected
Connected(ticket) == ticket.connected

\* The players of each ticket, tickets without any left out: those that count
\* as expected, and those that are connected.
ActiveSizes(tickets) == Present([k \in DOMAIN tickets |-> Active(tickets[k])])
ConnectedSizes(tickets) == Present([k \in DOMAIN tickets |-> Connected(tickets[k])])

Arrived == \E k \in DOMAIN db.tickets : db.tickets[k].connected > 0

Enqueue(n) ==
    /\ Len(db.queue) + Len(db.tickets) < NumTickets
    /\ Commit(Matchmaking, [db EXCEPT !.queue = Append(@, n)])

Reservable == db.life = "RUNNING" /\ ~ db.owned

\* The tickets once all who were selected move, once nobody is expected to move
\* any more, and once those who moved are selected again.
AllMove(tickets) ==
    [k \in DOMAIN tickets |->
        [tickets[k] EXCEPT !.selected = 0, !.moving = @ + tickets[k].selected]]

NoneMoves(tickets) == [k \in DOMAIN tickets |-> [tickets[k] EXCEPT !.moving = 0]]

SelectedAgain(tickets) ==
    [k \in DOMAIN tickets |->
        [tickets[k] EXCEPT !.moving = 0, !.selected = @ + tickets[k].moving]]

\* reserveInstance and startSessionTransfers, on the rows d.
StartSessionTransfers(d) ==
    [d EXCEPT !.session = "TRANSFERRING", !.holds = TRUE, !.owned = TRUE,
              !.pending = TRUE, !.tickets = AllMove(@)]

\* The oldest ticket joins the session: it moves at once when the session has
\* its instance; when the session may now start it gets one, or waits for it.
\* Tickets that find no place here wait for another session.
AttachTicket ==
    LET n == Head(db.queue)
        forming == db.session \in {"NONE", "FORMING"}
        taken == [db EXCEPT !.queue = Tail(@), !.tickets = Append(@, Ticket(n, 0))]
        eligible == IsExpectedStartEligible(ActiveSizes(taken.tickets), Group)
    IN  /\ db.queue # <<>>
        /\ db.session \in {"NONE", "FORMING", "WAITING_FOR_INSTANCE", "TRANSFERRING"}
        /\ CanPlace(ActiveSizes(db.tickets), n, Group)
        /\ Commit(Matchmaking,
            CASE db.holds ->
                    [taken EXCEPT !.tickets = Append(db.tickets, Ticket(0, n)),
                                  !.pending = TRUE]
              [] forming /\ eligible /\ Reservable -> StartSessionTransfers(taken)
              [] forming /\ eligible /\ ~ Reservable ->
                    [taken EXCEPT !.session = "WAITING_FOR_INSTANCE"]
              [] forming /\ ~ eligible -> [taken EXCEPT !.session = "FORMING"]
              [] OTHER -> taken)

\* A session that waits may have become too small to start meanwhile.
AssignWaiting ==
    LET eligible == IsExpectedStartEligible(ActiveSizes(db.tickets), Group)
    IN  /\ db.session = "WAITING_FOR_INSTANCE"
        /\ eligible => Reservable
        /\ Commit(Matchmaking, IF eligible THEN StartSessionTransfers(db)
                                ELSE [db EXCEPT !.session = "FORMING"])

PlayerJoined(k) ==
    /\ db.session = "TRANSFERRING"
    /\ db.tickets[k].moving > 0
    /\ Commit(Matchmaking, [db EXCEPT !.tickets[k].moving = @ - 1,
                                     !.tickets[k].connected = @ + 1])

PlayerLeft(k) ==
    /\ db.tickets[k].connected > 0
    /\ Commit(Matchmaking, [db EXCEPT !.tickets[k].connected = @ - 1])

\* Who has not come by the deadline leaves, and the command is closed.
ExpireTransfers(k) ==
    /\ db.tickets[k].moving > 0
    /\ Commit(Matchmaking, [db EXCEPT !.tickets[k].moving = 0])

CloseTransfer ==
    /\ db.pending
    /\ Commit(Matchmaking, [db EXCEPT !.pending = FALSE])

\* The roster closes and the commands are cancelled.
GameStarting ==
    /\ db.session = "TRANSFERRING" /\ db.life = "RUNNING"
    /\ Commit(Matchmaking,
        [db EXCEPT !.session = "STARTING", !.pending = FALSE,
                   !.tickets = NoneMoves(@)])

GameFinished ==
    /\ db.session = "STARTING" /\ db.life = "RUNNING"
    /\ Commit(Matchmaking, [db EXCEPT !.session = "FINISHED"])

\* markReady, beginDrain and stopAndDelete.
NextLife ==
    /\ \/ db.life \in {"STARTING", "DRAINING", "STOPPING"}
       \/ db.life = "RUNNING" /\ db.session = "FINISHED"
    /\ Commit(Matchmaking,
        [db EXCEPT !.life = CASE @ = "STARTING" -> "RUNNING"
                              [] @ = "RUNNING" -> "DRAINING"
                              [] @ = "DRAINING" -> "STOPPING"
                              [] @ = "STOPPING" -> "STOPPED"])

FailInstance ==
    /\ db.life \in {"STARTING", "RUNNING", "DRAINING"}
    /\ Commit(Matchmaking, [db EXCEPT !.life = "FAILED"])

\* recoverFailedInstances: a session nobody had come to when the rows were read
\* is put back, once its commands are cancelled, in one transaction with its
\* players; db.recovers stands for the decision the tick has in memory.
CancelForInstance ==
    /\ db.session = "TRANSFERRING" /\ db.life = "FAILED"
    /\ ~ Arrived /\ ~ db.recovers
    /\ Commit(Matchmaking, [db EXCEPT !.pending = FALSE, !.recovers = TRUE])

RecoverSession ==
    /\ db.recovers
    /\ Commit(Matchmaking,
        [db EXCEPT !.session = "WAITING_FOR_INSTANCE", !.holds = FALSE,
                   !.recovers = FALSE, !.tickets = SelectedAgain(@)])

\* A session somebody had come to, or that had begun, fails.
FailSession ==
    /\ \/ db.session = "TRANSFERRING" /\ Arrived
       \/ db.session = "STARTING"
    /\ db.life = "FAILED" /\ ~ db.recovers
    /\ Commit(Matchmaking, [db EXCEPT !.session = "FAILED"])

\* synchronizeConfiguration commits a revision with its layers.
SynchronizeVariant ==
    /\ db.revision < NumRevisions
    /\ Commit({"cluster", "variants"},
              [db EXCEPT !.revision = @ + 1, !.layers = db.revision + 1])

\* The last allowed failure of the current revision, and the end of a reset.
BlockRevision ==
    /\ db.starts[db.revision] = "NONE"
    /\ Commit({"cluster", "variants"}, [db EXCEPT !.starts[db.revision] = "BLOCKED"])

CompleteReset(r) ==
    /\ db.starts[r] = "RESETTING"
    /\ Commit({"cluster", "variants"}, [db EXCEPT !.starts[r] = "NONE"])

-----------------------------------------------------------------------------
(* TPS samples                                                             *)

Metrics == {"monitoring", "alerts"}

SumOver(samples, buckets) ==
    [count |-> FoldSet(LAMBDA b, n : n + samples[b].count, 0, buckets),
     sum |-> FoldSet(LAMBDA b, n : n + samples[b].sum, 0, buckets)]

AddSample(samples, tps) == [count |-> samples.count + 1, sum |-> samples.sum + tps]

\* INSERT ... ON CONFLICT DO UPDATE: the row of a bucket after one sample more.
Contribution(samples, tps) == AddSample(samples, tps)

RecordTps(tps) ==
    /\ page \in Metrics
    /\ SumOver(recorded, Instants).count < MaxSamples
    /\ recorded' = [recorded EXCEPT ![now] = AddSample(@, tps)]
    /\ db' = [db EXCEPT !.metrics[now] = Contribution(@, tps)]
    /\ UNCHANGED <<page, now, browserVars>>

Prune ==
    Commit(Metrics,
           [db EXCEPT !.metrics = [b \in Instants |->
                IF b < now - Retention THEN NoSamples ELSE @[b]]])

-----------------------------------------------------------------------------
(* The answers.  first are the rows of the first statement, rows those of  *)
(* the later ones.                                                         *)

ToVariant(rows) ==
    [revision |-> rows.revision, startup |-> rows.starts[rows.revision]]

ToInstance(rows) == [life |-> rows.life, owned |-> rows.owned]

ToSession(rows) ==
    [state |-> rows.session, holds |-> rows.holds,
     active |-> Total(ActiveSizes(rows.tickets)),
     connected |-> Total(ConnectedSizes(rows.tickets))]

\* The session, if it exists.
ReadSessionRows(rows) == IF rows.session = "NONE" THEN {} ELSE {ToSession(rows)}

\* The entries of a group that are QUEUED, and their players.
QueueSummary(queue) == [parties |-> Len(queue), players |-> Total(queue)]

One(condition) == IF condition THEN 1 ELSE 0

\* activeInstances.
IsActive(life) == life \in {"CREATING", "STARTING", "RUNNING", "DRAINING"}

\* The sessions readClusterRows lists: those that are not over, and those an
\* instance is still kept for.
Listed(rows) ==
    \/ rows.session \in {"FORMING", "WAITING_FOR_INSTANCE", "TRANSFERRING", "STARTING"}
    \/ rows.session # "NONE" /\ rows.owned /\ rows.life # "STOPPED"

\* The host and what it carries.
ToHost(rows) == [active |-> One(IsActive(rows.life))]

\* Hosts, variants and instances are read first, sessions and queues follow.
ReadClusterRows(first, rows) ==
    [host |-> ToHost(first),
     variant |-> ToVariant(first), instance |-> ToInstance(first),
     sessions |-> IF Listed(rows) THEN {ToSession(rows)} ELSE {},
     queue |-> QueueSummary(rows.queue)]

\* The capacity of the group, of its one instance.
Capacity(instance) ==
    [active |-> One(IsActive(instance.life)),
     warm |-> One(instance.life = "RUNNING" /\ ~ instance.owned),
     pendingWarm |-> One(instance.life \in {"CREATING", "STARTING"} /\ ~ instance.owned),
     reserved |-> One(IsActive(instance.life) /\ instance.owned)]

\* The totals of the cluster, of its one group.
Totals(read) ==
    [sessions |->
        Cardinality({ s \in read.sessions : s.state \notin {"FINISHED", "FAILED"} }),
     queued |-> read.queue]

AssembleClusterSnapshot(read) ==
    [page |-> page, host |-> read.host, variant |-> read.variant,
     capacity |-> Capacity(read.instance), sessions |-> read.sessions,
     totals |-> Totals(read)]

GetCluster(first, rows) == AssembleClusterSnapshot(ReadClusterRows(first, rows))

GetQueue(first, rows) ==
    LET entries == SubSeq(rows.queue, 1, IF Len(rows.queue) < Limit
                                         THEN Len(rows.queue) ELSE Limit)
    IN  [page |-> "queue", total |-> QueueSummary(first.queue), entries |-> entries,
         truncated |-> Len(first.queue) > Len(entries)]

GetVariants(first, rows) ==
    [page |-> "variants", variant |-> ToVariant(first), layers |-> rows.layers]

\* activeInstanceDeadline, by its kind.
ActiveInstanceDeadline(rows) ==
    CASE rows.life = "STARTING" -> "INSTANCE_STARTUP"
      [] rows.life = "RUNNING" -> "INSTANCE_RENEWAL"
      [] rows.life = "DRAINING" -> "INSTANCE_DRAIN"
      [] rows.life = "STOPPING" -> "INSTANCE_SHUTDOWN"
      [] OTHER -> "none"

\* activeSessionDeadline, by its kind: a pending command hides the deadline of
\* the lobby.
ActiveSessionDeadline(session, rows) ==
    CASE session = "WAITING_FOR_INSTANCE" -> "INSTANCE_ACQUISITION"
      [] session = "TRANSFERRING" /\ rows.pending -> "PLAYER_TRANSFER"
      [] session = "TRANSFERRING" /\ ~ rows.pending -> "LOBBY_STALE"
      [] OTHER -> "none"

GetInstance(first, rows) ==
    [page |-> "instance", instance |-> ToInstance(first),
     deadline |-> ActiveInstanceDeadline(first),
     session |-> IF first.owned THEN ReadSessionRows(rows) ELSE {}]

Recommended(sizes) ==
    LET profiles == ComputeFeasibleProfiles(sizes, Group.teamCount, Group.teamSize)
    IN  IF profiles = {} THEN NoProfile ELSE SelectRecommendedProfile(profiles)

\* A session that does not exist is not found.
GetSession(first, rows) ==
    IF ReadSessionRows(first) = {} THEN NoPayload
    ELSE [page |-> "session", session |-> ToSession(first), tickets |-> rows.tickets,
          deadline |-> ActiveSessionDeadline(first.session, rows),
          expected |-> Recommended(ActiveSizes(rows.tickets)),
          connected |-> Recommended(ConnectedSizes(rows.tickets))]

\* The buckets of a range that ends at the instant at.
InRange(at) == { b \in Instants : b >= at - SeriesRange.duration /\ b =< at }

\* The point a bucket is counted in.
PointOf(b) == (b \div SeriesRange.resolution) * SeriesRange.resolution

\* The range is taken at the instant the request is read at, the samples later.
GetGroupSeries(at, rows) ==
    [page |-> "monitoring", at |-> at,
     points |-> [p \in { PointOf(b) : b \in InRange(at) } |->
                    SumOver(rows.metrics, { b \in InRange(at) : PointOf(b) = p })]]

GetSummary(rows) ==
    LET recent == { b \in Instants : b >= now - Stale /\ rows.metrics[b].count > 0 }
        latest == CHOOSE b \in recent : \A c \in recent : c =< b
    IN  [page |-> "alerts", at |-> now,
         alerts |-> IF recent = {} THEN {}
                    ELSE { b \in {latest} :
                             rows.metrics[b].sum < Threshold * rows.metrics[b].count }]

\* The handler of each page's route.
Answer(at, first, rows) ==
    CASE page \in {"cluster", "overview"} -> GetCluster(first, rows)
      [] page = "queue" -> GetQueue(first, rows)
      [] page = "variants" -> GetVariants(first, rows)
      [] page = "instance" -> GetInstance(first, rows)
      [] page = "session" -> GetSession(first, rows)
      [] page = "monitoring" -> GetGroupSeries(at, db)
      [] page = "alerts" -> GetSummary(db)

-----------------------------------------------------------------------------
(* Requests                                                                *)

\* fetchCluster, fetchQueue and the others: the request of the open page.
Sent == [phase |-> "sent"]

\* The query's interval, which does nothing while a request is under way.
Poll ==
    /\ fetches["live"] = NoFetch
    /\ fetches' = [fetches EXCEPT !["live"] = Sent]
    /\ UNCHANGED <<page, now, db, recorded, screen, anchor, published, posts>>

\* Of a request the query has given up only the instant matters.
GivenUp(f) ==
    CASE f.phase = "reading" -> [f EXCEPT !.rows = NoPayload]
      [] f.phase = "answered" -> [f EXCEPT !.payload = NoPayload]
      [] OTHER -> f

\* ClusterProvider's refresh(): the query gives up the request under way, which
\* goes on.
Refresh ==
    /\ page = "cluster"
    /\ fetches["live"] # NoFetch
    /\ fetches["dropped"] = NoFetch     \* bound: one given up at a time
    /\ fetches' = [live |-> Sent, dropped |-> GivenUp(fetches["live"])]
    /\ UNCHANGED <<page, now, db, recorded, screen, anchor, published, posts>>

\* The first statement fixes the rows of the transaction; MonitoringService
\* opens none.
BeginRead(s) ==
    /\ fetches[s].phase = "sent"
    /\ fetches' = [fetches EXCEPT ![s] =
            [phase |-> "reading", at |-> now,
             rows |-> IF page \in Metrics \/ s = "dropped" THEN NoPayload ELSE db]]
    /\ UNCHANGED <<page, now, db, recorded, screen, anchor, published, posts>>

\* MUTANT of LaterRows: READ COMMITTED, each statement sees the last commit.
LaterRowsCommitted(s) == db

\* SET TRANSACTION ISOLATION LEVEL REPEATABLE READ READ ONLY.
LaterRows(s) == fetches[s].rows

\* The last statement, and generatedAt; a series is stamped before it is read.
Respond(s) ==
    /\ fetches[s].phase = "reading"
    /\ fetches' = [fetches EXCEPT ![s] =
            [phase |-> "answered",
             at |-> IF page = "monitoring" THEN @.at ELSE now,
             payload |-> IF s = "dropped" THEN NoPayload
                         ELSE Answer(@.at, @.rows, LaterRows(s))]]
    /\ UNCHANGED <<page, now, db, recorded, screen, anchor, published, posts>>

\* An error, or no answer in time: readJson throws and the page keeps its data.
FetchFails(s) ==
    /\ fetches[s] # NoFetch
    /\ fetches' = [fetches EXCEPT ![s] = NoFetch]
    /\ UNCHANGED <<page, now, db, recorded, screen, anchor, published, posts>>

-----------------------------------------------------------------------------
(* The clock                                                               *)

\* localNow() runs with the orchestrator's time; its offset does not matter.
Projected ==
    IF anchor.set THEN anchor.server + (now - anchor.local) ELSE 0

\* MUTANT of Behind: only payloads older than the last one are refused.
BehindAnchor(at) == anchor.set /\ at < anchor.server

\* A payload's instant that would rewind the clock.
Behind(at) ==
    /\ anchor.set
    /\ at < anchor.server \/ at < published \/ at < Projected

SyncClock(at) ==
    IF Behind(at)
    THEN UNCHANGED <<anchor, published>>
    ELSE /\ anchor' = [server |-> at, local |-> now, set |-> TRUE]
         /\ published' = at

\* readJson sets the clock by every payload; the query shows its own.  Of what
\* is shown only the cluster is acted upon.
Deliver(s) ==
    /\ fetches[s].phase = "answered"
    /\ SyncClock(fetches[s].at)
    /\ screen' = IF s = "live" /\ page = "cluster" THEN fetches[s].payload ELSE screen
    /\ fetches' = [fetches EXCEPT ![s] = NoFetch]
    /\ UNCHANGED <<page, now, db, recorded, posts>>

\* tick, once a second while somebody looks.
Tick ==
    /\ Projected # published
    /\ published' = Projected
    /\ UNCHANGED <<page, now, db, recorded, fetches, screen, anchor, posts>>

\* The pages the passing of time is looked at on: the clock is one for all.
Timed == {"cluster", "monitoring", "alerts"}

TimePasses ==
    /\ page \in Timed
    /\ now < MaxTime
    /\ now' = now + 1
    /\ UNCHANGED <<page, db, recorded, browserVars>>

-----------------------------------------------------------------------------
(* The retry of a blocked variant                                          *)

\* The route of the dashboard passes the retry on to the orchestrator.
PostStartupRetry(r) == posts' = posts \cup {r}

\* VariantStartupAction, offered for the revision the page shows as blocked.
ConfirmRetry ==
    /\ page = "cluster" /\ screen # NoPayload
    /\ screen.variant.startup = "BLOCKED"
    /\ PostStartupRetry(screen.variant.revision)
    /\ UNCHANGED <<page, now, db, recorded, fetches, screen, anchor, published>>

\* MUTANT of ResetRequested: the row of the variant, whatever its revision.
ResetRequestedCurrent(r) ==
    IF db.starts[db.revision] = "BLOCKED"
    THEN [db EXCEPT !.starts[db.revision] = "RESETTING"] ELSE db

\* The rows after requestReset: NOT_FOUND unless r is the current revision,
\* CONFLICT unless its row is blocked.
ResetRequested(r) ==
    IF r = db.revision /\ db.starts[r] = "BLOCKED"
    THEN [db EXCEPT !.starts[r] = "RESETTING"] ELSE db

\* The page of who asked refreshes; a request whose answer was lost is asked
\* for again.
RequestReset(r) ==
    /\ r \in posts
    /\ db' = ResetRequested(r)
    /\ posts' \in {posts, posts \ {r}}
    /\ UNCHANGED <<page, now, recorded, fetches, screen, anchor, published>>

-----------------------------------------------------------------------------

Commits ==
    \/ \E n \in 1..Group.teamSize : Enqueue(n)
    \/ AttachTicket
    \/ AssignWaiting
    \/ \E k \in DOMAIN db.tickets : PlayerJoined(k) \/ PlayerLeft(k) \/ ExpireTransfers(k)
    \/ CloseTransfer
    \/ GameStarting
    \/ GameFinished
    \/ NextLife
    \/ FailInstance
    \/ CancelForInstance
    \/ RecoverSession
    \/ FailSession
    \/ SynchronizeVariant
    \/ BlockRevision
    \/ \E r \in Revisions : CompleteReset(r)
    \/ \E tps \in Tps : RecordTps(tps)
    \/ Prune

Browser ==
    \/ Poll
    \/ Refresh
    \/ \E s \in Slots : BeginRead(s) \/ Respond(s) \/ FetchFails(s) \/ Deliver(s)
    \/ Tick
    \/ ConfirmRetry
    \/ \E r \in posts : RequestReset(r)

Next == Commits \/ Browser \/ TimePasses

Spec == Init /\ [][Next]_vars

-----------------------------------------------------------------------------
(* What makes the console correct                                          *)

\* The payloads under way.
Payloads ==
    { fetches[s].payload : s \in { s \in Slots : fetches[s].phase = "answered" } }

\* The page says "and more" exactly when it leaves entries out.
QueueAdds(p) ==
    IF p.truncated
    THEN Len(p.entries) = Limit /\ p.total.parties > Limit
    ELSE p.total = QueueSummary(p.entries)

\* The header, the tickets and the profiles are of one moment, and a session
\* without its instance has nobody on the way.
SessionAdds(p) ==
    /\ p.session.active = Total(ActiveSizes(p.tickets))
    /\ p.session.active = Total(p.expected)
    /\ p.session.connected = Total(p.connected)
    /\ p.session.holds \/ \A k \in DOMAIN p.tickets : p.tickets[k].moving = 0
    /\ p.session.state = "STARTING" => p.deadline = "none"

\* A session shown on an instance that lives is the one the instance is reserved
\* for, and the capacity counts the instances of the hosts, each in one way.
ClusterAdds(p) ==
    /\ p.capacity.reserved = 1 <=>
            p.capacity.active = 1 /\ \E s \in p.sessions : s.holds
    /\ p.host.active = p.capacity.warm + p.capacity.pendingWarm + p.capacity.reserved

\* Minutes that are over are counted in full as long as they are kept.
SeriesAdds(p) ==
    \A q \in DOMAIN p.points :
        LET all == { b \in InRange(p.at) : PointOf(b) = q }
            over == { b \in all : b < p.at /\ b >= now - Retention }
        IN  /\ p.points[q].count >= SumOver(recorded, over).count
            /\ p.points[q].count =< SumOver(recorded, all).count

\* Every payload is true of one moment, although it is put together from
\* several statements between which matchmaker, plugins, configuration and
\* metrics commit: totals agree with what is listed, the header of a session
\* with its tickets and profiles, a variant with its layers, an instance, alone
\* or in the overview, with the session it is reserved for, and no sample is
\* lost from a series.
PayloadsAdd ==
    \A p \in Payloads :
        CASE p.page \in {"cluster", "overview"} -> ClusterAdds(p)
          [] p.page = "queue" -> QueueAdds(p)
          [] p.page = "variants" -> p.layers = p.variant.revision
          [] p.page = "session" -> SessionAdds(p)
          [] p.page = "instance" ->
                p.instance.owned /\ p.instance.life # "FAILED" =>
                    \E s \in p.session : s.holds
          [] p.page = "monitoring" -> SeriesAdds(p)
          [] p.page = "alerts" ->
                \A b \in p.alerts : b < p.at =>
                    recorded[b].sum < Threshold * recorded[b].count
          [] p.page = "none" -> TRUE

\* The clock every age is measured by never goes back and never runs ahead of
\* the orchestrator, in whatever order payloads arrive.
ClockForward == [][published' >= published /\ published' =< now']_published

\* A retry asked for on a page that is out of date resets nothing but the
\* revision it was asked for, and that only while it is the current one.
RetryHitsItsRevision ==
    [][\A r \in Revisions :
        db.starts[r] = "BLOCKED" /\ db'.starts[r] = "RESETTING"
            => r \in posts /\ r = db.revision]_db
=============================================================================
