----------------------------- MODULE SiteVisits -----------------------------
(***************************************************************************)
(* Anonymous visit analytics (analytics.py, AnalyticsStore of store.py,    *)
(* collect_analytics and the prune task of main.py): visits and page views *)
(* are recorded, elapsed days are rolled up into permanent totals, and raw *)
(* rows older than the retention are deleted.  prune holds the store's     *)
(* lock throughout, but each statement commits, and the process may stop   *)
(* between two; the next start prunes again.                               *)
(*                                                                         *)
(* A visitor stands for an address hash and a user agent.  Bot counts are  *)
(* left out: they are computed as the other totals are.                    *)
(***************************************************************************)
EXTENDS Naturals, FiniteSets

CONSTANTS Visits, Visitors, None,
          DayLength,     \* ticks of a UTC day
          Gap,           \* session_gap_minutes, in ticks
          RetentionDays, \* SAAS_ANALYTICS_RETENTION_DAYS
          MaxNow         \* bound on the clock, for model checking

VARIABLES
  now,
  visit,     \* analytics_visits
  views,     \* analytics_page_views
  daily,     \* analytics_daily
  prune,     \* the statement prune is at, and the days still to roll up
  seen       \* history: the totals of each day, raw rows deleted or not

vars == <<now, visit, views, daily, prune, seen>>

Day(t) == t \div DayLength
Days == 0..Day(MaxNow)
Zero == [visits |-> 0, visitors |-> {}, views |-> 0]
Asleep == [pc |-> "asleep", days |-> {}]

Init ==
  /\ now = 0 /\ visit = [v \in Visits |-> None] /\ views = {}
  /\ daily = [d \in Days |-> None] /\ seen = [d \in Days |-> Zero]
  /\ prune = [pc |-> "start", days |-> {}]

Rows == {v \in Visits : visit[v] # None}
Reusable(v, who) == /\ visit[v] # None /\ visit[v].who = who
                    /\ now - visit[v].last <= Gap

View(v) == views' = views \union {[visit |-> v, at |-> now]}
Today == Day(now)

\* The visit continues: one more page view.
RecordAgain(v, who) ==
  /\ prune.pc = "asleep" /\ Reusable(v, who)
  /\ [visit |-> v, at |-> now] \notin views      \* one view per tick
  /\ visit' = [visit EXCEPT ![v].last = now]
  /\ View(v)
  /\ seen' = [seen EXCEPT ![Today].views = @ + 1]
  /\ UNCHANGED <<now, daily, prune>>

\* An identity the browser made and the table has not, or, when it sent one
\* that is stale or another visitor's, a new one.
RecordFirst(v, who) ==
  /\ prune.pc = "asleep" /\ visit[v] = None
  /\ [visit |-> v, at |-> now] \notin views
  /\ visit' = [visit EXCEPT ![v] = [first |-> now, last |-> now, who |-> who]]
  /\ View(v)
  /\ seen' = [seen EXCEPT ![Today] =
       [visits |-> @.visits + 1, visitors |-> @.visitors \union {who},
        views |-> @.views + 1]]
  /\ UNCHANGED <<now, daily, prune>>

\* The task wakes once a day; a start prunes at once.
Wake == /\ prune.pc = "asleep" /\ prune' = [pc |-> "start", days |-> {}]
        /\ UNCHANGED <<now, visit, views, daily, seen>>

FirstOn(d) == {v \in Rows : Day(visit[v].first) = d}

CompletedDays ==
  /\ prune.pc = "start"
  /\ prune' = [pc |-> "roll", days |-> {d \in Days : d < Today /\ FirstOn(d) # {}}]
  /\ UNCHANGED <<now, visit, views, daily, seen>>

Total(d) == [visits   |-> Cardinality(FirstOn(d)),
             visitors |-> {visit[v].who : v \in FirstOn(d)},
             views    |-> Cardinality({w \in views : Day(w.at) = d})]

\* INSERT OR REPLACE of the totals of one elapsed day.
RollUp(d) ==
  /\ prune.pc = "roll" /\ d \in prune.days
  /\ daily' = [daily EXCEPT ![d] = Total(d)]
  /\ prune' = [prune EXCEPT !.days = @ \ {d}]
  /\ UNCHANGED <<now, visit, views, seen>>

Old(t) == t + RetentionDays * DayLength < now      \* before the cutoff

\* Each loop of batches ends when no old row is left.
DeleteViews ==
  /\ prune.pc = "roll" /\ prune.days = {}
  /\ prune' = [prune EXCEPT !.pc = "visits"]
  /\ views' = {w \in views : ~Old(w.at)}
  /\ UNCHANGED <<now, visit, daily, seen>>

DeleteVisits ==
  /\ prune.pc = "visits" /\ prune' = Asleep
  /\ visit' = [v \in Visits |-> IF visit[v] # None /\ Old(visit[v].last)
                               THEN None ELSE visit[v]]
  /\ UNCHANGED <<now, views, daily, seen>>

Restart == /\ prune' = [pc |-> "start", days |-> {}]
           /\ UNCHANGED <<now, visit, views, daily, seen>>

\* prune computes the cutoff and today once, at its start.
Tick == /\ prune.pc = "asleep" /\ now < MaxNow /\ now' = now + 1
        /\ UNCHANGED <<visit, views, daily, prune, seen>>

Next ==
  \/ \E v \in Visits, who \in Visitors : RecordAgain(v, who) \/ RecordFirst(v, who)
  \/ Wake \/ CompletedDays \/ (\E d \in Days : RollUp(d))
  \/ DeleteViews \/ DeleteVisits \/ Restart \/ Tick

Spec == Init /\ [][Next]_vars
-----------------------------------------------------------------------------
(* "Each elapsed day SHALL be aggregated into a compact daily-totals table   *)
(* that is retained indefinitely" before its rows are deleted, and "that     *)
(* day's visit, page-view, unique-visitor, and bot totals remain readable"   *)
(* (site-visit-analytics/spec.md:107, :116-119): a stored total counts every *)
(* visit that began on its day.                                              *)
TotalsOutliveRawRows ==
  \A d \in Days : daily[d] # None => daily[d].visits = seen[d].visits
=============================================================================
