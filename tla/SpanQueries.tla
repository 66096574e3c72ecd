---------------------------- MODULE SpanQueries ----------------------------
(***************************************************************************)
(* The queries of a SpanStore over spans                                   *)
(*   [id, at, name, agent, model, cost, trace]                             *)
(* in two versions: over one list, as InMemorySpanStore answers them (its  *)
(* doc calls it the reference implementation), and over window files, as   *)
(* SQLiteSpanStore does: one SELECT per file, merged by an outer one.      *)
(* Sums are sums of cost; a missing cost is NoCost, a missing agent or     *)
(* model None.                                                             *)
(***************************************************************************)
EXTENDS Integers, Sequences, FiniteSetsExt

CONSTANTS WindowSize, \* window_days in seconds
          Bucket,     \* bucket_seconds
          Limit       \* of recent_spans

None == "None"
NoCost == -1
InRange(s, since, until) == since <= s.at /\ s.at <= until

\* CAST(start_time / bucket AS INTEGER) * bucket
BucketStart(s) == (s.at \div Bucket) * Bucket

Billed(s) == s.cost # NoCost
Handled(s) == s.name = "civitas.agent.handle"

\* SELECT key, SUM(value) ... GROUP BY key
GroupBy(S, Key(_), Value(_)) ==
    [k \in {Key(s) : s \in S} |-> MapThenSumSet(Value, {s \in S : Key(s) = k})]

\* Mutant: the first of the groups of a key stands for all.
MergeFirst(groups) ==
    [k \in UNION {DOMAIN groups[i] : i \in DOMAIN groups} |->
        LET has == {i \in DOMAIN groups : k \in DOMAIN groups[i]}
        IN  groups[Min(has)][k]]

\* The outer SELECT over the UNION ALL of the inner ones: the groups of one key
\* are added up.
Merge(groups) ==
    [k \in UNION {DOMAIN groups[i] : i \in DOMAIN groups} |->
        MapThenSumSet(LAMBDA i : groups[i][k], {i \in DOMAIN groups : k \in DOMAIN groups[i]})]

Cost(s) == s.cost
One(s) == 1
CostKey(s) == <<BucketStart(s), s.agent, s.model>>
RateKey(s) == <<BucketStart(s), s.agent>>
AgentOf(s) == s.agent
ModelOf(s) == s.model

\* The newest spans, and the spans of a trace, in order of their time.
Newest(S) == {s \in S : Cardinality({t \in S : t.at > s.at}) < Limit}
Ordered(S) == {p \in S \X S : p[1].at < p[2].at}

-----------------------------------------------------------------------------
(* InMemorySpanStore                                                       *)

CostOverTime(S) == GroupBy({s \in S : Billed(s)}, CostKey, Cost)
MessageRate(S) == GroupBy({s \in S : Handled(s)}, RateKey, One)
CostByAgent(S) == GroupBy({s \in S : Billed(s) /\ s.agent # None}, AgentOf, Cost)
CostByModel(S) == GroupBy({s \in S : Billed(s) /\ s.model # None}, ModelOf, Cost)
RecentSpans(S) == Newest(S)
SpansInTrace(S, trace) == Ordered({s \in S : s.trace = trace})

-----------------------------------------------------------------------------
(* SQLiteSpanStore: W gives the rows of each window's file.                *)

Each(W, P(_), Key(_), Value(_)) ==
    [i \in DOMAIN W |-> GroupBy({s \in W[i] : P(s)}, Key, Value)]

CostOverTimeSql(W) == Merge(Each(W, Billed, CostKey, Cost))
MessageRateSql(W) == Merge(Each(W, Handled, RateKey, One))
CostByAgentSql(W) ==
    Merge(Each(W, LAMBDA s : Billed(s) /\ s.agent # None, AgentOf, Cost))
CostByModelSql(W) ==
    Merge(Each(W, LAMBDA s : Billed(s) /\ s.model # None, ModelOf, Cost))
RecentSpansSql(W) == Newest(UNION {W[i] : i \in DOMAIN W})
SpansInTraceSql(W, trace) ==
    Ordered(UNION {{s \in W[i] : s.trace = trace} : i \in DOMAIN W})

\* All six answers over window files are those over one list.
SameAnswers(W, traces) ==
    LET S == UNION {W[i] : i \in DOMAIN W} IN
    /\ CostOverTimeSql(W) = CostOverTime(S)
    /\ MessageRateSql(W) = MessageRate(S)
    /\ CostByAgentSql(W) = CostByAgent(S)
    /\ CostByModelSql(W) = CostByModel(S)
    /\ RecentSpansSql(W) = RecentSpans(S)
    /\ \A t \in traces : SpansInTraceSql(W, t) = SpansInTrace(S, t)

-----------------------------------------------------------------------------
WindowIndex(t) == t \div WindowSize

\* normalize_span(): whose span it is and what it cost, by the kind of span;
\* an LLM span of a bare tracer has no agent, and only LLM spans cost.
LlmSpans == {"civitas.llm.chat", "llm.chat"}
AgentSpans == {"civitas.llm.chat", "civitas.agent.handle", "send", "recv", "tool.execute",
               "supervisor.restart"}

NormalizeSpan(s) ==
    [s EXCEPT !.agent = IF s.name \in AgentSpans THEN @ ELSE None,
              !.model = IF s.name \in LlmSpans THEN @ ELSE None,
              !.cost = IF s.name \in LlmSpans THEN @ ELSE NoCost]
=============================================================================
