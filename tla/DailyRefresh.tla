---------------------------- MODULE DailyRefresh ----------------------------
(***************************************************************************)
(* The daily data chain and the features that are built from its data:     *)
(* run_daily_pipeline runs sync_market_data, sync_research, the            *)
(* predictions and the backfill of actuals in one process; the operator    *)
(* loads reports and mentions and enters manual signals at any time.       *)
(*                                                                         *)
(* An instant 2 * d is local midnight of day d, the time stamp of its      *)
(* daily bar; 2 * d + 1 is later that day.  A fact is a stored row that    *)
(* became public at an instant; a fact that is corrected has a new         *)
(* version.  The value of a feature is abstracted to the facts it is       *)
(* computed from.                                                          *)
(***************************************************************************)
EXTENDS Integers, SequencesExt, FiniteSetsExt

CONSTANTS
    Symbols,          \* active instruments
    Lags,             \* lags of an "ohlc" source
    Window,           \* length of the news and mention windows
    LastRefreshDay,
    Instants,         \* when headlines, reports, mentions and entries may date from
    Selections,       \* command lines: the jobs of --only and --skip, --fail-fast
    Outages,          \* sets of research providers that may raise at once
    MaxEntries,       \* rows the operator enters
    MaxEdits          \* manual signals the operator edits after that

(* Days and instants are numbers.                                          *)
ASSUME RefreshConstants == Instants \subseteq Nat /\ LastRefreshDay \in Nat

VARIABLES
    dfDay,
    dfFacts,        \* PriceBar, NewsItem, CompanyFundamental, SocialMention, ManualSignal
    dfSnapshots,    \* ResearchSnapshot rows
    dfForecasts,    \* forecasts, with the features and the facts of their moment
    dfEntered,      \* rows the operator entered or edited, so far
    dfRun           \* the pipeline: command line, jobs to do, outcomes, exit status

dfVars == <<dfDay, dfFacts, dfSnapshots, dfForecasts, dfEntered, dfRun>>

Fact(kind, symbol, at, version) == [kind |-> kind, symbol |-> symbol, at |-> at, version |-> version]
Key(x) == <<x.kind, x.symbol, x.at>>
Now == 2 * dfDay + 1
DateOf(instant) == instant \div 2

(* bulk_create with update_conflicts and update_or_create replace a row,   *)
(* get_or_create keeps the one there is.                                   *)
Upsert(new) == {x \in dfFacts : \A y \in new : Key(x) # Key(y)} \cup new
KeepOrAdd(new) == dfFacts \cup {y \in new : \A x \in dfFacts : Key(x) # Key(y)}

-----------------------------------------------------------------------------
(* Features as of an instant, from the rows there are (modeling.features,  *)
(* research.providers).                                                    *)

Of(facts, kind, symbol) == {x \in facts : x.kind = kind /\ x.symbol = symbol}

(* load_ohlcv, and the prefix a technical feature is given.                *)
BarsTo(facts, symbol, as_of) == {b \in Of(facts, "bar", symbol) : b.at <= as_of}

(* shift(k): the bar k places before the decision bar.                     *)
Lagged(facts, symbol, as_of) ==
    {b \in BarsTo(facts, symbol, as_of) :
        Cardinality({x \in BarsTo(facts, symbol, as_of) : x.at > b.at}) \in Lags}

(* Mutant: everything since the start of the window.                       *)
WithinAndAfter(facts, kind, symbol, as_of) == {x \in Of(facts, kind, symbol) : x.at >= as_of - Window}

(* The windows of news_features and social_features.                       *)
Within(facts, kind, symbol, as_of) ==
    {x \in Of(facts, kind, symbol) : as_of - Window <= x.at /\ x.at <= as_of}

(* fundamentals_features: the latest report of an earlier date.            *)
LatestReport(facts, symbol, as_of) ==
    LET earlier == {x \in Of(facts, "report", symbol) : DateOf(x.at) < DateOf(as_of)}
    IN  {x \in earlier : \A y \in earlier : y.at <= x.at}

ManualEntry(facts, symbol, as_of) == {x \in Of(facts, "manual", symbol) : DateOf(x.at) = DateOf(as_of)}

(* What a provider computes its features from.                             *)
Providers == {"technical", "news", "fundamentals", "social"}
Source(provider, facts, symbol, as_of) ==
    CASE provider = "technical"    -> BarsTo(facts, symbol, as_of)
      [] provider = "news"         -> Within(facts, "news", symbol, as_of)
      [] provider = "fundamentals" -> LatestReport(facts, symbol, as_of)
      [] provider = "social"       -> Within(facts, "mention", symbol, as_of)

(* build_feature_bundle: a provider that raises is left out.               *)
Bundle(facts, symbol, as_of, working) ==
    [provider \in working |-> Source(provider, facts, symbol, as_of)]

(* build_feature_columns for one decision: the research sources are built  *)
(* anew, no snapshot is read, and the columns of a source that is left out *)
(* are missing values.                                                     *)
FeatureRow(facts, symbol, as_of, working) ==
    [ ohlc |-> Lagged(facts, symbol, as_of),
      research |-> Bundle(facts, symbol, as_of, working),
      manual |-> ManualEntry(facts, symbol, as_of) ]

-----------------------------------------------------------------------------
(* The jobs, in pipeline_order. *)

Jobs == <<"sync_market_data", "sync_research", "run_model_predictions",
          "backfill_prediction_actuals">>

RefreshInit ==
    /\ dfDay = 1 /\ dfFacts = {} /\ dfSnapshots = {} /\ dfForecasts = {} /\ dfEntered = 0
    /\ dfRun = [exit |-> "none"]

(* The jobs the command line selects, in their order.                      *)
Selected(line) ==
    LET kept == {i \in DOMAIN Jobs : (line.only = {} \/ Jobs[i] \in line.only) /\ Jobs[i] \notin line.skip}
    IN  [k \in 1..Cardinality(kept) |->
            Jobs[CHOOSE i \in kept : Cardinality({x \in kept : x <= i}) = k]]

(* With none there is nothing to run and the command succeeds.             *)
StartPipeline ==
    /\ dfRun.exit # "running" /\ dfDay < LastRefreshDay
    /\ dfDay' = dfDay + 1
    /\ \E line \in Selections :
          LET todo == Selected(line)
          IN  dfRun' = [ exit |-> IF todo = <<>> THEN "success" ELSE "running", selected |-> todo,
                         todo |-> todo, outcomes |-> <<>>, failed |-> <<>>, fail_fast |-> line.fail_fast ]
    /\ UNCHANGED <<dfFacts, dfSnapshots, dfForecasts, dfEntered>>

Running(job) == dfRun.exit = "running" /\ dfRun.todo # <<>> /\ Head(dfRun.todo) = job

Succeeded(job) ==
    dfRun' = [dfRun EXCEPT !.todo = Tail(@), !.outcomes = Append(@, <<job, "ok">>)]

BarsOf(synced) == {Fact("bar", s, 2 * d, 0) : s \in synced, d \in 1..dfDay}

(* sync_active_instruments: each symbol's bars up to today, or none: a     *)
(* symbol that fails counts zero bars and the job goes on.                 *)
SyncMarketData ==
    /\ Running("sync_market_data")
    /\ \E synced \in SUBSET Symbols :
          dfFacts' = Upsert(BarsOf(synced))
    /\ Succeeded("sync_market_data")
    /\ UNCHANGED <<dfDay, dfSnapshots, dfForecasts, dfEntered>>

(* What ingest_feeds may find: a headline, perhaps an old one, or none.    *)
Headlines == {{}} \cup {{Fact("news", s, t, 0)} : s \in Symbols, t \in {x \in Instants : x <= Now}}

(* build_and_store_snapshot: one row per instrument and instant.           *)
Snapshots(built) ==
    {x \in dfSnapshots : x.as_of # Now \/ x.symbol \notin built} \cup
    {[symbol |-> s, as_of |-> Now] : s \in built}

(* sync_all_research: the news, then a snapshot as of now for each symbol, *)
(* unless its build fails.                                                 *)
SyncResearch ==
    /\ Running("sync_research")
    /\ \E headlines \in Headlines :
          /\ dfFacts' = KeepOrAdd(headlines)
          /\ \E built \in SUBSET Symbols : dfSnapshots' = Snapshots(built)
    /\ Succeeded("sync_research")
    /\ UNCHANGED <<dfDay, dfForecasts, dfEntered>>

(* run_model_predictions: each symbol with a bar, on its last one, from    *)
(* the providers that do not raise.                                        *)
RunModelPredictions ==
    /\ Running("run_model_predictions")
    /\ \E working \in [Symbols -> {Providers \ broken : broken \in Outages}] :
          dfForecasts' = dfForecasts \cup
              {LET decided == Max({b.at : b \in BarsTo(dfFacts, s, Now)})
               IN  [ symbol |-> s, decided |-> decided,
                     features |-> FeatureRow(dfFacts, s, decided, working[s]), known |-> dfFacts ] :
                   s \in {s \in Symbols : BarsTo(dfFacts, s, Now) # {}}}
    /\ Succeeded("run_model_predictions")
    /\ UNCHANGED <<dfDay, dfFacts, dfSnapshots, dfEntered>>

(* backfill_actuals writes predictions, which WeeklySignals models.        *)
BackfillActuals ==
    /\ Running("backfill_prediction_actuals")
    /\ Succeeded("backfill_prediction_actuals")
    /\ UNCHANGED <<dfDay, dfFacts, dfSnapshots, dfForecasts, dfEntered>>

(* Mutant: a job that raises is logged and not counted.                    *)
RaiseUncounted ==
    /\ dfRun.exit = "running" /\ dfRun.todo # <<>>
    /\ dfRun' = [dfRun EXCEPT !.todo = Tail(@),
                              !.outcomes = Append(@, <<Head(dfRun.todo), "raised">>)]
    /\ UNCHANGED <<dfDay, dfFacts, dfSnapshots, dfForecasts, dfEntered>>

(* A job raises: the query for the active instruments, the constructor of  *)
(* the provider, the ingestion of news, which may have stored headlines.   *)
JobRaises ==
    /\ dfRun.exit = "running" /\ dfRun.todo # <<>>
    /\ dfRun' = [dfRun EXCEPT !.todo = IF dfRun.fail_fast THEN <<>> ELSE Tail(@),
                              !.failed = Append(@, Head(dfRun.todo)),
                              !.outcomes = Append(@, <<Head(dfRun.todo), "raised">>)]
    /\ \/ UNCHANGED dfFacts
       \/ /\ Head(dfRun.todo) = "sync_research"
          /\ \E headlines \in Headlines : dfFacts' = KeepOrAdd(headlines)
    /\ UNCHANGED <<dfDay, dfSnapshots, dfForecasts, dfEntered>>

(* SystemExit when a job failed.                                           *)
ExitPipeline ==
    /\ dfRun.exit = "running" /\ dfRun.todo = <<>>
    /\ dfRun' = [dfRun EXCEPT !.exit = IF dfRun.failed = <<>> THEN "success" ELSE "failure"]
    /\ UNCHANGED <<dfDay, dfFacts, dfSnapshots, dfForecasts, dfEntered>>

(* What the operator enters may be of any date that has passed, a manual   *)
(* signal of a later one too.                                              *)
Entry(kind, s, t) == {Fact(kind, s, t, dfEntered)}
Enter(most) ==
    /\ dfEntered < most
    /\ dfEntered' = dfEntered + 1
    /\ UNCHANGED <<dfDay, dfSnapshots, dfForecasts, dfRun>>

LoadFundamentals ==
    /\ Enter(MaxEntries)
    /\ \E s \in Symbols, t \in {x \in Instants : x <= Now} : dfFacts' = Upsert(Entry("report", s, t))

LoadMentions ==
    /\ Enter(MaxEntries)
    /\ \E s \in Symbols, t \in {x \in Instants : x <= Now} : dfFacts' = KeepOrAdd(Entry("mention", s, t))

(* The form refuses a second signal of an instrument and date.             *)
FreeFor(x, facts) == \A y \in Of(facts, "manual", x.symbol) : DateOf(y.at) # DateOf(x.at)

(* manual_edit: a new row, or a row that is there with every field of the  *)
(* form replaced, its instrument and date too.                             *)
EnterSignal ==
    /\ Enter(MaxEntries)
    /\ \E s \in Symbols, t \in Instants :
          LET new == Fact("manual", s, t, dfEntered)
          IN  FreeFor(new, dfFacts) /\ dfFacts' = dfFacts \cup {new}

EditSignal ==
    /\ Enter(MaxEntries + MaxEdits)
    /\ \E x \in dfFacts, s \in Symbols, t \in Instants :
          LET new == Fact("manual", s, t, dfEntered)
          IN  /\ x.kind = "manual" /\ FreeFor(new, dfFacts \ {x})
              /\ dfFacts' = (dfFacts \ {x}) \cup {new}

RefreshNext ==
    \/ StartPipeline \/ SyncMarketData \/ SyncResearch \/ RunModelPredictions
    \/ BackfillActuals \/ JobRaises \/ ExitPipeline
    \/ LoadFundamentals \/ LoadMentions \/ EnterSignal \/ EditSignal
=============================================================================
