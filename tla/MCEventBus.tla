----------------------------- MODULE MCEventBus -----------------------------
(***************************************************************************)
(* Instances of EventBus.  "agg" stands for BarFlowAggregator's BAR        *)
(* subscription, which publishes a bundle per bar, "obs" for a research    *)
(* observer with drop_if_full, "sto" for storage's BAR subscription and    *)
(* "pipe" for BarPipeline on BAR_BUNDLE.                                   *)
(***************************************************************************)
EXTENDS EventBus

\* Live: the feed and the catch-up publish bars; the observer is removed.
LiveOrder == <<"agg", "obs", "pipe">>
LiveTypes == <<"BAR", "BUNDLE">>
LiveTypeOf == [s \in {"agg", "obs", "pipe"} |-> IF s = "pipe" THEN "BUNDLE" ELSE "BAR"]
LiveWants == [s \in {"agg", "obs", "pipe"} |-> IF s = "agg" THEN {"MNQ"} ELSE {"MNQ", "SPY"}]
LiveEmits == [s \in {"agg", "obs", "pipe"} |-> IF s = "agg" THEN {"BUNDLE"} ELSE {}]
LiveFeeds == [p \in {"feed", "catchup"} |->
                IF p = "feed" THEN {<<"BAR", "MNQ">>} ELSE {<<"BAR", "MNQ">>, <<"BAR", "SPY">>}]

\* Replay: one task publishes bars and flushes, as date_replay does with the
\* feature, market-state and collector subscriptions.
ReplayOrder == <<"feature", "mstate", "collect">>
ReplayTypes == <<"BAR", "MARKET_STATE">>
ReplayTypeOf == [s \in {"feature", "mstate", "collect"} |->
                   IF s = "collect" THEN "MARKET_STATE" ELSE "BAR"]
ReplayWants == [s \in {"feature", "mstate", "collect"} |-> {"MNQ"}]
ReplayEmits == [s \in {"feature", "mstate", "collect"} |->
                  IF s = "mstate" THEN {"MARKET_STATE"} ELSE {}]
ReplayFeeds == [p \in {"replay"} |-> {<<"BAR", "MNQ">>}]
=============================================================================
