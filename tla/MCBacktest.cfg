CONSTANTS
    PAIRS_PER_VENUE = 1
    Den = 10
    FEE_RATE = 1
    MIN_PROFIT_USD = 17000
    MIN_PROFIT_BPS = 1
    MAX_POSITION_PCT = 10
    max_stale_ns = 2
    max_exchange_ts_skew_ms = 2
    TsMod = 16
    Ticks <- HandlerTicks
    Seed = 300000
    Coin = 3
    latency_penalty_bps = 1
    leg_fail_loss_bps = 9
    tds_rate = 1
    gst_on_fee_rate = 2
    sim_fee_rate = 1
    MAX_TRADES = 2
    MaxAttempts <- HandlerAttempts
SPECIFICATION Spec
INVARIANTS
    TypeOK
    Reconciles
    NoStaleTrade
    CommitsProfit
    LastLookRedundant
    BodiesMatch
PROPERTIES
    QtyWithinLimits
