\* Two rules, every wait of one tick, one restart.
SPECIFICATION FairSpec
CONSTANTS
    NRules = 2
    ALERT_COOLDOWN_SECONDS = 6
    POLL_INTERVAL_SECONDS = 1
    QUERY_TIMEOUT = 1
    MAIL_TIME = 1
    MaxRestarts = 1
INVARIANT TypeOK
INVARIANT BoundedSilence
INVARIANT MarkedIsMailed
PROPERTY MailsApart
PROPERTY LastingAlertMailed
