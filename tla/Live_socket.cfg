SPECIFICATION MCSpec
CONSTANTS
    Topics = {t1}
    MaxSockets = 5
    MaxEvents = 3
    MaxCalls = 2
INVARIANTS SubscriptionHasEndpoint ClientServerAgree
PROPERTY LiveDataArrives
