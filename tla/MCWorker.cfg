SPECIFICATION Spec
CONSTANTS
    Entities = {a}
    h1 = h1
    h2 = h2
    Brokers <- MCBrokers
    Meters = {m}
    Actions = {heating}
    None = None
    MaxEdits = 2
    MaxBreaks = 1
    MaxQueue = 2
INVARIANTS MqttFollows HvacHonest
PROPERTIES SettingsFollowed PublishSetFollowed SubscriptionFollowed 
CHECK_DEADLOCK FALSE
