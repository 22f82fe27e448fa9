SPECIFICATION FairSpec
CONSTANTS
  Metrics = {"cpu", "disk"}
  Handlers = {h1, h2}
  Cooldown = 2
  Tasks = {t1}
  Channels = {"discord", "slack"}
  Retries = 3
  Webhooks = {{}, {"discord", "slack"}}
  Recovery = "recovery"
  OfflineBatch <- TwoOffline
  Alerts <- AllAlerts
INVARIANTS TypeOK NothingSkipped AlertsRemembered CooldownNotExtended
PROPERTIES TasksEnd CooldownRespected
