SPECIFICATION FairSpec
CONSTANTS
  Types <- MCTypes
  BadPoolNames = {"bad_name"}
  Configs <- MCConfigs
  ParseRoutes <- parse_routes
  CloseAll <- close_all
  ActionsOf <- actions_of
  Adders = {"a1", "a2"}
INVARIANTS UpIsUsable TargetShared ListenerUp NoLeak ReasonsExact CancelHeeded LimitGenerous NeverMisled
PROPERTIES CallsAnswered
CHECK_DEADLOCK FALSE
