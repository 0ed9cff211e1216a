SPECIFICATION Spec
CONSTANTS
  Account = {"qq", "wechat"}
  Fresh = {"new"}
  Direct = {"qq"}
  Group = {"group"}
  Nobody = "nobody"
  Workspace = {"home", "project"}
  Home = "home"
  NoSession = "none"
CHECK_DEADLOCK FALSE
INVARIANT NoOrphans
INVARIANT SharedArePaired
INVARIANT RefusedOnlyForSchedules
INVARIANT SessionsFitUnlessStrayed
