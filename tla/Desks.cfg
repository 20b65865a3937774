SPECIFICATION Spec
CONSTANT Parts = {"model", "desk", "channels"}
CONSTANT Menus = {"m1"}
CONSTANT EnvFile = TRUE
CONSTANT MaxProfiles = 2
CONSTANT MaxAwaits = 1
CONSTANT MaxLines = 3
CONSTANT MaxOthers = 1
CONSTANT MaxPrompts = 1
CONSTANT MaxDrops = 1
CONSTANT MaxEvents = 4
CONSTANT SubMenus = {"model"}
CONSTANT Calls = {"c1", "c2"}
CONSTANT Aliases = {"a", "b"}
CONSTANT MaxSets = 1
CONSTANT Fields = {"on", "speech"}
CONSTANT MaxBegins = 2
CONSTANT MaxRestarts = 1
INVARIANTS SettingsAndDeskHold
PROPERTIES DeskGoesOn
CHECK_DEADLOCK FALSE
