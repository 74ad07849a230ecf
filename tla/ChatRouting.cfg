CONSTANTS
  g1 = g1
  g2 = g2
  a1 = a1
  a2 = a2
  User = user
  None = None
  Bots = {a1, a2}
  Groups = {g1, g2}
  Targets <- MCTargets
  Written <- MCWritten
  Texts <- MCTexts
  Aliases <- MCAliases
  BotName <- MCBotName
  InitialMembers <- MCMembers
  k1 = k1
  k2 = k2
  k3 = k3
  Keys = {"one", "two", "off", "default"}
  DefaultKey = "default"
  AccessKeys = {k1, k2, k3}
  BotIds = {a1, a2}
  Items <- MCItems
  ConfigFile <- MCFile
  Env <- MCEnv
  KeyOf <- MCKeyOf
  MaxOpens = 2
  MaxSent = 2
  MaxChanges = 1
  Managed = {g1}
SPECIFICATION Spec
INVARIANTS TypeOK AnsweredByAsked AskedNotLost
CHECK_DEADLOCK FALSE
