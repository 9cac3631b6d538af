CONSTANTS
  a = a
  b = b
  c = c
  d = d
  root = root
  child = child
  grand = grand
  main = main
  helper = helper
  None = None
  Home = "home"
  Tree = "tree"
  NoText = "none"
  Jobs <- MCJobs
  Keys <- MCKeys
  Above <- MCAbove
  Agents <- MCAgents
  OwnModel <- MCOwnModel
  Models <- MCModels
  Prompts <- MCPrompts
  OwnCap <- MCOwnCap
  OwnTools <- MCOwnTools
  Projects <- MCProjects
  StandardTools = {"read", "shell"}
  ServerTools = {"spawn_agent"}
  Situations <- MCSituations
SPECIFICATION Spec
INVARIANTS
  OriginIsKept
  SettingsAreAsLastSaid
  ConversationIsOnesOwn
CHECK_DEADLOCK FALSE
