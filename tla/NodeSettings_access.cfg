SPECIFICATION SettingsSpec
CONSTANTS
  Ip = {backend}
  Setting = {s1, s2}
  Site = {old, new}
  Fields = {"allow", "any", "caddy"}
  EnvIsSet = FALSE
  EnvAllow = {}
  Legacy = {}
  DefaultAllow = {}
  DefaultCaddy = s1
  DefaultSite = old
  Scripts = {}
  Lost = lost
  None = none
  Torn = torn
PROPERTY PatchKeepsAccess
