SPECIFICATION SettingsSpec
CONSTANTS
  Ip = {local, backend}
  Setting = {old, new}
  Legacy = {old}
  Site = {page, other}
  Fields = {"allow", "any", "caddy"}
  EnvIsSet = FALSE
  EnvAllow = {}
  DefaultAllow = {local}
  DefaultCaddy = new
  DefaultSite = page
  Scripts = {"static-site", "update"}
  Lost = lost
  None = none
  Torn = torn
INVARIANTS EditKept RestartKeepsSettings
