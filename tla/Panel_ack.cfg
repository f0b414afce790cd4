SPECIFICATION PanelSpec
CONSTANTS
  Ip = {backend}
  Setting = {good, bad}
  Site = {page}
  Fields = {"caddy"}
  EnvIsSet = FALSE
  EnvAllow = {}
  Legacy = {}
  DefaultAllow = {backend}
  DefaultCaddy = good
  DefaultSite = page
  Scripts = {}
  Lost = lost
  None = none
  Torn = torn
  User = {n, b}
  NaiveUser = {n, b}
  MieruUser = {b}
  Selected = "naive"
  Valid = {good}
  Down = down
INVARIANT AcknowledgedIsServed
